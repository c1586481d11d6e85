---------------------------- MODULE HangulTables ----------------------------
(***************************************************************************)
(* The fixed tables of src/layout.c and the composition formula of         *)
(* src/fsm.c.  A jamo is its index in the Unicode order of its position:   *)
(* 19 initial consonants (cho), 21 vowels (jung), 27 finals (jong, 1..27). *)
(* None is the -1 that the code uses for "absent" and for "no rule".       *)
(***************************************************************************)
EXTENDS Integers

None == -1

ChoIndex  == 0..18
JungIndex == 0..20
JongIndex == 1..27

HangulBase == 44032          \* 0xAC00

(***************************************************************************)
(* ComposeHangul: the precomposed syllable of three indices; 0 when there  *)
(* is no initial or no vowel.                                              *)
(***************************************************************************)
ComposeHangul(cho, jung, jong) ==
    IF cho < 0 \/ jung < 0 THEN 0
    ELSE HangulBase + cho * 588 + jung * 28 + (IF jong < 0 THEN 0 ELSE jong)

(***************************************************************************)
(* The combination tables, as sets of rows <<first, second, result>>.      *)
(***************************************************************************)
Lookup(rows, a, b) ==
    LET hits == {r \in rows : r[1] = a /\ r[2] = b}
    IN  IF hits = {} THEN None ELSE (CHOOSE r \in hits : TRUE)[3]

ChoRows == {<<0, 0, 1>>, <<3, 3, 4>>, <<7, 7, 8>>, <<9, 9, 10>>, <<12, 12, 13>>}

JungRows == {<<8, 0, 9>>, <<8, 1, 10>>, <<8, 20, 11>>,
             <<13, 4, 14>>, <<13, 5, 15>>, <<13, 20, 16>>, <<18, 20, 19>>}

\* A final followed by an INITIAL index (two-set typing).
JongChoRows == {<<1, 9, 3>>, <<4, 12, 5>>, <<4, 18, 6>>, <<8, 0, 9>>, <<8, 6, 10>>,
                <<8, 7, 11>>, <<8, 9, 12>>, <<8, 16, 13>>, <<8, 17, 14>>,
                <<8, 18, 15>>, <<17, 9, 18>>}

\* A final followed by a FINAL index (three-set typing).
JongPairRows == {<<1, 19, 3>>, <<4, 22, 5>>, <<4, 27, 6>>, <<8, 1, 9>>, <<8, 16, 10>>,
                 <<8, 17, 11>>, <<8, 19, 12>>, <<8, 25, 13>>, <<8, 26, 14>>,
                 <<8, 27, 15>>, <<17, 19, 18>>}

LayoutCombineCho(a, b)      == Lookup(ChoRows, a, b)
LayoutCombineJung(a, b)     == Lookup(JungRows, a, b)
LayoutCombineJong(a, c)     == Lookup(JongChoRows, a, c)
LayoutCombineJongPair(a, b) == Lookup(JongPairRows, a, b)

\* An initial as a final; None for the tensed initials that are never final.
LayoutChoToJong ==
    [c \in ChoIndex |->
        <<1, 2, 4, 7, None, 8, 16, 17, None, 19, 20, 21, 22, None,
          23, 24, 25, 26, 27>>[c + 1]]

\* The initial a simple final becomes when a vowel follows it.
JongToCho ==
    [j \in JongIndex |->
        <<0, 1, None, 2, None, None, 3, 5, None, None, None, None, None, None,
          None, 6, 7, None, 9, 10, 11, 12, 14, 15, 16, 17, 18>>[j]]

\* Layout_SplitJong's switch: compound final -> <<what stays, what moves>>.
SplitRows == {<<3, 1, 9>>, <<5, 4, 12>>, <<6, 4, 18>>, <<9, 8, 0>>, <<10, 8, 6>>,
              <<11, 8, 7>>, <<12, 8, 9>>, <<13, 8, 16>>, <<14, 8, 17>>,
              <<15, 8, 18>>, <<18, 17, 9>>}

LayoutSplitJong(j) ==
    LET hits == {r \in SplitRows : r[1] = j}
    IN  IF hits = {} THEN [jong1 |-> 0, cho2 |-> JongToCho[j]]
        ELSE LET r == CHOOSE r \in hits : TRUE
             IN  [jong1 |-> r[2], cho2 |-> r[3]]

-----------------------------------------------------------------------------
(***************************************************************************)
(* The key maps: a row <<key, type, index>> per letter key.                *)
(* Two-set (KBD_DUBEOL): consonants are always initials.                   *)
(***************************************************************************)
DubeolChoKeys ==
    [r |-> 0, s |-> 2, e |-> 3, f |-> 5, a |-> 6, q |-> 7, t |-> 9, d |-> 11,
     w |-> 12, c |-> 14, z |-> 15, x |-> 16, v |-> 17, g |-> 18,
     R |-> 1, E |-> 4, Q |-> 8, T |-> 10, W |-> 13]

DubeolJungKeys ==
    [k |-> 0, o |-> 1, i |-> 2, O |-> 3, j |-> 4, p |-> 5, u |-> 6, P |-> 7,
     h |-> 8, y |-> 12, n |-> 13, b |-> 17, m |-> 18, l |-> 20]

\* Three-set (KBD_SEBEOL): every position has its own keys.
SebeolChoIndexes  == {0, 2, 3, 5, 6, 7, 9, 11, 12, 14, 15, 16, 17, 18}
SebeolJungIndexes == {0, 1, 2, 3, 4, 5, 6, 7, 8, 12, 13, 17, 18, 19, 20}
SebeolJongIndexes == JongIndex

Jamo(type, index) == [type |-> type, index |-> index]

DubeolKeys == {Jamo("cho", DubeolChoKeys[k]) : k \in DOMAIN DubeolChoKeys}
              \union {Jamo("jung", DubeolJungKeys[k]) : k \in DOMAIN DubeolJungKeys}

SebeolKeys == {Jamo("cho", i) : i \in SebeolChoIndexes}
              \union {Jamo("jung", i) : i \in SebeolJungIndexes}
              \union {Jamo("jong", i) : i \in SebeolJongIndexes}
=============================================================================

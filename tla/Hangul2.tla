------------------------------- MODULE Hangul2 -------------------------------
(***************************************************************************)
(* The two-set automaton of the TSF laboratory (examples/standard-tsf-lab,  *)
(* hangul2.c), written apart from the product's fsm.c on purpose, so that   *)
(* the two can be compared.  It keeps the keys of the syllable and rewinds  *)
(* them for a backspace.  An index is that of HangulTables; here 0 is "no   *)
(* final".                                                                  *)
(***************************************************************************)
EXTENDS Integers, Sequences, SequencesExt

Absent == -1

kCompoundVowels == {<<8, 0, 9>>, <<8, 1, 10>>, <<8, 20, 11>>, <<13, 4, 14>>,
                    <<13, 5, 15>>, <<13, 20, 16>>, <<18, 20, 19>>}

kCompoundFinals == {<<1, 19, 3>>, <<4, 22, 5>>, <<4, 27, 6>>, <<8, 1, 9>>, <<8, 16, 10>>,
                    <<8, 17, 11>>, <<8, 19, 12>>, <<8, 25, 13>>, <<8, 26, 14>>,
                    <<8, 27, 15>>, <<17, 19, 18>>}

\* The finals by the initial they are, in the order of the initials.
kInitialToFinal == <<1, 2, 4, 7, -1, 8, 16, 17, -1, 19, 20, 21, 22, -1, 23, 24, 25, 26, 27>>

Hangul2_InitialToFinal(i) == kInitialToFinal[i + 1]

Hangul2_FinalToInitial(t) ==
    IF \E i \in 0 .. 18 : kInitialToFinal[i + 1] = t
    THEN CHOOSE i \in 0 .. 18 : kInitialToFinal[i + 1] = t ELSE Absent

FindCompound(rows, a, b) ==
    IF \E r \in rows : r[1] = a /\ r[2] = b
    THEN (CHOOSE r \in rows : r[1] = a /\ r[2] = b)[3] ELSE Absent

Split(t) == {r \in kCompoundFinals : r[3] = t}

------------------------------------------------------------------------------

JamoKey(kind, i) == [kind |-> kind, index |-> i]

Hangul2_Reset == [l |-> Absent, v |-> Absent, t |-> 0, history |-> <<>>]
Hangul2_IsEmpty(st) == st.l < 0 /\ st.v < 0 /\ st.t = 0

kConsonants == [R |-> 0, S |-> 2, E |-> 3, F |-> 5, A |-> 6, Q |-> 7, T |-> 9, D |-> 11,
                W |-> 12, C |-> 14, Z |-> 15, X |-> 16, V |-> 17, G |-> 18]
kVowels == [K |-> 0, O |-> 1, I |-> 2, J |-> 4, P |-> 5, U |-> 6, H |-> 8, Y |-> 12, N |-> 13,
            B |-> 17, M |-> 18, L |-> 20]

\* Shift makes five consonants tense and gives two vowels another one.
Hangul2_MapDubeolsik(vk, shift) ==
    IF vk \in DOMAIN kConsonants
    THEN JamoKey("initial", kConsonants[vk] + (IF shift /\ vk \in {"R", "E", "Q", "T", "W"} THEN 1 ELSE 0))
    ELSE JamoKey("vowel", kVowels[vk] + (IF shift /\ vk \in {"O", "P"} THEN 2 ELSE 0))

\* A character: a syllable, or a letter that stands alone.
Syllable(l, v, t) == [l |-> l, v |-> v, t |-> t]
Hangul2_Preedit(st) == IF st.l < 0 /\ st.v < 0 THEN <<>> ELSE <<Syllable(st.l, st.v, st.t)>>

\* RebuildHistory after the first letter of a new composition.
Start(key) ==
    [Hangul2_Reset EXCEPT !.l = IF key.kind = "initial" THEN key.index ELSE Absent,
                          !.v = IF key.kind = "vowel" THEN key.index ELSE Absent,
                          !.history = <<key>>]

HangulStep(next, committed) == [next |-> next, committed |-> committed]
Grown(st, key) == HangulStep([st EXCEPT !.history = Append(@, key)], <<>>)

\* What is composed is committed and the key begins anew.
Anew(st, key) == HangulStep(Start(key), Hangul2_Preedit(st))

StepInitial(st, key) ==
    LET nf == Hangul2_InitialToFinal(key.index)
        comb == FindCompound(kCompoundFinals, st.t, nf)
    IN  CASE st.l >= 0 /\ st.v >= 0 /\ st.t = 0 /\ nf > 0 -> Grown([st EXCEPT !.t = nf], key)
          [] st.l >= 0 /\ st.v >= 0 /\ st.t > 0 /\ comb > 0 -> Grown([st EXCEPT !.t = comb], key)
          [] OTHER -> Anew(st, key)

\* A wrong split: a compound final moves on as a whole.
MoveWhole(st, key) ==
    HangulStep([Start(key) EXCEPT !.l = Hangul2_FinalToInitial(st.t)], <<Syllable(st.l, st.v, 0)>>)

\* A vowel after a final takes its last consonant along.
TakeFinal(st, key) ==
    LET stays == IF Split(st.t) = {} THEN 0 ELSE (CHOOSE r \in Split(st.t) : TRUE)[1]
        moves == IF Split(st.t) = {} THEN st.t ELSE (CHOOSE r \in Split(st.t) : TRUE)[2]
        l == Hangul2_FinalToInitial(moves)
    IN  HangulStep([Start(key) EXCEPT !.l = l, !.history = <<JamoKey("initial", l), key>>],
                   <<Syllable(st.l, st.v, stays)>>)

StepVowel(st, key) ==
    LET comb == FindCompound(kCompoundVowels, st.v, key.index)
    IN  CASE st.v < 0 -> Grown([st EXCEPT !.v = key.index], key)
          [] st.v >= 0 /\ st.t > 0 -> TakeFinal(st, key)
          [] st.v >= 0 /\ st.t = 0 /\ comb >= 0 -> Grown([st EXCEPT !.v = comb], key)
          [] OTHER -> Anew(st, key)

Hangul2_Step(st, key) == IF key.kind = "initial" THEN StepInitial(st, key) ELSE StepVowel(st, key)

\* The history without its last key, played again.
Replayed(st, key) ==
    LET nf == Hangul2_InitialToFinal(key.index)
        final == IF st.t = 0 THEN nf ELSE FindCompound(kCompoundFinals, st.t, nf)
        comb == FindCompound(kCompoundVowels, st.v, key.index)
    IN  IF key.kind = "initial"
        THEN CASE st.l < 0 -> [st EXCEPT !.l = key.index]
               [] st.l >= 0 /\ st.v >= 0 /\ nf > 0 /\ final > 0 -> [st EXCEPT !.t = final]
               [] OTHER -> st
        ELSE CASE st.v < 0 -> [st EXCEPT !.v = key.index]
               [] st.v >= 0 /\ comb >= 0 -> [st EXCEPT !.v = comb]
               [] OTHER -> st

Hangul2_Backspace(st) ==
    LET history == Front(st.history)
    IN  HangulStep([FoldLeft(Replayed, Hangul2_Reset, history) EXCEPT !.history = history], <<>>)
==============================================================================

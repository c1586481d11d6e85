--------------------------- MODULE MCHangulTyping ---------------------------
(***************************************************************************)
(* HangulTyping on the two built-in keyboards, with their full tables: a   *)
(* behaviour keeps to one of them.  The spelling of the jamos is the       *)
(* Korean orthography, written here independently of the tables:           *)
(* BuiltinTablesSpell compares the two.  A letter is the index of the      *)
(* simple initial it is written with, or 100 plus that of the simple vowel.*)
(***************************************************************************)
EXTENDS Integers, Sequences, TLC

VARIABLES board, ctx, res, input, wanted, todo, text

mcVars == <<board, ctx, res, input, wanted, todo, text>>

None == -1

Tables == INSTANCE HangulTables

MCCho  == Tables!ChoIndex
MCJung == Tables!JungIndex
MCJong == Tables!JongIndex

MCNoCombineCho    == [p \in MCCho \X MCCho |-> None]
MCCombineCho      == [p \in MCCho \X MCCho |-> Tables!LayoutCombineCho(p[1], p[2])]
MCCombineJung     == [p \in MCJung \X MCJung |-> Tables!LayoutCombineJung(p[1], p[2])]
MCCombineJong     == [p \in MCJong \X MCCho |-> Tables!LayoutCombineJong(p[1], p[2])]
MCCombineJongPair == [p \in MCJong \X MCJong |-> Tables!LayoutCombineJongPair(p[1], p[2])]
MCChoToJong       == Tables!LayoutChoToJong
MCSplitJong       == [t \in MCJong |-> Tables!LayoutSplitJong(t)]

MCLetters == MCCho \union {100 + v : v \in MCJung}

\* gg, dd, bb, ss, jj are doubled letters.
MCSpellCho == [c \in MCCho |-> IF c \in {1, 4, 8, 10, 13} THEN <<c - 1, c - 1>> ELSE <<c>>]

\* wa, wae, oe, wo, we, wi, ui are written with two vowels.
CompoundVowels == (9 :> <<108, 100>>) @@ (10 :> <<108, 101>>) @@ (11 :> <<108, 120>>)
    @@ (14 :> <<113, 104>>) @@ (15 :> <<113, 105>>) @@ (16 :> <<113, 120>>) @@ (19 :> <<118, 120>>)

MCSpellJung == [v \in MCJung |->
    IF v \in DOMAIN CompoundVowels THEN CompoundVowels[v] ELSE <<100 + v>>]

\* The 27 finals in Unicode order, each with the consonant letters it is written with.
MCSpellJong == <<
    <<0>>, <<0, 0>>, <<0, 9>>, <<2>>, <<2, 12>>, <<2, 18>>, <<3>>,
    <<5>>, <<5, 0>>, <<5, 6>>, <<5, 7>>, <<5, 9>>, <<5, 16>>, <<5, 17>>, <<5, 18>>,
    <<6>>, <<7>>, <<7, 9>>, <<9>>, <<9, 9>>, <<11>>, <<12>>, <<14>>, <<15>>,
    <<16>>, <<17>>, <<18>> >>

Key(type, index) == [type |-> type, index |-> index]

\* The key itself where the keyboard has one, the keys of its letters elsewhere.
VowelKeys(keys) == [v \in MCJung |->
    IF Key("jung", v) \in keys THEN <<Key("jung", v)>>
    ELSE [i \in 1..Len(MCSpellJung[v]) |-> Key("jung", MCSpellJung[v][i] - 100)]]

InitialKeys(keys) == [c \in MCCho |->
    IF Key("cho", c) \in keys THEN <<Key("cho", c)>>
    ELSE [i \in 1..Len(MCSpellCho[c]) |-> Key("cho", MCSpellCho[c][i])]]

\* A two-set final is typed with initials: one key if some initial is spelled like it.
TwoSetFinalKeys == [t \in MCJong |->
    LET same == {c \in MCCho : MCSpellCho[c] = MCSpellJong[t]}
    IN  IF same # {} THEN <<Key("cho", CHOOSE c \in same : TRUE)>>
        ELSE [i \in 1..Len(MCSpellJong[t]) |-> Key("cho", MCSpellJong[t][i])]]

MCDubeolKeys == Tables!DubeolKeys
MCSebeolKeys == Tables!SebeolKeys

MCDubeolKeyOf == [cho |-> InitialKeys(MCDubeolKeys), jung |-> VowelKeys(MCDubeolKeys),
                  jong |-> TwoSetFinalKeys]
MCSebeolKeyOf == [cho |-> InitialKeys(MCSebeolKeys), jung |-> VowelKeys(MCSebeolKeys),
                  jong |-> [t \in MCJong |-> <<Key("jong", t)>>]]

\* Every vowel and final, then every initial: what follows a syllable decides
\* how its last consonant is read.
Syllable(c, v, t) == [cho |-> c, jung |-> v, jong |-> t]
MCTexts == {<<Syllable(11, v, t), Syllable(c, 0, None)>> :
               v \in MCJung, t \in MCJong \union {None}, c \in MCCho}

Dubeol == INSTANCE HangulTyping WITH
    Cho <- MCCho, Jung <- MCJung, Jong <- MCJong,
    Keys <- MCDubeolKeys, DirectJong <- FALSE, BuiltinDubeol <- TRUE,
    CombineCho <- MCNoCombineCho, CombineJung <- MCCombineJung,
    CombineJongPair <- MCCombineJongPair, CombineJong <- MCCombineJong,
    ChoToJong <- MCChoToJong, SplitJong <- MCSplitJong,
    Letters <- MCLetters, SpellCho <- MCSpellCho, SpellJung <- MCSpellJung, SpellJong <- MCSpellJong,
    Texts <- MCTexts, KeyOf <- MCDubeolKeyOf

Sebeol == INSTANCE HangulTyping WITH
    Cho <- MCCho, Jung <- MCJung, Jong <- MCJong,
    Keys <- MCSebeolKeys, DirectJong <- TRUE, BuiltinDubeol <- FALSE,
    CombineCho <- MCCombineCho, CombineJung <- MCCombineJung,
    CombineJongPair <- MCCombineJongPair, CombineJong <- MCCombineJong,
    ChoToJong <- MCChoToJong, SplitJong <- MCSplitJong,
    Letters <- MCLetters, SpellCho <- MCSpellCho, SpellJung <- MCSpellJung, SpellJong <- MCSpellJong,
    Texts <- MCTexts, KeyOf <- MCSebeolKeyOf

Unshifted == [r |-> "R", s |-> "S", e |-> "E", f |-> "F", a |-> "A", q |-> "Q", t |-> "T", d |-> "D",
    w |-> "W", c |-> "C", z |-> "Z", x |-> "X", v |-> "V", g |-> "G", k |-> "K", o |-> "O", i |-> "I",
    j |-> "J", p |-> "P", u |-> "U", h |-> "H", y |-> "Y", n |-> "N", b |-> "B", m |-> "M", l |-> "L"]

\* The laboratory's own two-set automaton, on the same keyboard: where each key lies.
Lab == INSTANCE Hangul2

Physical(k) == CASE k \in {"R", "E", "Q", "T", "W", "O", "P"} -> <<k, TRUE>>
                 [] OTHER -> <<Unshifted[k], FALSE>>

BuiltinTablesSpell ==
    /\ Dubeol!IndexAssumption /\ Dubeol!TableAssumption /\ Dubeol!SpellTypeAssumption
    /\ Dubeol!SpellAssumption
    /\ Sebeol!IndexAssumption /\ Sebeol!TableAssumption /\ Sebeol!SpellTypeAssumption
    /\ Sebeol!SpellAssumption

\* Both automata are given the same letters; todo holds the laboratory's state and
\* text the character it committed.
LabInit == Dubeol!Init /\ todo = Lab!Hangul2_Reset /\ wanted = <<>> /\ text = <<>>

LabTypes(k) ==
    LET key == IF k \in DOMAIN Tables!DubeolChoKeys THEN Key("cho", Tables!DubeolChoKeys[k])
               ELSE Key("jung", Tables!DubeolJungKeys[k])
        step == Lab!Hangul2_Step(todo, Lab!Hangul2_MapDubeolsik(Physical(k)[1], Physical(k)[2]))
    IN  /\ Dubeol!ProcessKey(key)
        /\ todo' = step.next
        /\ text' = step.committed
        /\ UNCHANGED wanted

\* Whatever ends a composition commits what is displayed.
LabEnds ==
    /\ ctx.state # "EMPTY"
    /\ Dubeol!Flush
    /\ text' = Lab!Hangul2_Preedit(todo)
    /\ todo' = Lab!Hangul2_Reset
    /\ UNCHANGED wanted

\* Bound: letters of each kind the automata tell apart; LabTables compares the rest.
LabLetters == {"r", "s", "f", "t", "q", "w", "g", "E", "d", "k", "l", "h", "n"}

LabNext == LabEnds \/ \E k \in LabLetters : LabTypes(k)

\* Each letter and each pair means the same to both.
LabTables ==
    /\ \A k \in DOMAIN Tables!DubeolChoKeys :
          Lab!Hangul2_MapDubeolsik(Physical(k)[1], Physical(k)[2]) = Lab!JamoKey("initial", Tables!DubeolChoKeys[k])
    /\ \A k \in DOMAIN Tables!DubeolJungKeys :
          Lab!Hangul2_MapDubeolsik(Physical(k)[1], Physical(k)[2]) = Lab!JamoKey("vowel", Tables!DubeolJungKeys[k])
    /\ \A c \in MCCho : MCChoToJong[c] = Lab!Hangul2_InitialToFinal(c)
    /\ \A v, w \in MCJung : MCCombineJung[v, w] = Lab!FindCompound(Lab!kCompoundVowels, v, w)
    /\ \A t \in MCJong, c \in MCCho : MCChoToJong[c] # None =>
          MCCombineJong[t, c] = Lab!FindCompound(Lab!kCompoundFinals, t, MCChoToJong[c])

MCHangulTypingAssumption == BuiltinTablesSpell /\ LabTables

MCInit == \/ board = "dubeol" /\ Dubeol!TypingInit
          \/ board = "lab" /\ LabInit
          \/ board = "sebeol" /\ Sebeol!TypingInit
MCNext == \/ board = "dubeol" /\ Dubeol!TypingNext /\ UNCHANGED board
          \/ board = "sebeol" /\ Sebeol!TypingNext /\ UNCHANGED board
          \/ board = "lab" /\ LabNext /\ UNCHANGED board
MCSpec == MCInit /\ [][MCNext]_mcVars

\* On both keyboards nothing is committed that the rest of the typing contradicts.
CommitsAPrefix == /\ board = "dubeol" => Dubeol!CommitsAPrefix
                  /\ board = "sebeol" => Sebeol!CommitsAPrefix

\* On both keyboards the text comes out complete.
TypesTheText == /\ board = "dubeol" => Dubeol!TypesTheText
                /\ board = "sebeol" => Sebeol!TypesTheText

\* One character of the product, as the laboratory writes it.
AsSyllable(g) ==
    IF g = Dubeol!NoGlyph THEN <<>>
    ELSE <<Lab!Syllable(g.cho, g.jung, IF g.jong = None THEN 0 ELSE g.jong)>>

\* The automaton of the product (fsm.c) and the laboratory's (hangul2.c), written apart on
\* purpose, display and commit the same whatever is typed.
AgreesWithTheLab ==
    board = "lab" => /\ text = AsSyllable(res.commit)
                     /\ Lab!Hangul2_Preedit(todo) = AsSyllable(res.preedit)
=============================================================================

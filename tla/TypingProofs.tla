---------------------------- MODULE TypingProofs ----------------------------
(***************************************************************************)
(* Proofs about HangulFsm, for every keyboard (every value of the          *)
(* constants that satisfies its assumptions), and about Delivery, for any  *)
(* documents, layouts and number of units, and with sessions granted at    *)
(* any time.  The two have no variable in common.                          *)
(***************************************************************************)
EXTENDS HangulFsm, Delivery, TLAPS, SequenceTheorems

(***************************************************************************)
(* HangulFsm                                                               *)
(***************************************************************************)

(***************************************************************************)
(* The inductive invariant.  ShownIsPending needs nothing else, but the    *)
(* types of a transition depend on the state holding the jamos it names,   *)
(* which is ContextShape.                                                  *)
(***************************************************************************)
FsmInv == TypeOK /\ ContextShape /\ ShownIsPending

\* The tables answer with an index of the same position, or None.
LEMMA TableTypes ==
    /\ \A a, b \in Cho : CombineCho[a, b] \in Cho \union {None}
    /\ \A a, b \in Jung : CombineJung[a, b] \in Jung \union {None}
    /\ \A a, b \in Jong : CombineJongPair[a, b] \in Jong \union {None}
    /\ \A a \in Jong, c \in Cho : CombineJong[a, c] \in Jong \union {None}
    /\ \A c \in Cho : ChoToJong[c] \in Jong \union {None}
    /\ \A j \in Jong : SplitJong[j].jong1 \in Jong \union {0} /\ SplitJong[j].cho2 \in Cho
BY TableAssumption

\* An initial typed after a vowel or a final gives a final or nothing.
LEMMA FinalTypes ==
    /\ \A i \in Cho : AsFinal(i) \in Jong \union {None}
    /\ \A t \in Jong, i \in Cho : JoinFinal(t, i) \in Jong \union {None}
BY TableTypes, IndexAssumption DEF AsFinal, JoinFinal

\* No index is the code's -1.
LEMMA NoneIsNoIndex == None \notin Cho /\ None \notin Jung /\ None \notin Jong /\ 0 \notin Jong
BY IndexAssumption DEF None

\* Finals are numbered from 1 (0 is "no final" in the code).
LEMMA FinalPositive == \A t \in Jong : t > 0
BY IndexAssumption

\* What a key is spelled with is a non-empty word.
LEMMA SpellType == \A key \in Keys : Spell(key) \in Words
BY IndexAssumption, SpellTypeAssumption DEF Spell, Jamos

\* The empty context satisfies the invariant.
LEMMA FsmInitInv == Init => FsmInv
BY NoneIsNoIndex DEF Init, FsmInv, TypeOK, ContextShape, ShownIsPending, EmptyContext, Context, States, NoGlyph, Glyph,
   Glyphs, PeekPreedit, None

(***************************************************************************)
(* An answered key keeps the invariant as soon as its next context, its    *)
(* commit and its display are of one piece.                                *)
(***************************************************************************)
Shape(c) ==
    /\ c \in [state : States, cho : Cho \union {None}, jung : Jung \union {None},
              jong : Jong \union {None}]
    /\ (c.cho # None)  <=> c.state \in {"CHO", "CHO_JUNG", "CHO_JUNG_JONG"}
    /\ (c.jung # None) <=> c.state \in {"JUNG", "CHO_JUNG", "CHO_JUNG_JONG"}
    /\ (c.jong # None) <=> c.state = "CHO_JUNG_JONG"

\* A transition to a well-shaped context that shows that context keeps the invariant.
LEMMA AnswerInv ==
    ASSUME NEW key \in Keys, Asked(key), NEW next, NEW commit \in Glyphs, NEW shown,
           Shape(next), shown = PeekPreedit(next), Answer(next, commit, shown)
    PROVE  FsmInv'
<1>1. PeekPreedit(next) \in Glyphs
    BY DEF Shape, PeekPreedit, Glyphs, Glyph, NoGlyph, States
<1>2. input' \in [op : {"none", "type", "flush", "erase"}, word : Words \union {<<>>},
                  final : BOOLEAN]
    BY SpellType DEF Asked
<1>3. ctx' = next /\ res' = [commit |-> commit, preedit |-> PeekPreedit(next), eaten |-> TRUE]
    BY DEF Answer
<1> QED
    BY <1>1, <1>2, <1>3 DEF FsmInv, TypeOK, ContextShape, ShownIsPending, Shape


\* The invariant, read off the current state.
LEMMA InvFacts ==
    ASSUME FsmInv
    PROVE  /\ ctx.state \in States
           /\ ctx.state = "EMPTY" => /\ ctx = EmptyContext
                                    /\ ctx.cho = None /\ ctx.jung = None /\ ctx.jong = None
           /\ ctx.state = "CHO"  => ctx.cho \in Cho /\ ctx.jung = None /\ ctx.jong = None
           /\ ctx.state = "JUNG" => ctx.cho = None /\ ctx.jung \in Jung /\ ctx.jong = None
           /\ ctx.state = "CHO_JUNG" => ctx.cho \in Cho /\ ctx.jung \in Jung /\ ctx.jong = None
           /\ ctx.state = "CHO_JUNG_JONG"
                => ctx.cho \in Cho /\ ctx.jung \in Jung /\ ctx.jong \in Jong
BY DEF FsmInv, TypeOK, ContextShape, Context, EmptyContext

\* The five contexts a transition can end in are well shaped.
LEMMA Shapes ==
    /\ Shape(EmptyContext)
    /\ \A c \in Cho : Shape(Context("CHO", c, None, None))
    /\ \A v \in Jung : Shape(Context("JUNG", None, v, None))
    /\ \A c \in Cho, v \in Jung : Shape(Context("CHO_JUNG", c, v, None))
    /\ \A c \in Cho, v \in Jung, t \in Jong : Shape(Context("CHO_JUNG_JONG", c, v, t))
BY NoneIsNoIndex DEF Shape, EmptyContext, Context, States

\* What each context displays.
LEMMA Peeks ==
    /\ PeekPreedit(EmptyContext) = NoGlyph
    /\ \A c, v, t : /\ PeekPreedit(Context("CHO", c, v, t)) = Glyph(c, None, None)
                    /\ PeekPreedit(Context("JUNG", c, v, t)) = Glyph(None, v, None)
                    /\ PeekPreedit(Context("CHO_JUNG", c, v, t)) = Glyph(c, v, t)
                    /\ PeekPreedit(Context("CHO_JUNG_JONG", c, v, t)) = Glyph(c, v, t)
BY DEF PeekPreedit, EmptyContext, Context

\* Every key is a jamo of one of the three positions.
LEMMA KeyTypes ==
    ASSUME NEW key \in Keys
    PROVE  /\ key.type \in {"cho", "jung", "jong"}
           /\ key.type = "cho"  => key.index \in Cho
           /\ key.type = "jung" => key.index \in Jung
           /\ key.type = "jong" => key.index \in Jong
BY IndexAssumption DEF Jamos

\* An answered key keeps the invariant, for each context it can end in.
LEMMA AnswersInv ==
    ASSUME NEW key \in Keys, Asked(key), NEW commit \in Glyphs
    PROVE  /\ Answer(EmptyContext, commit, NoGlyph) => FsmInv'
           /\ \A c \in Cho :
                 Answer(Context("CHO", c, None, None), commit, Glyph(c, None, None)) => FsmInv'
           /\ \A v \in Jung :
                 Answer(Context("JUNG", None, v, None), commit, Glyph(None, v, None)) => FsmInv'
           /\ \A c \in Cho, v \in Jung :
                 Answer(Context("CHO_JUNG", c, v, None), commit, Glyph(c, v, None)) => FsmInv'
           /\ \A c \in Cho, v \in Jung, t \in Jong :
                 Answer(Context("CHO_JUNG_JONG", c, v, t), commit, Glyph(c, v, t)) => FsmInv'
BY Shapes, Peeks, AnswerInv

\* The characters a transition can commit.
LEMMA Commits ==
    /\ NoGlyph \in Glyphs
    /\ \A c \in Cho : Glyph(c, None, None) \in Glyphs
    /\ \A v \in Jung : Glyph(None, v, None) \in Glyphs
    /\ \A t \in Jong : Glyph(None, None, t) \in Glyphs
    /\ \A c \in Cho, v \in Jung, t \in Jong \union {None} : Glyph(c, v, t) \in Glyphs
    /\ \A c \in Cho, v \in Jung : Glyph(c, v, None) \in Glyphs
BY DEF Glyphs, Glyph, NoGlyph

\* The first key of a syllable keeps the invariant.
LEMMA StepEmptyInv ==
    ASSUME FsmInv, NEW key \in Keys, Asked(key), StepEmpty(key)
    PROVE  FsmInv'
<1> DEFINE i == key.index
<1>0. ctx = EmptyContext /\ ctx.cho = None /\ ctx.jung = None /\ ctx.jong = None
    BY InvFacts DEF StepEmpty
<1>1. CASE key.type = "cho"
    <2>1. Answer(Context("CHO", i, None, None), NoGlyph, Glyph(i, None, None))
        BY <1>0, <1>1 DEF StepEmpty, EmptyContext
    <2> QED BY <1>1, <2>1, AnswersInv, KeyTypes, Commits
<1>2. CASE key.type = "jung"
    <2>1. Answer(Context("JUNG", None, i, None), NoGlyph, Glyph(None, i, None))
        BY <1>0, <1>2 DEF StepEmpty, EmptyContext
    <2> QED BY <1>2, <2>1, AnswersInv, KeyTypes, Commits
<1>3. CASE key.type = "jong"
    <2>1. Answer(EmptyContext, Glyph(None, None, i), NoGlyph)
        BY <1>0, <1>3 DEF StepEmpty
    <2> QED BY <1>3, <2>1, AnswersInv, KeyTypes, Commits
<1> QED BY <1>1, <1>2, <1>3, KeyTypes

\* A key after an initial keeps the invariant.
LEMMA StepChoInv ==
    ASSUME FsmInv, NEW key \in Keys, Asked(key), StepCho(key)
    PROVE  FsmInv'
<1> DEFINE i == key.index  c == ctx.cho  r == CombineCho[c, i]
<1>0. c \in Cho /\ ctx.jung = None /\ ctx.jong = None
    BY InvFacts DEF StepCho
<1>1. CASE key.type = "cho" /\ r # None
    <2>1. Answer(Context("CHO", r, None, None), NoGlyph, Glyph(r, None, None))
        BY <1>0, <1>1 DEF StepCho
    <2>2. r \in Cho
        BY <1>0, <1>1, KeyTypes, TableTypes
    <2> QED BY <2>1, <2>2, AnswersInv, Commits
<1>2. CASE key.type = "cho" /\ r = None
    <2>1. Answer(Context("CHO", i, None, None), Glyph(c, None, None), Glyph(i, None, None))
        BY <1>0, <1>2 DEF StepCho
    <2> QED BY <1>0, <1>2, <2>1, AnswersInv, KeyTypes, Commits
<1>3. CASE key.type = "jung"
    <2>1. Answer(Context("CHO_JUNG", c, i, None), NoGlyph, Glyph(c, i, None))
        BY <1>0, <1>3 DEF StepCho
    <2> QED BY <1>0, <1>3, <2>1, AnswersInv, KeyTypes, Commits
<1>4. CASE key.type = "jong"
    <2>1. Answer(EmptyContext, Glyph(c, None, None), NoGlyph)
        BY <1>4 DEF StepCho
    <2> QED BY <1>0, <2>1, AnswersInv, Commits
<1> QED BY <1>1, <1>2, <1>3, <1>4, KeyTypes

\* A key after a vowel alone keeps the invariant.
LEMMA StepJungInv ==
    ASSUME FsmInv, NEW key \in Keys, Asked(key), StepJung(key)
    PROVE  FsmInv'
<1> DEFINE i == key.index  v == ctx.jung  r == CombineJung[v, i]
<1>0. v \in Jung /\ ctx.cho = None /\ ctx.jong = None
    BY InvFacts DEF StepJung
<1>1. CASE key.type = "cho"
    <2>1. Answer(Context("CHO", i, None, None), Glyph(None, v, None), Glyph(i, None, None))
        BY <1>1 DEF StepJung, StartCho
    <2> QED BY <1>0, <1>1, <2>1, AnswersInv, KeyTypes, Commits
<1>2. CASE key.type = "jung" /\ r # None
    <2>1. Answer(Context("JUNG", None, r, None), NoGlyph, Glyph(None, r, None))
        BY <1>0, <1>2 DEF StepJung
    <2>2. r \in Jung
        BY <1>0, <1>2, KeyTypes, TableTypes
    <2> QED BY <2>1, <2>2, AnswersInv, Commits
<1>3. CASE key.type = "jung" /\ r = None
    <2>1. Answer(Context("JUNG", None, i, None), Glyph(None, v, None), Glyph(None, i, None))
        BY <1>0, <1>3 DEF StepJung
    <2> QED BY <1>0, <1>3, <2>1, AnswersInv, KeyTypes, Commits
<1>4. CASE key.type = "jong"
    <2>1. Answer(EmptyContext, Glyph(None, v, None), NoGlyph)
        BY <1>4 DEF StepJung
    <2> QED BY <1>0, <2>1, AnswersInv, Commits
<1> QED BY <1>1, <1>2, <1>3, <1>4, KeyTypes

\* A key after an initial and a vowel keeps the invariant.
LEMMA StepChoJungInv ==
    ASSUME FsmInv, NEW key \in Keys, Asked(key), StepChoJung(key)
    PROVE  FsmInv'
<1> DEFINE i == key.index  c == ctx.cho  v == ctx.jung  r == CombineJung[v, i]
<1>0. c \in Cho /\ v \in Jung /\ ctx.jong = None
    BY InvFacts DEF StepChoJung
<1>1. CASE key.type = "cho" /\ AsFinal(i) # None
    <2>1. Answer(Context("CHO_JUNG_JONG", c, v, AsFinal(i)), NoGlyph, Glyph(c, v, AsFinal(i)))
        BY <1>0, <1>1 DEF StepChoJung
    <2>2. AsFinal(i) \in Jong
        BY <1>1, KeyTypes, FinalTypes
    <2> QED BY <1>0, <2>1, <2>2, AnswersInv, Commits
<1>2. CASE key.type = "cho" /\ AsFinal(i) = None
    <2>1. Answer(Context("CHO", i, None, None), Glyph(c, v, None), Glyph(i, None, None))
        BY <1>2 DEF StepChoJung, StartCho
    <2> QED BY <1>0, <1>2, <2>1, AnswersInv, KeyTypes, Commits
<1>3. CASE key.type = "jung" /\ r # None
    <2>1. Answer(Context("CHO_JUNG", c, r, None), NoGlyph, Glyph(c, r, None))
        BY <1>0, <1>3 DEF StepChoJung
    <2>2. r \in Jung
        BY <1>0, <1>3, KeyTypes, TableTypes
    <2> QED BY <1>0, <2>1, <2>2, AnswersInv, Commits
<1>4. CASE key.type = "jung" /\ r = None
    <2>1. Answer(Context("JUNG", None, i, None), Glyph(c, v, None), Glyph(None, i, None))
        BY <1>4 DEF StepChoJung, StartJung
    <2> QED BY <1>0, <1>4, <2>1, AnswersInv, KeyTypes, Commits
<1>5. CASE key.type = "jong"
    <2>1. Answer(Context("CHO_JUNG_JONG", c, v, i), NoGlyph, Glyph(c, v, i))
        BY <1>0, <1>5 DEF StepChoJung
    <2> QED BY <1>0, <1>5, <2>1, AnswersInv, KeyTypes, Commits
<1> QED BY <1>1, <1>2, <1>3, <1>4, <1>5, KeyTypes

\* A key after a full syllable keeps the invariant.
LEMMA StepChoJungJongInv ==
    ASSUME FsmInv, NEW key \in Keys, Asked(key), StepChoJungJong(key)
    PROVE  FsmInv'
<1> DEFINE i == key.index  c == ctx.cho  v == ctx.jung  t == ctx.jong
           s == SplitJong[t]  stays == Stays(t)
           r == CombineJongPair[t, i]
<1>0. c \in Cho /\ v \in Jung /\ t \in Jong
    BY InvFacts DEF StepChoJungJong
<1>1. CASE key.type = "cho" /\ JoinFinal(t, i) # None
    <2>1. Answer(Context("CHO_JUNG_JONG", c, v, JoinFinal(t, i)), NoGlyph,
                 Glyph(c, v, JoinFinal(t, i)))
        BY <1>0, <1>1 DEF StepChoJungJong
    <2>2. JoinFinal(t, i) \in Jong
        BY <1>0, <1>1, KeyTypes, FinalTypes
    <2> QED BY <1>0, <2>1, <2>2, AnswersInv, Commits
<1>2. CASE key.type = "cho" /\ JoinFinal(t, i) = None
    <2>1. Answer(Context("CHO", i, None, None), Glyph(c, v, t), Glyph(i, None, None))
        BY <1>2 DEF StepChoJungJong, StartCho
    <2> QED BY <1>0, <1>2, <2>1, AnswersInv, KeyTypes, Commits
<1>3. CASE key.type = "jung" /\ ~DirectJong
    <2>1. Answer(Context("CHO_JUNG", s.cho2, i, None), Glyph(c, v, stays), Glyph(s.cho2, i, None))
        BY <1>3 DEF StepChoJungJong
    <2>2. s.cho2 \in Cho /\ s.jong1 \in Jong \union {0}
        BY <1>0, TableTypes
    <2>3. stays \in Jong \union {None}
        BY <2>2 DEF Stays
    <2> QED BY <1>0, <1>3, <2>1, <2>2, <2>3, AnswersInv, KeyTypes, Commits
<1>4. CASE key.type = "jung" /\ DirectJong
    <2>1. Answer(Context("JUNG", None, i, None), Glyph(c, v, t), Glyph(None, i, None))
        BY <1>4 DEF StepChoJungJong, StartJung
    <2> QED BY <1>0, <1>4, <2>1, AnswersInv, KeyTypes, Commits
<1>5. CASE key.type = "jong" /\ r # None
    <2>1. Answer(Context("CHO_JUNG_JONG", c, v, r), NoGlyph, Glyph(c, v, r))
        BY <1>0, <1>5 DEF StepChoJungJong
    <2>2. r \in Jong
        BY <1>0, <1>5, KeyTypes, TableTypes
    <2> QED BY <1>0, <2>1, <2>2, AnswersInv, Commits
<1>6. CASE key.type = "jong" /\ r = None
    <2>1. Answer(EmptyContext, Glyph(c, v, t), NoGlyph)
        BY <1>6 DEF StepChoJungJong
    <2> QED BY <1>0, <2>1, AnswersInv, Commits
<1> QED BY <1>1, <1>2, <1>3, <1>4, <1>5, <1>6, KeyTypes

\* Fsm_Flush keeps the invariant.
LEMMA FlushInv == FsmInv /\ Flush => FsmInv'
<1> SUFFICES ASSUME FsmInv, Flush PROVE FsmInv'
    OBVIOUS
<1>1. PeekPreedit(ctx) \in Glyphs
    BY DEF FsmInv, TypeOK, PeekPreedit, Glyphs, Glyph, NoGlyph, States
<1>2. ctx' = EmptyContext /\ res' = [commit |-> PeekPreedit(ctx), preedit |-> NoGlyph, eaten |-> FALSE]
    BY DEF Flush
<1>3. input' \in [op : {"none", "type", "flush", "erase"}, word : Words \union {<<>>}, final : BOOLEAN]
    BY DEF Flush
<1> QED BY <1>1, <1>2, <1>3, Shapes, Peeks, Commits
        DEF FsmInv, TypeOK, ContextShape, ShownIsPending, Shape

\* An erasure keeps the invariant when it displays what is left.
LEMMA ErasedInv ==
    ASSUME NEW next, NEW eaten \in BOOLEAN, NEW shown,
           Shape(next), shown = PeekPreedit(next), Erased(next, shown, eaten)
    PROVE  FsmInv'
<1>1. PeekPreedit(next) \in Glyphs
    BY DEF Shape, PeekPreedit, Glyphs, Glyph, NoGlyph, States
<1>2. input' \in [op : {"none", "type", "flush", "erase"}, word : Words \union {<<>>}, final : BOOLEAN]
    BY DEF Erased
<1>3. ctx' = next /\ res' = [commit |-> NoGlyph, preedit |-> PeekPreedit(next), eaten |-> eaten]
    BY DEF Erased
<1> QED BY <1>1, <1>2, <1>3, Commits DEF FsmInv, TypeOK, ContextShape, ShownIsPending, Shape

\* The contexts an erasure can leave.
LEMMA ErasuresInv ==
    ASSUME NEW eaten \in BOOLEAN
    PROVE  /\ Erased(EmptyContext, NoGlyph, eaten) => FsmInv'
           /\ \A c \in Cho :
                 Erased(Context("CHO", c, None, None), Glyph(c, None, None), eaten) => FsmInv'
           /\ \A c \in Cho, v \in Jung :
                 Erased(Context("CHO_JUNG", c, v, None), Glyph(c, v, None), eaten) => FsmInv'
BY Shapes, Peeks, ErasedInv

\* Fsm_Backspace, and erasing the whole syllable, keep the invariant.
LEMMA BackspaceInv == FsmInv /\ (Backspace \/ BackspaceWhole) => FsmInv'
<1> SUFFICES ASSUME FsmInv, Backspace \/ BackspaceWhole PROVE FsmInv'
    OBVIOUS
<1>1. CASE ctx.state = "EMPTY" /\ Erased(ctx, NoGlyph, FALSE)
    BY <1>1, InvFacts, ErasuresInv
<1>2. CASE Erased(EmptyContext, NoGlyph, TRUE)
    BY <1>2, ErasuresInv
<1>3. CASE /\ ctx.state = "CHO_JUNG"
           /\ Erased(Context("CHO", ctx.cho, None, ctx.jong), Glyph(ctx.cho, None, None), TRUE)
    <2>1. Erased(Context("CHO", ctx.cho, None, None), Glyph(ctx.cho, None, None), TRUE)
        BY <1>3, InvFacts
    <2> QED BY <1>3, <2>1, InvFacts, ErasuresInv
<1>4. CASE /\ ctx.state = "CHO_JUNG_JONG"
           /\ Erased(Context("CHO_JUNG", ctx.cho, ctx.jung, None),
                     Glyph(ctx.cho, ctx.jung, None), TRUE)
    <2>1. Erased(Context("CHO_JUNG", ctx.cho, ctx.jung, None), Glyph(ctx.cho, ctx.jung, None), TRUE)
        BY <1>4, InvFacts
    <2> QED BY <1>4, <2>1, InvFacts, ErasuresInv
<1> QED BY <1>1, <1>2, <1>3, <1>4 DEF Backspace, BackspaceWhole

\* Every step keeps the invariant.
LEMMA FsmNextInv == FsmInv /\ [Next]_vars => FsmInv'
<1> SUFFICES ASSUME FsmInv, [Next]_vars PROVE FsmInv'
    OBVIOUS
<1>1. ASSUME NEW key \in Keys, ProcessKey(key) PROVE FsmInv'
    BY <1>1, StepEmptyInv, StepChoInv, StepJungInv, StepChoJungInv, StepChoJungJongInv
       DEF ProcessKey
<1>2. CASE Flush
    BY <1>2, FlushInv
<1>3. CASE Backspace \/ BackspaceWhole
    BY <1>3, BackspaceInv
<1>4. CASE UNCHANGED vars
    BY <1>4 DEF vars, FsmInv, TypeOK, ContextShape, ShownIsPending
<1> QED BY <1>1, <1>2, <1>3, <1>4 DEF Next

-----------------------------------------------------------------------------
(***************************************************************************)
(* Refinement of JamoStream.                                               *)
(***************************************************************************)

\* Facts about concatenation used by the refinement.
LEMMA Concat ==
    /\ \A s \in Seq(Letters) : s \o <<>> = s /\ <<>> \o s = s
    /\ \A s, u \in Seq(Letters) : s \o u \in Seq(Letters)
    /\ \A s, u, w \in Seq(Letters) : (s \o u) \o w = s \o (u \o w)
BY ConcatEmptySeq, ConcatAssociative, ConcatProperties

\* The same for three given words.
LEMMA Regroup ==
    ASSUME NEW s \in Seq(Letters), NEW u \in Seq(Letters), NEW w \in Seq(Letters)
    PROVE  (s \o u) \o w = s \o (u \o w) /\ (s \o u) \o w \in Seq(Letters)
BY Concat

\* What a key, a context and a glyph spell are words over Letters.
LEMMA SpellTypes ==
    /\ \A c \in Cho : SpellCho[c] \in Seq(Letters) /\ SpellCho[c] # <<>>
    /\ \A v \in Jung : SpellJung[v] \in Seq(Letters) /\ SpellJung[v] # <<>>
    /\ \A t \in Jong : SpellJong[t] \in Seq(Letters) /\ SpellJong[t] # <<>>
BY SpellTypeAssumption DEF Words

\* The spelling of the glyphs the automaton builds.
LEMMA GlyphSpelling ==
    /\ SpellGlyph(NoGlyph) = <<>>
    /\ \A c \in Cho : SpellGlyph(Glyph(c, None, None)) = SpellCho[c]
    /\ \A v \in Jung : SpellGlyph(Glyph(None, v, None)) = SpellJung[v]
    /\ \A t \in Jong : SpellGlyph(Glyph(None, None, t)) = SpellJong[t]
    /\ \A c \in Cho, v \in Jung : SpellGlyph(Glyph(c, v, None)) = SpellCho[c] \o SpellJung[v]
    /\ \A c \in Cho, v \in Jung, t \in Jong :
          SpellGlyph(Glyph(c, v, t)) = (SpellCho[c] \o SpellJung[v]) \o SpellJong[t]
<1>1. SpellGlyph(NoGlyph) = <<>>
    BY Concat, EmptySeq DEF SpellGlyph, NoGlyph, Glyph, Letter
<1>2. ASSUME NEW c \in Cho PROVE SpellGlyph(Glyph(c, None, None)) = SpellCho[c]
    BY Concat, SpellTypes, NoneIsNoIndex, EmptySeq DEF SpellGlyph, Glyph, Letter
<1>3. ASSUME NEW v \in Jung PROVE SpellGlyph(Glyph(None, v, None)) = SpellJung[v]
    BY Concat, SpellTypes, NoneIsNoIndex, EmptySeq DEF SpellGlyph, Glyph, Letter
<1>4. ASSUME NEW t \in Jong PROVE SpellGlyph(Glyph(None, None, t)) = SpellJong[t]
    BY Concat, SpellTypes, NoneIsNoIndex, EmptySeq DEF SpellGlyph, Glyph, Letter
<1>5. ASSUME NEW c \in Cho, NEW v \in Jung
      PROVE  SpellGlyph(Glyph(c, v, None)) = SpellCho[c] \o SpellJung[v]
    <2>1. SpellGlyph(Glyph(c, v, None)) = (SpellCho[c] \o SpellJung[v]) \o <<>>
        BY NoneIsNoIndex DEF SpellGlyph, Glyph, Letter
    <2>2. SpellCho[c] \o SpellJung[v] \in Seq(Letters)
        BY SpellTypes, Concat
    <2> QED BY <2>1, <2>2, Concat
<1>6. ASSUME NEW c \in Cho, NEW v \in Jung, NEW t \in Jong
      PROVE  SpellGlyph(Glyph(c, v, t)) = (SpellCho[c] \o SpellJung[v]) \o SpellJong[t]
    BY NoneIsNoIndex DEF SpellGlyph, Glyph, Letter
<1> QED BY <1>1, <1>2, <1>3, <1>4, <1>5, <1>6

\* The letters pending in each context.
LEMMA PeekSpelling ==
    /\ SpellGlyph(PeekPreedit(EmptyContext)) = <<>>
    /\ \A c \in Cho : SpellGlyph(PeekPreedit(Context("CHO", c, None, None))) = SpellCho[c]
    /\ \A v \in Jung : SpellGlyph(PeekPreedit(Context("JUNG", None, v, None))) = SpellJung[v]
    /\ \A c \in Cho, v \in Jung :
          SpellGlyph(PeekPreedit(Context("CHO_JUNG", c, v, None))) = SpellCho[c] \o SpellJung[v]
    /\ \A c \in Cho, v \in Jung, t \in Jong :
          SpellGlyph(PeekPreedit(Context("CHO_JUNG_JONG", c, v, t)))
             = (SpellCho[c] \o SpellJung[v]) \o SpellJong[t]
<1>1. SpellGlyph(PeekPreedit(EmptyContext)) = <<>>
    BY Peeks, GlyphSpelling
<1>2. ASSUME NEW c \in Cho
      PROVE  SpellGlyph(PeekPreedit(Context("CHO", c, None, None))) = SpellCho[c]
    BY Peeks, GlyphSpelling
<1>3. ASSUME NEW v \in Jung
      PROVE  SpellGlyph(PeekPreedit(Context("JUNG", None, v, None))) = SpellJung[v]
    BY Peeks, GlyphSpelling
<1>4. ASSUME NEW c \in Cho, NEW v \in Jung
      PROVE  SpellGlyph(PeekPreedit(Context("CHO_JUNG", c, v, None)))
                = SpellCho[c] \o SpellJung[v]
    <2>1. PeekPreedit(Context("CHO_JUNG", c, v, None)) = Glyph(c, v, None)
        BY Peeks
    <2> QED BY <2>1, GlyphSpelling
<1>5. ASSUME NEW c \in Cho, NEW v \in Jung, NEW t \in Jong
      PROVE  SpellGlyph(PeekPreedit(Context("CHO_JUNG_JONG", c, v, t)))
                = (SpellCho[c] \o SpellJung[v]) \o SpellJong[t]
    <2>1. PeekPreedit(Context("CHO_JUNG_JONG", c, v, t)) = Glyph(c, v, t)
        BY Peeks
    <2> QED BY <2>1, GlyphSpelling
<1> QED BY <1>1, <1>2, <1>3, <1>4, <1>5

\* An answered key is a stream step when the letters add up.
LEMMA AnswerIsTyping ==
    ASSUME NEW key \in Keys, Asked(key), NEW next, NEW commit, NEW shown,
           Answer(next, commit, shown),
           SpellGlyph(commit) \o SpellGlyph(PeekPreedit(next))
              = SpellGlyph(PeekPreedit(ctx)) \o Spell(key)
    PROVE  Stream!StreamNext
<1>1. ctx' = next /\ res'.commit = commit
    BY DEF Answer
<1>2. input'.op = "type" /\ input'.word = Spell(key)
    BY DEF Asked
<1> QED BY <1>1, <1>2 DEF Stream!StreamNext, Stream!TypeWord

\* The same when nothing is committed.
LEMMA AnswerIsExtending ==
    ASSUME NEW key \in Keys, Asked(key), NEW next, NEW shown, Answer(next, NoGlyph, shown),
           SpellGlyph(PeekPreedit(next)) = SpellGlyph(PeekPreedit(ctx)) \o Spell(key),
           SpellGlyph(PeekPreedit(next)) \in Seq(Letters)
    PROVE  Stream!StreamNext
BY AnswerIsTyping, GlyphSpelling, Concat

\* A final key that commits what was shown and leaves nothing is the stream's DropFinal.
LEMMA AnswerIsDropping ==
    ASSUME NEW key \in Keys, Asked(key), key.type = "jong", NEW shown,
           Answer(EmptyContext, PeekPreedit(ctx), shown)
    PROVE  Stream!StreamNext
<1>1. ctx' = EmptyContext /\ res'.commit = PeekPreedit(ctx)
    BY DEF Answer
<1>2. input'.op = "type" /\ input'.final
    BY DEF Asked
<1>3. SpellGlyph(PeekPreedit(EmptyContext)) = <<>>
    BY Peeks, GlyphSpelling
<1> QED BY <1>1, <1>2, <1>3 DEF Stream!StreamNext, Stream!DropFinal

\* The first key of a syllable is a step of the stream.
LEMMA StepEmptyStream ==
    ASSUME FsmInv, NEW key \in Keys, Asked(key), StepEmpty(key)
    PROVE  Stream!StreamNext
<1> DEFINE i == key.index
<1>0. /\ ctx = EmptyContext /\ ctx.cho = None /\ ctx.jung = None /\ ctx.jong = None
      /\ SpellGlyph(PeekPreedit(ctx)) = <<>>
    BY InvFacts, Peeks, GlyphSpelling DEF StepEmpty
<1>1. CASE key.type = "cho"
    <2>1. Answer(Context("CHO", i, None, None), NoGlyph, Glyph(i, None, None))
        BY <1>0, <1>1 DEF StepEmpty
    <2>2. Spell(key) = SpellCho[i] /\ i \in Cho
        BY <1>1, KeyTypes DEF Spell
    <2>3. SpellGlyph(NoGlyph) \o SpellGlyph(PeekPreedit(Context("CHO", i, None, None)))
             = SpellGlyph(PeekPreedit(ctx)) \o Spell(key)
        BY <1>0, <2>2, Peeks, GlyphSpelling
    <2> QED BY <2>1, <2>3, AnswerIsTyping
<1>2. CASE key.type = "jung"
    <2>1. Answer(Context("JUNG", None, i, None), NoGlyph, Glyph(None, i, None))
        BY <1>0, <1>2 DEF StepEmpty
    <2>2. Spell(key) = SpellJung[i] /\ i \in Jung
        BY <1>2, KeyTypes DEF Spell
    <2>3. SpellGlyph(NoGlyph) \o SpellGlyph(PeekPreedit(Context("JUNG", None, i, None)))
             = SpellGlyph(PeekPreedit(ctx)) \o Spell(key)
        BY <1>0, <2>2, Peeks, GlyphSpelling
    <2> QED BY <2>1, <2>3, AnswerIsTyping
<1>3. CASE key.type = "jong"
    <2>1. Answer(EmptyContext, Glyph(None, None, i), NoGlyph)
        BY <1>0, <1>3 DEF StepEmpty
    <2>2. Spell(key) = SpellJong[i] /\ i \in Jong
        BY <1>3, KeyTypes DEF Spell
    <2>3. SpellGlyph(Glyph(None, None, i)) \o SpellGlyph(PeekPreedit(EmptyContext))
             = SpellGlyph(PeekPreedit(ctx)) \o Spell(key)
        BY <1>0, <2>2, Peeks, GlyphSpelling, Concat, SpellTypes
    <2> QED BY <2>1, <2>3, AnswerIsTyping
<1> QED BY <1>1, <1>2, <1>3, KeyTypes

\* A key after an initial is a step of the stream.
LEMMA StepChoStream ==
    ASSUME FsmInv, NEW key \in Keys, Asked(key), StepCho(key)
    PROVE  Stream!StreamNext
<1> DEFINE i == key.index  c == ctx.cho  r == CombineCho[c, i]
<1>0. /\ c \in Cho /\ ctx.jung = None /\ ctx.jong = None
      /\ PeekPreedit(ctx) = Glyph(c, None, None)
      /\ SpellGlyph(PeekPreedit(ctx)) = SpellCho[c] /\ SpellCho[c] \in Seq(Letters)
    BY InvFacts, GlyphSpelling, SpellTypes DEF StepCho, PeekPreedit
<1>1. CASE key.type = "cho" /\ r # None
    <2>1. Answer(Context("CHO", r, None, None), NoGlyph, Glyph(r, None, None))
        BY <1>0, <1>1 DEF StepCho
    <2>2. Spell(key) = SpellCho[i] /\ i \in Cho /\ SpellCho[i] \in Seq(Letters)
        BY <1>1, KeyTypes, SpellTypes DEF Spell
    <2>4. r \in Cho /\ SpellCho[r] \in Seq(Letters) /\ SpellCho[r] = SpellCho[c] \o SpellCho[i]
        BY <1>0, <1>1, <2>2, TableTypes, SpellTypes, SpellAssumption
    <2>3. /\ SpellGlyph(PeekPreedit(Context("CHO", r, None, None)))
                = SpellGlyph(PeekPreedit(ctx)) \o Spell(key)
          /\ SpellGlyph(PeekPreedit(Context("CHO", r, None, None))) \in Seq(Letters)
        <3>1. SpellGlyph(PeekPreedit(Context("CHO", r, None, None)))
                 = SpellCho[r]
            BY <1>0, <2>2, <2>4, PeekSpelling
        <3> QED BY <1>0, <2>2, <2>4, <3>1, Concat
    <2> QED BY <2>1, <2>3, AnswerIsExtending
<1>2. CASE key.type = "cho" /\ r = None
    <2>1. Answer(Context("CHO", i, None, None), Glyph(c, None, None), Glyph(i, None, None))
        BY <1>0, <1>2 DEF StepCho
    <2>2. Spell(key) = SpellCho[i] /\ i \in Cho /\ SpellCho[i] \in Seq(Letters)
        BY <1>2, KeyTypes, SpellTypes DEF Spell
    <2>3. SpellGlyph(Glyph(c, None, None)) \o SpellGlyph(PeekPreedit(Context("CHO", i, None, None)))
             = SpellGlyph(PeekPreedit(ctx)) \o Spell(key)
        BY <1>0, <2>2, PeekSpelling, GlyphSpelling, Concat
    <2> QED BY <2>1, <2>3, AnswerIsTyping
<1>3. CASE key.type = "jung"
    <2>1. Answer(Context("CHO_JUNG", c, i, None), NoGlyph, Glyph(c, i, None))
        BY <1>0, <1>3 DEF StepCho
    <2>2. Spell(key) = SpellJung[i] /\ i \in Jung /\ SpellJung[i] \in Seq(Letters)
        BY <1>3, KeyTypes, SpellTypes DEF Spell
    <2>3. /\ SpellGlyph(PeekPreedit(Context("CHO_JUNG", c, i, None)))
                = SpellGlyph(PeekPreedit(ctx)) \o Spell(key)
          /\ SpellGlyph(PeekPreedit(Context("CHO_JUNG", c, i, None))) \in Seq(Letters)
        <3>1. SpellGlyph(PeekPreedit(Context("CHO_JUNG", c, i, None)))
                 = SpellCho[c] \o SpellJung[i]
            BY <1>0, <2>2, PeekSpelling
        <3> QED BY <1>0, <2>2, <3>1, Concat
    <2> QED BY <2>1, <2>3, AnswerIsExtending
<1>4. CASE key.type = "jong"
    <2>1. Answer(EmptyContext, PeekPreedit(ctx), NoGlyph)
        BY <1>0, <1>4 DEF StepCho
    <2> QED BY <1>4, <2>1, AnswerIsDropping
<1> QED BY <1>1, <1>2, <1>3, <1>4, KeyTypes

\* A key after a vowel alone is a step of the stream.
LEMMA StepJungStream ==
    ASSUME FsmInv, NEW key \in Keys, Asked(key), StepJung(key)
    PROVE  Stream!StreamNext
<1> DEFINE i == key.index  v == ctx.jung  r == CombineJung[v, i]
<1>0. /\ v \in Jung /\ ctx.cho = None /\ ctx.jong = None
      /\ PeekPreedit(ctx) = Glyph(None, v, None)
      /\ SpellGlyph(PeekPreedit(ctx)) = SpellJung[v] /\ SpellJung[v] \in Seq(Letters)
    BY InvFacts, GlyphSpelling, SpellTypes DEF StepJung, PeekPreedit
<1>1. CASE key.type = "cho"
    <2>1. Answer(Context("CHO", i, None, None), Glyph(None, v, None), Glyph(i, None, None))
        BY <1>1 DEF StepJung, StartCho
    <2>2. Spell(key) = SpellCho[i] /\ i \in Cho /\ SpellCho[i] \in Seq(Letters)
        BY <1>1, KeyTypes, SpellTypes DEF Spell
    <2>3. SpellGlyph(Glyph(None, v, None)) \o SpellGlyph(PeekPreedit(Context("CHO", i, None, None)))
             = SpellGlyph(PeekPreedit(ctx)) \o Spell(key)
        BY <1>0, <2>2, PeekSpelling, GlyphSpelling, Concat
    <2> QED BY <2>1, <2>3, AnswerIsTyping
<1>2. CASE key.type = "jung" /\ r # None
    <2>1. Answer(Context("JUNG", None, r, None), NoGlyph, Glyph(None, r, None))
        BY <1>0, <1>2 DEF StepJung
    <2>2. Spell(key) = SpellJung[i] /\ i \in Jung /\ SpellJung[i] \in Seq(Letters)
        BY <1>2, KeyTypes, SpellTypes DEF Spell
    <2>4. r \in Jung /\ SpellJung[r] \in Seq(Letters) /\ SpellJung[r] = SpellJung[v] \o SpellJung[i]
        BY <1>0, <1>2, <2>2, TableTypes, SpellTypes, SpellAssumption
    <2>3. /\ SpellGlyph(PeekPreedit(Context("JUNG", None, r, None)))
                = SpellGlyph(PeekPreedit(ctx)) \o Spell(key)
          /\ SpellGlyph(PeekPreedit(Context("JUNG", None, r, None))) \in Seq(Letters)
        <3>1. SpellGlyph(PeekPreedit(Context("JUNG", None, r, None)))
                 = SpellJung[r]
            BY <1>0, <2>2, <2>4, PeekSpelling
        <3> QED BY <1>0, <2>2, <2>4, <3>1, Concat
    <2> QED BY <2>1, <2>3, AnswerIsExtending
<1>3. CASE key.type = "jung" /\ r = None
    <2>1. Answer(Context("JUNG", None, i, None), Glyph(None, v, None), Glyph(None, i, None))
        BY <1>0, <1>3 DEF StepJung
    <2>2. Spell(key) = SpellJung[i] /\ i \in Jung /\ SpellJung[i] \in Seq(Letters)
        BY <1>3, KeyTypes, SpellTypes DEF Spell
    <2>3. SpellGlyph(Glyph(None, v, None)) \o SpellGlyph(PeekPreedit(Context("JUNG", None, i, None)))
             = SpellGlyph(PeekPreedit(ctx)) \o Spell(key)
        BY <1>0, <2>2, PeekSpelling, GlyphSpelling, Concat
    <2> QED BY <2>1, <2>3, AnswerIsTyping
<1>4. CASE key.type = "jong"
    <2>1. Answer(EmptyContext, PeekPreedit(ctx), NoGlyph)
        BY <1>0, <1>4 DEF StepJung
    <2> QED BY <1>4, <2>1, AnswerIsDropping
<1> QED BY <1>1, <1>2, <1>3, <1>4, KeyTypes

\* A key after an initial and a vowel is a step of the stream.
LEMMA StepChoJungStream ==
    ASSUME FsmInv, NEW key \in Keys, Asked(key), StepChoJung(key)
    PROVE  Stream!StreamNext
<1> DEFINE i == key.index  c == ctx.cho  v == ctx.jung  r == CombineJung[v, i]
<1>0. /\ c \in Cho /\ v \in Jung /\ ctx.jong = None
      /\ PeekPreedit(ctx) = Glyph(c, v, None)
      /\ SpellGlyph(PeekPreedit(ctx)) = SpellCho[c] \o SpellJung[v]
      /\ SpellCho[c] \in Seq(Letters) /\ SpellJung[v] \in Seq(Letters)
    BY InvFacts, GlyphSpelling, SpellTypes DEF StepChoJung, PeekPreedit
<1>1. CASE key.type = "cho" /\ AsFinal(i) # None
    <2>1. Answer(Context("CHO_JUNG_JONG", c, v, AsFinal(i)), NoGlyph, Glyph(c, v, AsFinal(i)))
        BY <1>0, <1>1 DEF StepChoJung
    <2>2. Spell(key) = SpellCho[i] /\ i \in Cho /\ SpellCho[i] \in Seq(Letters)
        BY <1>1, KeyTypes, SpellTypes DEF Spell
    <2>4. AsFinal(i) \in Jong /\ SpellJong[AsFinal(i)] = SpellCho[i]
        BY <1>1, <2>2, FinalTypes, SpellAssumption DEF AsFinal
    <2>3. /\ SpellGlyph(PeekPreedit(Context("CHO_JUNG_JONG", c, v, AsFinal(i))))
                = SpellGlyph(PeekPreedit(ctx)) \o Spell(key)
          /\ SpellGlyph(PeekPreedit(Context("CHO_JUNG_JONG", c, v, AsFinal(i)))) \in Seq(Letters)
        <3>1. SpellGlyph(PeekPreedit(Context("CHO_JUNG_JONG", c, v, AsFinal(i))))
                 = (SpellCho[c] \o SpellJung[v]) \o SpellJong[AsFinal(i)]
            BY <1>0, <2>2, <2>4, PeekSpelling
        <3>2. (SpellCho[c] \o SpellJung[v]) \o SpellCho[i] \in Seq(Letters)
            BY <1>0, <2>2, <2>4, Concat, Regroup
        <3> QED BY <1>0, <2>2, <2>4, <3>1, <3>2
    <2> QED BY <2>1, <2>3, AnswerIsExtending
<1>2. CASE key.type = "cho" /\ AsFinal(i) = None
    <2>1. Answer(Context("CHO", i, None, None), Glyph(c, v, None), Glyph(i, None, None))
        BY <1>2 DEF StepChoJung, StartCho
    <2>2. Spell(key) = SpellCho[i] /\ i \in Cho /\ SpellCho[i] \in Seq(Letters)
        BY <1>2, KeyTypes, SpellTypes DEF Spell
    <2>3. SpellGlyph(Glyph(c, v, None)) \o SpellGlyph(PeekPreedit(Context("CHO", i, None, None)))
             = SpellGlyph(PeekPreedit(ctx)) \o Spell(key)
        BY <1>0, <2>2, PeekSpelling, GlyphSpelling, Concat
    <2> QED BY <2>1, <2>3, AnswerIsTyping
<1>3. CASE key.type = "jung" /\ r # None
    <2>1. Answer(Context("CHO_JUNG", c, r, None), NoGlyph, Glyph(c, r, None))
        BY <1>0, <1>3 DEF StepChoJung
    <2>2. Spell(key) = SpellJung[i] /\ i \in Jung /\ SpellJung[i] \in Seq(Letters)
        BY <1>3, KeyTypes, SpellTypes DEF Spell
    <2>4. r \in Jung /\ SpellJung[r] \in Seq(Letters) /\ SpellJung[r] = SpellJung[v] \o SpellJung[i]
        BY <1>0, <1>3, <2>2, TableTypes, SpellTypes, SpellAssumption
    <2>3. /\ SpellGlyph(PeekPreedit(Context("CHO_JUNG", c, r, None)))
                = SpellGlyph(PeekPreedit(ctx)) \o Spell(key)
          /\ SpellGlyph(PeekPreedit(Context("CHO_JUNG", c, r, None))) \in Seq(Letters)
        <3>1. SpellGlyph(PeekPreedit(Context("CHO_JUNG", c, r, None)))
                 = SpellCho[c] \o SpellJung[r]
            BY <1>0, <2>2, <2>4, PeekSpelling
        <3>2. SpellCho[c] \o (SpellJung[v] \o SpellJung[i])
                    = (SpellCho[c] \o SpellJung[v]) \o SpellJung[i]
            BY <1>0, <2>2, Regroup
        <3>3. SpellCho[c] \o SpellJung[r] \in Seq(Letters)
            BY <1>0, <2>4, Concat
        <3> QED BY <1>0, <2>2, <2>4, <3>1, <3>2, <3>3
    <2> QED BY <2>1, <2>3, AnswerIsExtending
<1>4. CASE key.type = "jung" /\ r = None
    <2>1. Answer(Context("JUNG", None, i, None), Glyph(c, v, None), Glyph(None, i, None))
        BY <1>4 DEF StepChoJung, StartJung
    <2>2. Spell(key) = SpellJung[i] /\ i \in Jung /\ SpellJung[i] \in Seq(Letters)
        BY <1>4, KeyTypes, SpellTypes DEF Spell
    <2>3. SpellGlyph(Glyph(c, v, None)) \o SpellGlyph(PeekPreedit(Context("JUNG", None, i, None)))
             = SpellGlyph(PeekPreedit(ctx)) \o Spell(key)
        BY <1>0, <2>2, PeekSpelling, GlyphSpelling, Concat
    <2> QED BY <2>1, <2>3, AnswerIsTyping
<1>5. CASE key.type = "jong"
    <2>1. Answer(Context("CHO_JUNG_JONG", c, v, i), NoGlyph, Glyph(c, v, i))
        BY <1>0, <1>5 DEF StepChoJung
    <2>2. Spell(key) = SpellJong[i] /\ i \in Jong /\ SpellJong[i] \in Seq(Letters)
        BY <1>5, KeyTypes, SpellTypes DEF Spell
    <2>3. /\ SpellGlyph(PeekPreedit(Context("CHO_JUNG_JONG", c, v, i)))
                = SpellGlyph(PeekPreedit(ctx)) \o Spell(key)
          /\ SpellGlyph(PeekPreedit(Context("CHO_JUNG_JONG", c, v, i))) \in Seq(Letters)
        <3>1. SpellGlyph(PeekPreedit(Context("CHO_JUNG_JONG", c, v, i)))
                 = (SpellCho[c] \o SpellJung[v]) \o SpellJong[i]
            BY <1>0, <2>2, PeekSpelling
        <3>2. (SpellCho[c] \o SpellJung[v]) \o SpellJong[i] \in Seq(Letters)
            BY <1>0, <2>2, Concat, Regroup
        <3> QED BY <1>0, <2>2, <3>1, <3>2
    <2> QED BY <2>1, <2>3, AnswerIsExtending
<1> QED BY <1>1, <1>2, <1>3, <1>4, <1>5, KeyTypes

\* A final that splits is spelled by what stays and what moves.
LEMMA SplitSpelling ==
    ASSUME NEW t \in Jong
    PROVE  /\ SplitJong[t].jong1 = 0 => SpellJong[t] = SpellCho[SplitJong[t].cho2]
           /\ SplitJong[t].jong1 # 0
                => SpellJong[t] = SpellJong[SplitJong[t].jong1] \o SpellCho[SplitJong[t].cho2]
BY SpellAssumption

\* A joined final is spelled by the final and the initial it was made of.
LEMMA JoinSpelling ==
    ASSUME NEW t \in Jong, NEW i \in Cho, JoinFinal(t, i) # None
    PROVE  SpellJong[JoinFinal(t, i)] = SpellJong[t] \o SpellCho[i]
<1>1. CASE ~DirectJong /\ BuiltinDubeol
    BY <1>1, SpellAssumption DEF JoinFinal
<1>2. CASE ~DirectJong /\ ~BuiltinDubeol
    <2>1. ChoToJong[i] # None /\ JoinFinal(t, i) = CombineJongPair[t, ChoToJong[i]]
        BY <1>2 DEF JoinFinal
    <2>2. ChoToJong[i] \in Jong
        BY <2>1, TableTypes
    <2>3. SpellJong[ChoToJong[i]] = SpellCho[i]
        BY <2>1, SpellAssumption
    <2>4. SpellJong[CombineJongPair[t, ChoToJong[i]]] = SpellJong[t] \o SpellJong[ChoToJong[i]]
        BY <2>1, <2>2, SpellAssumption
    <2> QED BY <2>1, <2>3, <2>4
<1> QED BY <1>1, <1>2, IndexAssumption DEF JoinFinal

\* A key after a full syllable is a step of the stream.
LEMMA StepChoJungJongStream ==
    ASSUME FsmInv, NEW key \in Keys, Asked(key), StepChoJungJong(key)
    PROVE  Stream!StreamNext
<1> DEFINE i == key.index  c == ctx.cho  v == ctx.jung  t == ctx.jong
           s == SplitJong[t]  stays == Stays(t)
           r == CombineJongPair[t, i]
<1>0. /\ c \in Cho /\ v \in Jung /\ t \in Jong
      /\ PeekPreedit(ctx) = Glyph(c, v, t)
      /\ SpellGlyph(PeekPreedit(ctx)) = (SpellCho[c] \o SpellJung[v]) \o SpellJong[t]
      /\ SpellCho[c] \o SpellJung[v] \in Seq(Letters)
      /\ SpellJong[t] \in Seq(Letters)
    BY InvFacts, GlyphSpelling, Concat, SpellTypes DEF StepChoJungJong, PeekPreedit
<1>1. CASE key.type = "cho" /\ JoinFinal(t, i) # None
    <2>1. Answer(Context("CHO_JUNG_JONG", c, v, JoinFinal(t, i)), NoGlyph, Glyph(c, v, JoinFinal(t, i)))
        BY <1>0, <1>1 DEF StepChoJungJong
    <2>2. Spell(key) = SpellCho[i] /\ i \in Cho /\ SpellCho[i] \in Seq(Letters)
        BY <1>1, KeyTypes, SpellTypes DEF Spell
    <2>4. /\ JoinFinal(t, i) \in Jong /\ SpellJong[JoinFinal(t, i)] \in Seq(Letters)
          /\ SpellJong[JoinFinal(t, i)] = SpellJong[t] \o SpellCho[i]
        BY <1>0, <1>1, <2>2, FinalTypes, JoinSpelling, SpellTypes
    <2>3. /\ SpellGlyph(PeekPreedit(Context("CHO_JUNG_JONG", c, v, JoinFinal(t, i))))
                = SpellGlyph(PeekPreedit(ctx)) \o Spell(key)
          /\ SpellGlyph(PeekPreedit(Context("CHO_JUNG_JONG", c, v, JoinFinal(t, i)))) \in Seq(Letters)
        <3>1. SpellGlyph(PeekPreedit(Context("CHO_JUNG_JONG", c, v, JoinFinal(t, i))))
                 = (SpellCho[c] \o SpellJung[v]) \o SpellJong[JoinFinal(t, i)]
            BY <1>0, <2>2, <2>4, PeekSpelling
        <3>2. (SpellCho[c] \o SpellJung[v]) \o (SpellJong[t] \o SpellCho[i])
                    = ((SpellCho[c] \o SpellJung[v]) \o SpellJong[t]) \o SpellCho[i]
            BY <1>0, <2>2, Regroup
        <3>3. (SpellCho[c] \o SpellJung[v]) \o SpellJong[JoinFinal(t, i)] \in Seq(Letters)
            BY <1>0, <2>4, Concat
        <3> QED BY <1>0, <2>2, <2>4, <3>1, <3>2, <3>3
    <2> QED BY <2>1, <2>3, AnswerIsExtending
<1>2. CASE key.type = "cho" /\ JoinFinal(t, i) = None
    <2>1. Answer(Context("CHO", i, None, None), Glyph(c, v, t), Glyph(i, None, None))
        BY <1>2 DEF StepChoJungJong, StartCho
    <2>2. Spell(key) = SpellCho[i] /\ i \in Cho /\ SpellCho[i] \in Seq(Letters)
        BY <1>2, KeyTypes, SpellTypes DEF Spell
    <2>3. SpellGlyph(Glyph(c, v, t)) \o SpellGlyph(PeekPreedit(Context("CHO", i, None, None)))
             = SpellGlyph(PeekPreedit(ctx)) \o Spell(key)
        BY <1>0, <2>2, PeekSpelling, GlyphSpelling, Concat
    <2> QED BY <2>1, <2>3, AnswerIsTyping
<1>3. CASE key.type = "jung" /\ ~DirectJong
    <2>1. Answer(Context("CHO_JUNG", s.cho2, i, None), Glyph(c, v, stays), Glyph(s.cho2, i, None))
        BY <1>3 DEF StepChoJungJong
    <2>2. Spell(key) = SpellJung[i] /\ i \in Jung /\ SpellJung[i] \in Seq(Letters)
        BY <1>3, KeyTypes, SpellTypes DEF Spell
    <2>4. s.cho2 \in Cho /\ SpellCho[s.cho2] \in Seq(Letters) /\ s.jong1 \in Jong \union {0}
        BY <1>0, TableTypes, SpellTypes
    <2>3. SpellGlyph(Glyph(c, v, stays))
             \o SpellGlyph(PeekPreedit(Context("CHO_JUNG", s.cho2, i, None)))
             = SpellGlyph(PeekPreedit(ctx)) \o Spell(key)
        <3>1. SpellGlyph(PeekPreedit(Context("CHO_JUNG", s.cho2, i, None)))
                 = SpellCho[s.cho2] \o SpellJung[i]
            BY <2>2, <2>4, PeekSpelling
        <3>2. CASE s.jong1 = 0
            <4>1. stays = None
                BY <3>2 DEF Stays
            <4>2. SpellGlyph(Glyph(c, v, stays)) = SpellCho[c] \o SpellJung[v]
                BY <1>0, <4>1, GlyphSpelling
            <4>3. SpellJong[t] = SpellCho[s.cho2]
                BY <1>0, <3>2, SplitSpelling
            <4>4. (SpellCho[c] \o SpellJung[v]) \o (SpellCho[s.cho2] \o SpellJung[i])
                     = ((SpellCho[c] \o SpellJung[v]) \o SpellCho[s.cho2]) \o SpellJung[i]
                BY <1>0, <2>2, <2>4, Regroup
            <4> QED BY <1>0, <2>2, <3>1, <4>2, <4>3, <4>4
        <3>3. CASE s.jong1 # 0
            <4>0. s.jong1 \in Jong /\ s.jong1 > 0
                BY <2>4, <3>3, FinalPositive
            <4>1. stays = s.jong1 /\ s.jong1 \in Jong /\ SpellJong[s.jong1] \in Seq(Letters)
                BY <4>0, SpellTypes DEF Stays
            <4>2. SpellGlyph(Glyph(c, v, stays))
                     = (SpellCho[c] \o SpellJung[v]) \o SpellJong[s.jong1]
                BY <1>0, <4>1, GlyphSpelling
            <4>3. SpellJong[t] = SpellJong[s.jong1] \o SpellCho[s.cho2]
                BY <1>0, <3>3, SplitSpelling
            <4>4. ((SpellCho[c] \o SpellJung[v]) \o SpellJong[s.jong1]) \o (SpellCho[s.cho2] \o SpellJung[i])
                     = ((SpellCho[c] \o SpellJung[v]) \o (SpellJong[s.jong1] \o SpellCho[s.cho2])) \o SpellJung[i]
                <5> DEFINE w1 == SpellCho[c] \o SpellJung[v]  w2 == SpellJong[s.jong1]
                           w3 == SpellCho[s.cho2]  w4 == SpellJung[i]
                <5>1. /\ w1 \in Seq(Letters) /\ w2 \in Seq(Letters)
                      /\ w3 \in Seq(Letters) /\ w4 \in Seq(Letters)
                    BY <1>0, <2>2, <2>4, <4>1
                <5> HIDE DEF w1, w2, w3, w4
                <5>2. w1 \o w2 \in Seq(Letters) /\ (w1 \o w2) \o w3 = w1 \o (w2 \o w3)
                    BY <5>1, Concat
                <5>3. (w1 \o w2) \o (w3 \o w4) = ((w1 \o w2) \o w3) \o w4
                    BY <5>1, <5>2, Concat
                <5> QED BY <5>2, <5>3 DEF w1, w2, w3, w4
            <4> QED BY <1>0, <2>2, <3>1, <4>2, <4>3, <4>4
        <3> QED BY <3>2, <3>3
    <2> QED BY <2>1, <2>3, AnswerIsTyping
<1>4. CASE key.type = "jung" /\ DirectJong
    <2>1. Answer(Context("JUNG", None, i, None), Glyph(c, v, t), Glyph(None, i, None))
        BY <1>4 DEF StepChoJungJong, StartJung
    <2>2. Spell(key) = SpellJung[i] /\ i \in Jung /\ SpellJung[i] \in Seq(Letters)
        BY <1>4, KeyTypes, SpellTypes DEF Spell
    <2>3. SpellGlyph(Glyph(c, v, t)) \o SpellGlyph(PeekPreedit(Context("JUNG", None, i, None)))
             = SpellGlyph(PeekPreedit(ctx)) \o Spell(key)
        BY <1>0, <2>2, PeekSpelling, GlyphSpelling, Concat
    <2> QED BY <2>1, <2>3, AnswerIsTyping
<1>5. CASE key.type = "jong" /\ r # None
    <2>1. Answer(Context("CHO_JUNG_JONG", c, v, r), NoGlyph, Glyph(c, v, r))
        BY <1>0, <1>5 DEF StepChoJungJong
    <2>2. Spell(key) = SpellJong[i] /\ i \in Jong /\ SpellJong[i] \in Seq(Letters)
        BY <1>5, KeyTypes, SpellTypes DEF Spell
    <2>4. r \in Jong /\ SpellJong[r] \in Seq(Letters) /\ SpellJong[r] = SpellJong[t] \o SpellJong[i]
        BY <1>0, <1>5, <2>2, TableTypes, SpellTypes, SpellAssumption
    <2>3. /\ SpellGlyph(PeekPreedit(Context("CHO_JUNG_JONG", c, v, r)))
                = SpellGlyph(PeekPreedit(ctx)) \o Spell(key)
          /\ SpellGlyph(PeekPreedit(Context("CHO_JUNG_JONG", c, v, r))) \in Seq(Letters)
        <3>1. SpellGlyph(PeekPreedit(Context("CHO_JUNG_JONG", c, v, r)))
                 = (SpellCho[c] \o SpellJung[v]) \o SpellJong[r]
            BY <1>0, <2>2, <2>4, PeekSpelling
        <3>2. (SpellCho[c] \o SpellJung[v]) \o (SpellJong[t] \o SpellJong[i])
                    = ((SpellCho[c] \o SpellJung[v]) \o SpellJong[t]) \o SpellJong[i]
            BY <1>0, <2>2, Regroup
        <3>3. (SpellCho[c] \o SpellJung[v]) \o SpellJong[r] \in Seq(Letters)
            BY <1>0, <2>4, Concat
        <3> QED BY <1>0, <2>2, <2>4, <3>1, <3>2, <3>3
    <2> QED BY <2>1, <2>3, AnswerIsExtending
<1>6. CASE key.type = "jong" /\ r = None
    <2>1. Answer(EmptyContext, PeekPreedit(ctx), NoGlyph)
        BY <1>0, <1>6 DEF StepChoJungJong
    <2> QED BY <1>6, <2>1, AnswerIsDropping
<1> QED BY <1>1, <1>2, <1>3, <1>4, <1>5, <1>6, KeyTypes

\* Fsm_Flush is a step of the stream.
LEMMA FlushStream == ASSUME FsmInv, Flush PROVE Stream!StreamNext
<1>1. ctx' = EmptyContext /\ res'.commit = PeekPreedit(ctx) /\ input'.op = "flush"
    BY DEF Flush
<1>2. SpellGlyph(PeekPreedit(EmptyContext)) = <<>>
    BY PeekSpelling
<1> QED BY <1>1, <1>2 DEF Stream!StreamNext, Stream!FlushPending

\* A word is a strict prefix of any word that continues it.
LEMMA StrictPrefix ==
    ASSUME NEW s \in Seq(Letters), NEW u \in Seq(Letters), u # <<>>
    PROVE  Stream!IsStrictPrefix(s, s \o u)
<1>1. s \o u \in Seq(Letters) /\ Len(s) <= Len(s \o u)
    BY ConcatProperties, LenProperties
<1>2. SubSeq(s \o u, 1, Len(s)) = s /\ SubSeq(s, 1, Len(s)) = s
    BY SubSeqOfConcat1, SubSeqFull, LenProperties, <1>1
<1>3. s \o u # s
    BY ConcatEqualIffEmpty
<1> QED BY <1>1, <1>2, <1>3 DEF Stream!IsStrictPrefix, Stream!IsPrefix

\* An erasure is a stream step when it leaves a prefix of what was pending.
LEMMA ErasedStream ==
    ASSUME NEW next, NEW shown, NEW eaten, Erased(next, shown, eaten),
           IF SpellGlyph(PeekPreedit(ctx)) = <<>> THEN SpellGlyph(PeekPreedit(next)) = <<>>
           ELSE Stream!IsStrictPrefix(SpellGlyph(PeekPreedit(next)), SpellGlyph(PeekPreedit(ctx)))
    PROVE  Stream!StreamNext
<1>1. ctx' = next /\ res'.commit = NoGlyph /\ input'.op = "erase"
    BY DEF Erased
<1> QED BY <1>1, GlyphSpelling DEF Stream!StreamNext, Stream!Erase

\* What each state has pending.
LEMMA Pending ==
    ASSUME FsmInv
    PROVE  /\ ctx.state = "EMPTY" => SpellGlyph(PeekPreedit(ctx)) = <<>>
           /\ ctx.state = "CHO" => SpellGlyph(PeekPreedit(ctx)) = SpellCho[ctx.cho]
           /\ ctx.state = "JUNG" => SpellGlyph(PeekPreedit(ctx)) = SpellJung[ctx.jung]
           /\ ctx.state = "CHO_JUNG"
                => SpellGlyph(PeekPreedit(ctx)) = SpellCho[ctx.cho] \o SpellJung[ctx.jung]
           /\ ctx.state = "CHO_JUNG_JONG"
                => SpellGlyph(PeekPreedit(ctx))
                      = (SpellCho[ctx.cho] \o SpellJung[ctx.jung]) \o SpellJong[ctx.jong]
<1>1. /\ ctx.state = "EMPTY" => PeekPreedit(ctx) = NoGlyph
      /\ ctx.state = "CHO" => PeekPreedit(ctx) = Glyph(ctx.cho, None, None)
      /\ ctx.state = "JUNG" => PeekPreedit(ctx) = Glyph(None, ctx.jung, None)
      /\ ctx.state \in {"CHO_JUNG", "CHO_JUNG_JONG"}
            => PeekPreedit(ctx) = Glyph(ctx.cho, ctx.jung, ctx.jong)
    BY DEF PeekPreedit
<1>2. ASSUME ctx.state = "EMPTY" PROVE SpellGlyph(PeekPreedit(ctx)) = <<>>
    BY <1>1, <1>2, GlyphSpelling
<1>3. ASSUME ctx.state = "CHO" PROVE SpellGlyph(PeekPreedit(ctx)) = SpellCho[ctx.cho]
    BY <1>1, <1>3, InvFacts, GlyphSpelling
<1>4. ASSUME ctx.state = "JUNG" PROVE SpellGlyph(PeekPreedit(ctx)) = SpellJung[ctx.jung]
    BY <1>1, <1>4, InvFacts, GlyphSpelling
<1>5. ASSUME ctx.state = "CHO_JUNG"
      PROVE  SpellGlyph(PeekPreedit(ctx)) = SpellCho[ctx.cho] \o SpellJung[ctx.jung]
    <2>1. ctx.cho \in Cho /\ ctx.jung \in Jung /\ PeekPreedit(ctx) = Glyph(ctx.cho, ctx.jung, None)
        BY <1>1, <1>5, InvFacts
    <2> QED BY <2>1, GlyphSpelling
<1>6. ASSUME ctx.state = "CHO_JUNG_JONG"
      PROVE  SpellGlyph(PeekPreedit(ctx))
                = (SpellCho[ctx.cho] \o SpellJung[ctx.jung]) \o SpellJong[ctx.jong]
    <2>1. /\ ctx.cho \in Cho /\ ctx.jung \in Jung /\ ctx.jong \in Jong
          /\ PeekPreedit(ctx) = Glyph(ctx.cho, ctx.jung, ctx.jong)
        BY <1>1, <1>6, InvFacts
    <2> QED BY <2>1, GlyphSpelling
<1> QED BY <1>2, <1>3, <1>4, <1>5, <1>6

\* Erasing is a step of the stream.
LEMMA BackspaceStream ==
    ASSUME FsmInv, Backspace \/ BackspaceWhole
    PROVE  Stream!StreamNext
<1>1. CASE ctx.state = "EMPTY" /\ Erased(ctx, NoGlyph, FALSE)
    BY <1>1, Pending, ErasedStream
<1>2. CASE ctx.state # "EMPTY" /\ Erased(EmptyContext, NoGlyph, TRUE)
    <2> DEFINE w == SpellGlyph(PeekPreedit(ctx))
    <2>1. w \in Seq(Letters) /\ w # <<>>
        <3>1. CASE ctx.state = "CHO"
            BY <3>1, Pending, InvFacts, SpellTypes
        <3>2. CASE ctx.state = "JUNG"
            BY <3>2, Pending, InvFacts, SpellTypes
        <3>3. CASE ctx.state = "CHO_JUNG"
            <4>1. w = SpellCho[ctx.cho] \o SpellJung[ctx.jung]
                BY <3>3, Pending
            <4>2. /\ SpellCho[ctx.cho] \in Seq(Letters) /\ SpellCho[ctx.cho] # <<>>
                  /\ SpellJung[ctx.jung] \in Seq(Letters)
                BY <3>3, InvFacts, SpellTypes
            <4> QED BY <4>1, <4>2, ConcatProperties, ConcatEqualIffEmpty
        <3>4. CASE ctx.state = "CHO_JUNG_JONG"
            <4> DEFINE h == SpellCho[ctx.cho] \o SpellJung[ctx.jung]
            <4>1. w = h \o SpellJong[ctx.jong]
                BY <3>4, Pending
            <4>2. /\ h \in Seq(Letters)
                  /\ SpellJong[ctx.jong] \in Seq(Letters) /\ SpellJong[ctx.jong] # <<>>
                BY <3>4, InvFacts, SpellTypes, Concat
            <4> HIDE DEF h
            <4> QED BY <4>1, <4>2, ConcatProperties, ConcatEqualIffEmpty
        <3> QED BY <1>2, <3>1, <3>2, <3>3, <3>4, InvFacts DEF States
    <2>2. <<>> \in Seq(Letters) /\ <<>> \o w = w
        BY <2>1, Concat, EmptySeq
    <2>3. Stream!IsStrictPrefix(<<>>, w)
        <3> HIDE DEF w
        <3> QED BY <2>1, <2>2, StrictPrefix
    <2> QED BY <1>2, <2>1, <2>3, PeekSpelling, ErasedStream
<1>3. CASE /\ ctx.state = "CHO_JUNG"
           /\ Erased(Context("CHO", ctx.cho, None, ctx.jong), Glyph(ctx.cho, None, None), TRUE)
    <2> DEFINE a == SpellCho[ctx.cho]  b == SpellJung[ctx.jung]
               next == Context("CHO", ctx.cho, None, None)
    <2>1. ctx.cho \in Cho /\ ctx.jung \in Jung /\ ctx.jong = None
        BY <1>3, InvFacts
    <2>2. a \in Seq(Letters) /\ b \in Seq(Letters) /\ b # <<>>
        BY <2>1, SpellTypes
    <2>3. SpellGlyph(PeekPreedit(ctx)) = a \o b /\ SpellGlyph(PeekPreedit(next)) = a
        BY <1>3, <2>1, Pending, PeekSpelling
    <2>4. Stream!IsStrictPrefix(a, a \o b) /\ a \o b # <<>>
        <3> HIDE DEF a, b
        <3> QED BY <2>2, StrictPrefix, ConcatEqualIffEmpty
    <2>5. Erased(next, Glyph(ctx.cho, None, None), TRUE)
        BY <1>3, <2>1
    <2> HIDE DEF a, b, next
    <2> QED BY <2>3, <2>4, <2>5, ErasedStream
<1>4. CASE /\ ctx.state = "CHO_JUNG_JONG"
           /\ Erased(Context("CHO_JUNG", ctx.cho, ctx.jung, None),
                     Glyph(ctx.cho, ctx.jung, None), TRUE)
    <2> DEFINE a == SpellCho[ctx.cho] \o SpellJung[ctx.jung]  b == SpellJong[ctx.jong]
               next == Context("CHO_JUNG", ctx.cho, ctx.jung, None)
    <2>1. ctx.cho \in Cho /\ ctx.jung \in Jung /\ ctx.jong \in Jong
        BY <1>4, InvFacts
    <2>2. a \in Seq(Letters) /\ b \in Seq(Letters) /\ b # <<>>
        BY <2>1, SpellTypes, Concat
    <2>3. SpellGlyph(PeekPreedit(ctx)) = a \o b /\ SpellGlyph(PeekPreedit(next)) = a
        BY <1>4, <2>1, Pending, PeekSpelling
    <2>4. Stream!IsStrictPrefix(a, a \o b) /\ a \o b # <<>>
        <3> HIDE DEF a, b
        <3> QED BY <2>2, StrictPrefix, ConcatEqualIffEmpty
    <2>5. Erased(next, Glyph(ctx.cho, ctx.jung, None), TRUE)
        BY <1>4
    <2> HIDE DEF a, b, next
    <2> QED BY <2>3, <2>4, <2>5, ErasedStream
<1> QED BY <1>1, <1>2, <1>3, <1>4 DEF Backspace, BackspaceWhole

\* Every step is a step of the stream, or leaves the stream alone.
LEMMA NextStream == FsmInv /\ [Next]_vars => [Stream!StreamNext]_Stream!streamVars
<1> SUFFICES ASSUME FsmInv, [Next]_vars PROVE [Stream!StreamNext]_Stream!streamVars
    OBVIOUS
<1>1. ASSUME NEW key \in Keys, ProcessKey(key) PROVE Stream!StreamNext
    BY <1>1, StepEmptyStream, StepChoStream, StepJungStream, StepChoJungStream,
       StepChoJungJongStream DEF ProcessKey
<1>2. CASE Flush
    BY <1>2, FlushStream
<1>3. CASE Backspace \/ BackspaceWhole
    BY <1>3, BackspaceStream
<1>4. CASE UNCHANGED vars
    BY <1>4 DEF vars, Stream!streamVars
<1> QED BY <1>1, <1>2, <1>3, <1>4 DEF Next

\* The empty context is the empty stream.
LEMMA InitStream == Init => Stream!StreamInit
<1> SUFFICES ASSUME Init PROVE Stream!StreamInit
    OBVIOUS
<1>1. ctx = EmptyContext /\ res.commit = NoGlyph
    BY DEF Init
<1> QED BY <1>1, PeekSpelling, GlyphSpelling DEF Stream!StreamInit

(***************************************************************************)
(* Type correctness: with any coherent tables the automaton never leaves   *)
(* the index ranges of the context and of the characters it returns.       *)
(***************************************************************************)
THEOREM TypeCorrect == Spec => []TypeOK
<1>1. FsmInv => TypeOK
    BY DEF FsmInv
<1> QED BY <1>1, FsmInitInv, FsmNextInv, PTL DEF Spec

(***************************************************************************)
(* The state and the three indexes never disagree, on any keyboard.        *)
(***************************************************************************)
THEOREM ContextWellShaped == Spec => []ContextShape
<1>1. FsmInv => ContextShape
    BY DEF FsmInv
<1> QED BY <1>1, FsmInitInv, FsmNextInv, PTL DEF Spec

(***************************************************************************)
(* What is displayed is what a flush would commit, on any keyboard.        *)
(***************************************************************************)
THEOREM ShownIsWhatFlushCommits == Spec => []ShownIsPending
<1>1. FsmInv => ShownIsPending
    BY DEF FsmInv
<1> QED BY <1>1, FsmInitInv, FsmNextInv, PTL DEF Spec

(***************************************************************************)
(* On any keyboard whose tables spell what they combine, every letter      *)
(* typed comes out once and in order; only a final with no syllable to     *)
(* join can be dropped.                                                    *)
(***************************************************************************)
THEOREM ImplementsJamoStream == Spec => ComposesTheStream
BY FsmInitInv, FsmNextInv, InitStream, NextStream, PTL DEF Spec, ComposesTheStream, Stream!StreamSpec
-----------------------------------------------------------------------------
(***************************************************************************)
(* The code point of a glyph identifies it (HangulTables): a character is  *)
(* modelled by its jamos, and that loses nothing.                          *)
(***************************************************************************)
Tables == INSTANCE HangulTables

\* ComposeHangul stays inside the Hangul Syllables block, U+AC00..U+D7A3.
THEOREM ComposeInBlock ==
    ASSUME NEW c \in Tables!ChoIndex, NEW v \in Tables!JungIndex, NEW t \in Tables!JongIndex \union {Tables!None}
    PROVE  Tables!ComposeHangul(c, v, t) \in 44032..55203
<1>1. PICK a \in 0..27 : a = (IF t < 0 THEN 0 ELSE t)
    BY DEF Tables!JongIndex, Tables!None
<1>2. c \in 0..18 /\ v \in 0..20 /\ ~(c < 0 \/ v < 0)
    BY DEF Tables!ChoIndex, Tables!JungIndex
<1>3. Tables!ComposeHangul(c, v, t) = 44032 + c * 588 + v * 28 + a
    BY <1>1, <1>2 DEF Tables!ComposeHangul, Tables!HangulBase
<1> QED BY <1>2, <1>3

\* ComposeHangul gives different syllables different code points.
THEOREM ComposeInjective ==
    ASSUME NEW c \in Tables!ChoIndex, NEW v \in Tables!JungIndex, NEW t \in Tables!JongIndex \union {Tables!None},
           NEW d \in Tables!ChoIndex, NEW w \in Tables!JungIndex, NEW u \in Tables!JongIndex \union {Tables!None},
           Tables!ComposeHangul(c, v, t) = Tables!ComposeHangul(d, w, u)
    PROVE  c = d /\ v = w /\ t = u
<1>1. PICK a \in 0..27 : a = (IF t < 0 THEN 0 ELSE t)
    BY DEF Tables!JongIndex, Tables!None
<1>2. PICK b \in 0..27 : b = (IF u < 0 THEN 0 ELSE u)
    BY DEF Tables!JongIndex, Tables!None
<1>3. c \in 0..18 /\ d \in 0..18 /\ v \in 0..20 /\ w \in 0..20
    BY DEF Tables!ChoIndex, Tables!JungIndex
<1>4. c * 588 + v * 28 + a = d * 588 + w * 28 + b
    <2>1. ~(c < 0 \/ v < 0) /\ ~(d < 0 \/ w < 0)
        BY <1>3
    <2>2. Tables!HangulBase + c * 588 + v * 28 + a = Tables!HangulBase + d * 588 + w * 28 + b
        BY <1>1, <1>2, <2>1 DEF Tables!ComposeHangul
    <2> QED BY <1>3, <2>2 DEF Tables!HangulBase
<1> DEFINE m == v * 28 + a
           n == w * 28 + b
<1>5. m \in 0..587 /\ n \in 0..587
    BY <1>3
<1>6. c * 588 + m = d * 588 + n
    BY <1>3, <1>4
<1>7. c = d
    <2> HIDE DEF m, n
    <2> QED BY <1>3, <1>5, <1>6
<1>8. v = w /\ a = b
    BY <1>3, <1>4, <1>7
<1> QED BY <1>1, <1>2, <1>7, <1>8 DEF Tables!JongIndex, Tables!None

-----------------------------------------------------------------------------
(***************************************************************************)
(* Delivery                                                                *)
(***************************************************************************)

Texts == [Ctxs -> Seq(Units)]

\* The document or queue c of a family has unit u; some of the family has; none twice.
Holds(text, c, u) == \E i \in DOMAIN text[c] : text[c][i] = u
InText(text, u)   == \E c \in Ctxs : Holds(text, c, u)
OnceIn(text, u)   == \A c, d \in Ctxs : \A i \in DOMAIN text[c], j \in DOMAIN text[d] :
                         text[c][i] = u /\ text[d][j] = u => c = d /\ i = j

-----------------------------------------------------------------------------
\* What inserting a unit makes of a family of texts.
LEMMA WithText ==
    ASSUME NEW text \in Texts, NEW c \in Ctxs, NEW v \in Units
    PROVE  /\ With(text, c, v) \in Texts
           /\ \A d \in Ctxs : \A u : Holds(With(text, c, v), d, u) <=> Holds(text, d, u) \/ (d = c /\ u = v)
           /\ \A u : OnceIn(text, u) /\ (u = v => ~InText(text, u)) => OnceIn(With(text, c, v), u)
<1> DEFINE new == With(text, c, v)
<1>1. /\ new \in Texts /\ new[c] = Append(text[c], v)
      /\ \A d \in Ctxs : d # c => new[d] = text[d]
    BY DEF With, Texts
<1>2. /\ DOMAIN new[c] = 1 .. Len(text[c]) + 1 /\ DOMAIN text[c] = 1 .. Len(text[c])
      /\ Len(text[c]) \in Nat
      /\ \A i \in DOMAIN text[c] : new[c][i] = text[c][i]
      /\ new[c][Len(text[c]) + 1] = v
    BY <1>1 DEF Texts
<1> HIDE DEF new
<1>3. \A d \in Ctxs : \A u : Holds(new, d, u) <=> Holds(text, d, u) \/ (d = c /\ u = v)
    BY <1>1, <1>2 DEF Holds
<1>4. ASSUME NEW u, OnceIn(text, u), u = v => ~InText(text, u)
      PROVE  OnceIn(new, u)
    <2> SUFFICES ASSUME NEW d \in Ctxs, NEW e \in Ctxs, NEW i \in DOMAIN new[d], NEW j \in DOMAIN new[e],
                        new[d][i] = u, new[e][j] = u
                 PROVE  d = e /\ i = j
        BY DEF OnceIn
    <2>1. CASE u = v
        <3>1. \A b \in Ctxs : \A k \in DOMAIN text[b] : text[b][k] # u
            BY <1>4, <2>1 DEF InText, Holds
        <3>2. d = c /\ e = c
            BY <1>1, <3>1
        <3>3. i = Len(text[c]) + 1 /\ j = Len(text[c]) + 1
            BY <1>2, <3>1, <3>2
        <3> QED BY <3>2, <3>3
    <2>2. CASE u # v
        <3>1. i \in DOMAIN text[d] /\ text[d][i] = u
            BY <1>1, <1>2, <2>2
        <3>2. j \in DOMAIN text[e] /\ text[e][j] = u
            BY <1>1, <1>2, <2>2
        <3> QED BY <1>4, <3>1, <3>2 DEF OnceIn
    <2> QED BY <2>1, <2>2
<1> QED BY <1>1, <1>3, <1>4 DEF new

\* What taking the head of one of them makes of it.
LEMMA TailText ==
    ASSUME NEW text \in Texts, NEW c \in Ctxs, text[c] # <<>>
    PROVE  LET new == [text EXCEPT ![c] = Tail(@)]
               h == Head(text[c])
           IN  /\ new \in Texts /\ h \in Units /\ Holds(text, c, h)
               /\ \A d \in Ctxs : \A u : Holds(new, d, u) => Holds(text, d, u)
               /\ \A d \in Ctxs : \A u : Holds(text, d, u) /\ u # h => Holds(new, d, u)
               /\ \A u : OnceIn(text, u) => OnceIn(new, u)
               /\ OnceIn(text, h) => ~InText(new, h)
<1> DEFINE new == [text EXCEPT ![c] = Tail(@)]
           h == Head(text[c])
<1>1. /\ new \in Texts /\ new[c] = Tail(text[c]) /\ h \in Units
      /\ \A d \in Ctxs : d # c => new[d] = text[d]
    BY DEF Texts
<1>2. /\ Len(text[c]) \in Nat /\ Len(text[c]) >= 1 /\ DOMAIN text[c] = 1 .. Len(text[c])
      /\ DOMAIN new[c] = 1 .. Len(text[c]) - 1
      /\ \A i \in DOMAIN new[c] : i + 1 \in DOMAIN text[c] /\ new[c][i] = text[c][i + 1]
      /\ text[c][1] = h
    BY <1>1 DEF Texts
<1> HIDE DEF new, h
<1>3. Holds(text, c, h)
    BY <1>2 DEF Holds
<1>4. ASSUME NEW d \in Ctxs, NEW u, Holds(new, d, u) PROVE Holds(text, d, u)
    <2>1. PICK i \in DOMAIN new[d] : new[d][i] = u
        BY <1>4 DEF Holds
    <2>2. CASE d # c
        BY <1>1, <2>1, <2>2 DEF Holds
    <2>3. CASE d = c
        BY <1>2, <2>1, <2>3 DEF Holds
    <2> QED BY <2>2, <2>3
<1>5. ASSUME NEW d \in Ctxs, NEW u, Holds(text, d, u), u # h PROVE Holds(new, d, u)
    <2>1. PICK i \in DOMAIN text[d] : text[d][i] = u
        BY <1>5 DEF Holds
    <2>2. CASE d # c
        BY <1>1, <2>1, <2>2 DEF Holds
    <2>3. CASE d = c
        <3>1. i - 1 \in DOMAIN new[c] /\ i = (i - 1) + 1
            BY <1>2, <1>5, <2>1, <2>3
        <3> QED BY <1>2, <2>1, <2>3, <3>1 DEF Holds
    <2> QED BY <2>2, <2>3
<1>6. ASSUME NEW u, OnceIn(text, u) PROVE OnceIn(new, u)
    <2> SUFFICES ASSUME NEW d \in Ctxs, NEW e \in Ctxs, NEW i \in DOMAIN new[d], NEW j \in DOMAIN new[e],
                        new[d][i] = u, new[e][j] = u
                 PROVE  d = e /\ i = j
        BY DEF OnceIn
    <2>1. /\ d = c => i \in Nat /\ i + 1 \in DOMAIN text[c] /\ text[c][i + 1] = u
          /\ e = c => j \in Nat /\ j + 1 \in DOMAIN text[c] /\ text[c][j + 1] = u
        BY <1>2
    <2>2. /\ d # c => i \in DOMAIN text[d] /\ text[d][i] = u
          /\ e # c => j \in DOMAIN text[e] /\ text[e][j] = u
        BY <1>1
    <2>3. CASE d = c /\ e = c
        <3>1. i + 1 = j + 1
            BY <1>6, <2>1, <2>3 DEF OnceIn
        <3> QED BY <2>1, <2>3, <3>1
    <2>4. CASE d = c /\ e # c
        BY <1>6, <2>1, <2>2, <2>4 DEF OnceIn
    <2>5. CASE d # c /\ e = c
        BY <1>6, <2>1, <2>2, <2>5 DEF OnceIn
    <2>6. CASE d # c /\ e # c
        BY <1>6, <2>2, <2>6 DEF OnceIn
    <2> QED BY <2>3, <2>4, <2>5, <2>6
<1>7. ASSUME OnceIn(text, h), InText(new, h) PROVE FALSE
    <2>0. PICK d \in Ctxs : Holds(new, d, h)
        BY <1>7 DEF InText
    <2>1. PICK i \in DOMAIN new[d] : new[d][i] = h
        BY <2>0 DEF Holds
    <2>2. CASE d = c
        <3>1. i \in Nat /\ i # 0 /\ i + 1 \in DOMAIN text[c] /\ text[c][i + 1] = h
            BY <1>2, <2>1, <2>2
        <3>2. 1 \in DOMAIN text[c]
            BY <1>2
        <3>3. 1 = i + 1
            BY <1>2, <1>7, <3>1, <3>2 DEF OnceIn
        <3> QED BY <3>1, <3>3
    <2>3. CASE d # c
        <3>1. i \in DOMAIN text[d] /\ text[d][i] = h /\ 1 \in DOMAIN text[c]
            BY <1>1, <1>2, <2>1, <2>3
        <3> QED BY <1>2, <1>7, <2>3, <3>1 DEF OnceIn
    <2> QED BY <2>2, <2>3
<1> QED BY <1>1, <1>3, <1>4, <1>5, <1>6, <1>7 DEF new, h

\* What text left behind makes of a document: all it adds is in it.
LEMMA LeftText ==
    ASSUME NEW text \in Texts, NEW c \in Ctxs, NEW left \in Seq(Units)
    PROVE  LET new == [text EXCEPT ![c] = @ \o left]
               added == {left[i] : i \in DOMAIN left}
           IN  /\ new \in Texts /\ added \subseteq Units
               /\ \A d \in Ctxs : \A u : Holds(new, d, u) <=> Holds(text, d, u) \/ (d = c /\ u \in added)
               /\ \A u : u \notin added /\ OnceIn(text, u) => OnceIn(new, u)
<1> DEFINE new == [text EXCEPT ![c] = @ \o left]
           added == {left[i] : i \in DOMAIN left}
<1>1. /\ new \in Texts /\ new[c] = text[c] \o left /\ added \subseteq Units
      /\ \A d \in Ctxs : d # c => new[d] = text[d]
    BY DEF Texts
<1>2. /\ Len(text[c]) \in Nat /\ Len(left) \in Nat
      /\ DOMAIN text[c] = 1 .. Len(text[c]) /\ DOMAIN left = 1 .. Len(left)
      /\ DOMAIN new[c] = 1 .. Len(text[c]) + Len(left)
      /\ \A i \in DOMAIN text[c] : new[c][i] = text[c][i]
      /\ \A i \in DOMAIN new[c] : i > Len(text[c]) =>
             i - Len(text[c]) \in DOMAIN left /\ new[c][i] = left[i - Len(text[c])]
      /\ \A i \in DOMAIN left : i + Len(text[c]) \in DOMAIN new[c] /\ new[c][i + Len(text[c])] = left[i]
    BY <1>1 DEF Texts
<1>3. \A u : u \in added <=> \E i \in DOMAIN left : left[i] = u
    OBVIOUS
<1> HIDE DEF new, added
<1>4. ASSUME NEW i \in DOMAIN new[c]
      PROVE  (i \in DOMAIN text[c] /\ new[c][i] = text[c][i]) \/ new[c][i] \in added
    BY <1>2, <1>3
<1>5. \A d \in Ctxs : \A u : Holds(new, d, u) => Holds(text, d, u) \/ (d = c /\ u \in added)
    BY <1>1, <1>4 DEF Holds
<1>6. \A d \in Ctxs : \A u : Holds(text, d, u) \/ (d = c /\ u \in added) => Holds(new, d, u)
    <2>1. \A d \in Ctxs : \A u : Holds(text, d, u) => Holds(new, d, u)
        BY <1>1, <1>2 DEF Holds
    <2>2. \A u \in added : Holds(new, c, u)
        BY <1>2, <1>3 DEF Holds
    <2> QED BY <2>1, <2>2
<1>7. ASSUME NEW u, u \notin added, OnceIn(text, u) PROVE OnceIn(new, u)
    <2> SUFFICES ASSUME NEW d \in Ctxs, NEW e \in Ctxs, NEW i \in DOMAIN new[d], NEW j \in DOMAIN new[e],
                        new[d][i] = u, new[e][j] = u
                 PROVE  d = e /\ i = j
        BY DEF OnceIn
    <2>1. i \in DOMAIN text[d] /\ text[d][i] = u
        BY <1>1, <1>4, <1>7
    <2>2. j \in DOMAIN text[e] /\ text[e][j] = u
        BY <1>1, <1>4, <1>7
    <2> QED BY <1>7, <2>1, <2>2 DEF OnceIn
<1> QED BY <1>1, <1>5, <1>6, <1>7 DEF new, added

LEMMA LeftPlaces ==
    ASSUME NEW text \in Texts, NEW c \in Ctxs, NEW left \in Seq(Units)
    PROVE  LET new == [text EXCEPT ![c] = @ \o left]
           IN  /\ \A d \in Ctxs : d # c => new[d] = text[d]
               /\ \A i \in DOMAIN new[c] : \/ i \in DOMAIN text[c] /\ new[c][i] = text[c][i]
                                          \/ new[c][i] \in {left[j] : j \in DOMAIN left}
<1> DEFINE new == [text EXCEPT ![c] = @ \o left]
<1>1. new[c] = text[c] \o left /\ \A d \in Ctxs : d # c => new[d] = text[d]
    BY DEF Texts
<1>2. /\ Len(text[c]) \in Nat /\ Len(left) \in Nat
      /\ DOMAIN text[c] = 1 .. Len(text[c]) /\ DOMAIN left = 1 .. Len(left)
      /\ DOMAIN new[c] = 1 .. Len(text[c]) + Len(left)
      /\ \A i \in DOMAIN text[c] : new[c][i] = text[c][i]
      /\ \A i \in DOMAIN new[c] : i > Len(text[c]) =>
             i - Len(text[c]) \in DOMAIN left /\ new[c][i] = left[i - Len(text[c])]
    BY <1>1 DEF Texts
<1> HIDE DEF new
<1>3. ASSUME NEW i \in DOMAIN new[c]
      PROVE  \/ i \in DOMAIN text[c] /\ new[c][i] = text[c][i]
             \/ new[c][i] \in {left[j] : j \in DOMAIN left}
    BY <1>2
<1> QED BY <1>1, <1>3 DEF new

\* The same of the families as wholes.
LEMMA WithIn ==
    ASSUME NEW text \in Texts, NEW c \in Ctxs, NEW v \in Units
    PROVE  \A u : InText(With(text, c, v), u) <=> InText(text, u) \/ u = v
BY WithText DEF InText

LEMMA TailIn ==
    ASSUME NEW text \in Texts, NEW c \in Ctxs, text[c] # <<>>
    PROVE  LET new == [text EXCEPT ![c] = Tail(@)]
           IN  \A u : u # Head(text[c]) => (InText(new, u) <=> InText(text, u))
BY TailText DEF InText

LEMMA LeftIn ==
    ASSUME NEW text \in Texts, NEW c \in Ctxs, NEW left \in Seq(Units), NEW u,
           u \notin {left[i] : i \in DOMAIN left}
    PROVE  InText([text EXCEPT ![c] = @ \o left], u) <=> InText(text, u)
BY LeftText DEF InText

-----------------------------------------------------------------------------
\* The types, apart: where the user and the engine attend, and where the units are.
AttendTypes ==
    /\ focus \in Ctxs /\ pc \in {"idle", "key"} /\ layout \in Layouts
    /\ target \in Ctxs \union {NoCtx} /\ demoted \in BOOLEAN

UnitTypes ==
    /\ held \in {NoUnit} \union Units
    /\ comp \in [ctx : Ctxs, unit : Units] \union {NoComp}
    /\ pending \in [ctx : Ctxs \union {NoCtx}, unit : Units] \union {NoSlot}
    /\ queue \in Texts /\ docs \in Texts
    /\ origin \in Seq([home : Ctxs, kind : Layouts]) /\ Len(origin) <= MaxUnits
    /\ gone \in [Units -> Reasons \union {""}]
    /\ stranded \subseteq Units

\* Every unit met anywhere was begun, and is in or on its way to its own document.
Homed ==
    /\ held # NoUnit => held \in Begun
    /\ comp # NoComp => comp.unit \in Begun /\ comp.ctx = origin[comp.unit].home
    /\ pending # NoSlot => pending.unit \in Begun /\ pending.ctx = origin[pending.unit].home
    /\ \A c \in Ctxs : \A u : Holds(docs, c, u) \/ Holds(queue, c, u) => u \in Begun /\ origin[u].home = c
    /\ stranded \subseteq Begun
    /\ \A u \in Units : gone[u] # "" => u \in Begun

\* Unit u is in one place, once.
Single(u) ==
    /\ OnceIn(docs, u) /\ OnceIn(queue, u)
    /\ \/ InText(docs, u) \/ InText(queue, u) \/ held = u \/ comp.unit = u
       \/ pending.unit = u \/ gone[u] # ""
    /\ InText(docs, u) => /\ ~InText(queue, u) /\ held # u /\ comp.unit # u
                          /\ pending.unit # u /\ gone[u] = ""
    /\ InText(queue, u) => held # u /\ comp.unit # u /\ pending.unit # u /\ gone[u] = ""
    /\ held = u \/ comp.unit = u => pending.unit # u /\ gone[u] = ""
    /\ pending.unit = u => gone[u] = ""

Standing == UnitTypes /\ Homed /\ \A u \in Begun \ stranded : Single(u)

\* The same when the composition is c, the documents have this text, and g are the losses.
UnitTypesAt(c, text, g) ==
    /\ held \in {NoUnit} \union Units
    /\ c \in [ctx : Ctxs, unit : Units] \union {NoComp}
    /\ pending \in [ctx : Ctxs \union {NoCtx}, unit : Units] \union {NoSlot}
    /\ queue \in Texts /\ text \in Texts
    /\ origin \in Seq([home : Ctxs, kind : Layouts]) /\ Len(origin) <= MaxUnits
    /\ g \in [Units -> Reasons \union {""}]
    /\ stranded \subseteq Units

HomedAt(x, text, g) ==
    /\ held # NoUnit => held \in Begun
    /\ x # NoComp => x.unit \in Begun /\ x.ctx = origin[x.unit].home
    /\ pending # NoSlot => pending.unit \in Begun /\ pending.ctx = origin[pending.unit].home
    /\ \A c \in Ctxs : \A u : Holds(text, c, u) \/ Holds(queue, c, u) => u \in Begun /\ origin[u].home = c
    /\ stranded \subseteq Begun
    /\ \A u \in Units : g[u] # "" => u \in Begun

SingleAt(u, c, text, g) ==
    /\ OnceIn(text, u) /\ OnceIn(queue, u)
    /\ \/ InText(text, u) \/ InText(queue, u) \/ held = u \/ c.unit = u
       \/ pending.unit = u \/ g[u] # ""
    /\ InText(text, u) => /\ ~InText(queue, u) /\ held # u /\ c.unit # u
                          /\ pending.unit # u /\ g[u] = ""
    /\ InText(queue, u) => held # u /\ c.unit # u /\ pending.unit # u /\ g[u] = ""
    /\ held = u \/ c.unit = u => pending.unit # u /\ g[u] = ""
    /\ pending.unit = u => g[u] = ""

StandingAt(c, text, g) ==
    UnitTypesAt(c, text, g) /\ HomedAt(c, text, g) /\ \A u \in Begun \ stranded : SingleAt(u, c, text, g)

LEMMA StandingNow == Standing <=> StandingAt(comp, docs, gone)
BY DEF Standing, StandingAt, UnitTypes, UnitTypesAt, Homed, HomedAt, Single, SingleAt

\* What is composed was begun in the focused document, with the current layout; a
\* composition that shows it is a standard one; and one that ends does so elsewhere, when a
\* key comes or anything is composed.
Attending ==
    /\ AttendTypes
    /\ target \in {NoCtx, focus}
    /\ held # NoUnit => /\ origin[held].home = focus /\ origin[held].kind = layout
                        /\ layout # "chord" => target = focus
                        /\ comp.unit = held => /\ layout = "syllable" /\ ~demoted
                                               /\ focus \in InlineCtxs
    /\ Ending /\ (held # NoUnit \/ pc = "key") => comp.ctx # focus

Inv == Attending /\ Standing

LEMMA TypesTogether == DeliveryTypeOK <=> prompt \in BOOLEAN /\ AttendTypes /\ UnitTypes
BY DEF DeliveryTypeOK, AttendTypes, UnitTypes, Texts

\* What SMT should know of a sequence.
LEMMA SeqFacts ==
    ASSUME NEW S, NEW s \in Seq(S)
    PROVE  /\ Len(s) \in Nat /\ DOMAIN s = 1 .. Len(s)
           /\ \A i \in 1 .. Len(s) : s[i] \in S
OBVIOUS

\* A record of no unit is none.
LEMMA NoneAt ==
    ASSUME NEW c, NEW text, NEW g, UnitTypesAt(c, text, g)
    PROVE  (c = NoComp <=> c.unit = NoUnit) /\ (c # NoComp => c.unit \in Units /\ c.ctx \in Ctxs)
<1>1. NoUnit \notin Units
    BY DEF NoUnit, Units
<1>2. CASE c = NoComp
    BY <1>2 DEF NoComp
<1>3. CASE c \in [ctx : Ctxs, unit : Units]
    BY <1>1, <1>3 DEF NoComp
<1> QED BY <1>2, <1>3 DEF UnitTypesAt

LEMMA NoneIsNone ==
    UnitTypes => /\ comp = NoComp <=> comp.unit = NoUnit
                 /\ pending = NoSlot <=> pending.unit = NoUnit
                 /\ comp # NoComp => comp.unit \in Units /\ comp.ctx \in Ctxs
                 /\ pending # NoSlot => pending.unit \in Units
                 /\ Len(origin) \in Nat /\ Begun \subseteq Units /\ NoUnit \notin Units /\ NextUnit \notin Begun
<1> SUFFICES ASSUME UnitTypes
             PROVE  /\ comp = NoComp <=> comp.unit = NoUnit
                    /\ pending = NoSlot <=> pending.unit = NoUnit
                    /\ comp # NoComp => comp.unit \in Units /\ comp.ctx \in Ctxs
                    /\ pending # NoSlot => pending.unit \in Units
                    /\ Len(origin) \in Nat /\ Begun \subseteq Units /\ NoUnit \notin Units /\ NextUnit \notin Begun
    OBVIOUS
<1>1. NoUnit \notin Units
    BY DEF NoUnit, Units
<1>2. (comp = NoComp <=> comp.unit = NoUnit) /\ (comp # NoComp => comp.unit \in Units /\ comp.ctx \in Ctxs)
    <2>1. CASE comp = NoComp
        BY <2>1 DEF NoComp
    <2>2. CASE comp \in [ctx : Ctxs, unit : Units]
        BY <1>1, <2>2 DEF NoComp
    <2> QED BY <2>1, <2>2 DEF UnitTypes
<1>3. (pending = NoSlot <=> pending.unit = NoUnit) /\ (pending # NoSlot => pending.unit \in Units)
    <2>1. CASE pending = NoSlot
        BY <2>1 DEF NoSlot
    <2>2. CASE pending \in [ctx : Ctxs \union {NoCtx}, unit : Units]
        BY <1>1, <2>2 DEF NoSlot
    <2> QED BY <2>1, <2>2 DEF UnitTypes
<1>4. Len(origin) \in Nat /\ Len(origin) <= MaxUnits
    BY SeqFacts DEF UnitTypes
<1>5. Begun \subseteq Units /\ NextUnit \notin Begun
    BY <1>4, DeliveryAssumption DEF Begun, Units, NextUnit
<1> QED BY <1>1, <1>2, <1>3, <1>4, <1>5

LEMMA HomeIn ==
    ASSUME UnitTypes, NEW u \in Begun
    PROVE  origin[u].home \in Ctxs /\ origin[u].kind \in Layouts
<1>1. origin[u] \in [home : Ctxs, kind : Layouts]
    BY SeqFacts DEF UnitTypes, Begun
<1> QED BY <1>1

\* At first nothing has been typed.
LEMMA InitInv == DeliveryInit => Inv
<1> SUFFICES ASSUME DeliveryInit PROVE Inv
    OBVIOUS
<1>1. Len(origin) = 0 /\ Begun = {} /\ origin \in Seq([home : Ctxs, kind : Layouts])
    <2>1. origin = <<>>
        BY DEF DeliveryInit
    <2>2. Len(<<>>) = 0 /\ <<>> \in Seq([home : Ctxs, kind : Layouts])
        OBVIOUS
    <2>3. 1 .. 0 = {}
        OBVIOUS
    <2> QED BY <2>1, <2>2, <2>3 DEF Begun
<1>2. AttendTypes /\ UnitTypes
    <2>1. AttendTypes
        BY DEF DeliveryInit, AttendTypes
    <2>2. queue \in Texts /\ docs \in Texts
        <3>1. <<>> \in Seq(Units)
            OBVIOUS
        <3> QED BY <3>1 DEF DeliveryInit, Texts
    <2>3. gone \in [Units -> Reasons \union {""}]
        BY DEF DeliveryInit
    <2>4. UnitTypes
        <3>1. Len(origin) <= MaxUnits
            BY <1>1, DeliveryAssumption
        <3> QED BY <1>1, <2>2, <2>3, <3>1 DEF DeliveryInit, UnitTypes
    <2> QED BY <2>1, <2>4
<1>3. ASSUME NEW c \in Ctxs, NEW u PROVE ~Holds(docs, c, u) /\ ~Holds(queue, c, u)
    <2>1. docs[c] = <<>> /\ queue[c] = <<>>
        BY DEF DeliveryInit
    <2>2. DOMAIN <<>> = {}
        OBVIOUS
    <2> QED BY <2>1, <2>2 DEF Holds
<1>4. Homed
    BY <1>3 DEF DeliveryInit, Homed
<1>5. Attending
    BY <1>2 DEF DeliveryInit, Attending, Ending
<1> QED BY <1>1, <1>2, <1>4, <1>5 DEF Inv, Standing

-----------------------------------------------------------------------------
\* What is held or shown was begun in the focused document, or where the composition is.
LEMMA EngineUnits ==
    ASSUME Inv
    PROVE  /\ held # NoUnit => /\ held \in Units /\ held \in Begun /\ Kind(held) = layout
                               /\ origin[held].home = focus /\ focus \in Ctxs
                               /\ layout # "chord" => target = focus
                               /\ layout # "syllable" => comp.unit # held
                               /\ Ending => comp.ctx # focus
           /\ held = NoUnit => Kind(held) = "none"
           /\ comp # NoComp => /\ comp.unit \in Units /\ comp.unit \in Begun /\ comp.ctx \in Ctxs
                               /\ origin[comp.unit].home = comp.ctx
           /\ comp = NoComp => comp.unit = NoUnit
BY NoneIsNone DEF Inv, Standing, Attending, AttendTypes, UnitTypes, Homed, Kind

-----------------------------------------------------------------------------
\* A composition that ends elsewhere: nothing happens to it, its text stays in its
\* document, or a key has it removed.  Then the composition is c, with this text and the
\* losses g.
Rest(c, text, g) ==
    \/ c = comp /\ text = docs /\ g = gone
    \/ Ending /\ c = NoComp /\ text = With(docs, comp.ctx, comp.unit) /\ g = gone
    \/ Ending /\ pc = "key" /\ c = NoComp /\ text = docs /\ g = Lost(comp.unit, "dropped")

LEMMA RestStands ==
    ASSUME Inv, NEW c, NEW text, NEW g, Rest(c, text, g)
    PROVE  StandingAt(c, text, g) /\ (c = comp \/ (c = NoComp /\ Ending))
<1>1. CASE c = comp /\ text = docs /\ g = gone
    BY <1>1, StandingNow DEF Inv
<1> DEFINE u == comp.unit
           h == comp.ctx
<1>2. UnitTypes /\ Homed
    BY DEF Inv, Standing
<1>3. Ending => u \in Units /\ u \in Begun /\ h \in Ctxs /\ u # NoUnit /\ u # held /\ origin[u].home = h
    BY <1>2, NoneIsNone, EngineUnits DEF Ending
<1>4. NoComp.unit = NoUnit /\ NoUnit \notin Units
    BY DEF NoComp, NoUnit, Units
<1>5. CASE Ending /\ c = NoComp /\ text = With(docs, h, u) /\ g = gone
    <2>0. docs \in Texts
        BY <1>2 DEF UnitTypes
    <2> HIDE DEF u, h
    <2>1. /\ text \in Texts
          /\ \A d \in Ctxs : \A v : Holds(text, d, v) <=> Holds(docs, d, v) \/ (d = h /\ v = u)
          /\ \A v : OnceIn(docs, v) /\ (v = u => ~InText(docs, v)) => OnceIn(text, v)
          /\ \A v : InText(text, v) <=> InText(docs, v) \/ v = u
        BY <2>0, <1>3, <1>5, WithText, WithIn
    <2>2. UnitTypesAt(c, text, g)
        BY <1>2, <1>5, <2>1 DEF UnitTypes, UnitTypesAt
    <2>3. HomedAt(c, text, g)
        <3>1. ASSUME NEW d \in Ctxs, NEW v, Holds(text, d, v) \/ Holds(queue, d, v)
              PROVE  v \in Begun /\ origin[v].home = d
            <4>1. CASE Holds(docs, d, v) \/ Holds(queue, d, v)
                BY <1>2, <4>1 DEF Homed
            <4>2. CASE d = h /\ v = u
                BY <1>3, <1>5, <4>2
            <4> QED BY <2>1, <3>1, <4>1, <4>2
        <3> QED BY <1>2, <1>5, <3>1 DEF Homed, HomedAt
    <2>4. ASSUME NEW v \in Begun, v \notin stranded PROVE SingleAt(v, c, text, g)
        <3>1. Single(v) /\ v # NoUnit
            BY <1>2, <2>4, NoneIsNone DEF Inv, Standing
        <3>2. held # v => (comp.unit = v <=> u = v)
            BY DEF u
        <3>3. held = v => comp.unit # v /\ u # v
            BY <1>3, <1>5 DEF u
        <3> QED BY <1>3, <1>4, <1>5, <2>1, <3>1, <3>2, <3>3 DEF Single, SingleAt
    <2> QED BY <1>5, <2>2, <2>3, <2>4 DEF StandingAt
<1>6. CASE Ending /\ c = NoComp /\ text = docs /\ g = Lost(u, "dropped")
    <2>1. /\ g \in [Units -> Reasons \union {""}] /\ g[u] # ""
          /\ \A v \in Units : v # u => g[v] = gone[v]
        BY <1>2, <1>3, <1>6 DEF Lost, Reasons, UnitTypes
    <2>2. UnitTypesAt(c, text, g)
        BY <1>2, <1>6, <2>1 DEF UnitTypes, UnitTypesAt
    <2>3. HomedAt(c, text, g)
        BY <1>2, <1>3, <1>6, <2>1 DEF Homed, HomedAt
    <2>4. ASSUME NEW v \in Begun, v \notin stranded PROVE SingleAt(v, c, text, g)
        <3>1. Single(v) /\ v # NoUnit /\ v \in Units
            BY <1>2, <2>4, NoneIsNone DEF Inv, Standing
        <3>2. CASE v = u
            BY <1>3, <1>4, <1>6, <2>1, <3>1, <3>2 DEF Single, SingleAt
        <3>3. CASE v # u
            BY <1>4, <1>6, <2>1, <3>1, <3>3 DEF Single, SingleAt
        <3> QED BY <3>2, <3>3
    <2> QED BY <1>6, <2>2, <2>3, <2>4 DEF StandingAt
<1> QED BY <1>1, <1>5, <1>6 DEF Rest

\* The composition that remains when that of the engine's unit, if it has one, is gone.
Remains(c) == IF c.unit = held THEN NoComp ELSE c

\* The engine's unit ends, one way or another; no syllable of the automaton is folded, nor
\* dropped unless a composition ends elsewhere.
Wrong(u) == IF Kind(u) = "syllable"
            THEN {"folded"} \union (IF Ending THEN {} ELSE {"dropped"}) ELSE {}
Ended(c, text, g) ==
    /\ held' = NoUnit /\ comp' = Remains(c) /\ UNCHANGED <<origin, stranded>>
    /\ \/ docs' = With(text, origin[held].home, held) /\ gone' = g /\ UNCHANGED <<queue, pending>>
       \/ /\ queue' = With(queue, origin[held].home, held)
          /\ docs' = text /\ gone' = g /\ UNCHANGED pending
       \/ /\ \E why \in Reasons \ Wrong(held) : gone' = [g EXCEPT ![held] = why]
          /\ docs' = text /\ UNCHANGED <<queue, pending>>
       \/ /\ pending' = [ctx |-> origin[held].home, unit |-> held]
          /\ gone' = IF pending.unit = NoUnit THEN g ELSE [g EXCEPT ![pending.unit] = "replaced"]
          /\ docs' = text /\ UNCHANGED queue

\* However it ends, it is in one place then, and the others are where they were.
LEMMA EndedStands ==
    ASSUME Inv, held # NoUnit, NEW c, NEW text, NEW g, Rest(c, text, g), Ended(c, text, g)
    PROVE  Standing'
<1> DEFINE u == held
           h == origin[held].home
<1>1. UnitTypesAt(c, text, g) /\ HomedAt(c, text, g) /\ AttendTypes /\ UnitTypes
      /\ \A v \in Begun \ stranded : SingleAt(v, c, text, g)
    BY RestStands DEF Inv, Standing, Attending, StandingAt
<1>2. u \in Units /\ u \in Begun /\ h \in Ctxs /\ u # NoUnit /\ NoUnit \notin Units
    BY EngineUnits DEF NoUnit, Units
<1>3. Begun' = Begun /\ held' = NoUnit /\ stranded' = stranded /\ origin' = origin
    BY DEF Ended, Begun
<1>4. /\ comp' \in [ctx : Ctxs, unit : Units] \union {NoComp}
      /\ comp'.unit # u
      /\ \A v \in Units : v # u => (comp'.unit = v <=> c.unit = v)
      /\ comp' # NoComp => comp' = c
    <2>1. NoComp.unit = NoUnit
        BY DEF NoComp
    <2>2. CASE c.unit = held
        BY <1>2, <2>1, <2>2 DEF Ended, Remains
    <2>3. CASE c.unit # held
        BY <1>1, <2>3 DEF Ended, Remains, UnitTypesAt
    <2> QED BY <2>2, <2>3
<1>5. CASE docs' = With(text, h, u) /\ gone' = g /\ UNCHANGED <<queue, pending>>
    <2>1. /\ docs' \in Texts
          /\ \A d \in Ctxs : \A v : Holds(docs', d, v) <=> Holds(text, d, v) \/ (d = h /\ v = u)
          /\ \A v : OnceIn(text, v) /\ (v = u => ~InText(text, v)) => OnceIn(docs', v)
          /\ \A v : InText(docs', v) <=> InText(text, v) \/ v = u
        BY <1>1, <1>2, <1>5, WithText, WithIn DEF UnitTypesAt
    <2>2. UnitTypes'
        BY <1>1, <1>3, <1>4, <1>5, <2>1 DEF UnitTypesAt, UnitTypes
    <2>3. Homed'
        <3>1. ASSUME NEW d \in Ctxs, NEW v, Holds(docs', d, v) \/ Holds(queue', d, v)
              PROVE  v \in Begun /\ origin[v].home = d
            <4>1. CASE d = h /\ v = u
                BY <1>2, <4>1
            <4>2. CASE Holds(text, d, v) \/ Holds(queue, d, v)
                BY <1>1, <4>2 DEF HomedAt
            <4> QED BY <1>5, <2>1, <3>1, <4>1, <4>2
        <3> QED BY <1>1, <1>3, <1>4, <1>5, <3>1 DEF Homed, HomedAt
    <2>4. ASSUME NEW v \in Begun, v \notin stranded PROVE Single(v)'
        <3>1. SingleAt(v, c, text, g) /\ v \in Units /\ v # NoUnit
            BY <1>1, <2>4, NoneIsNone
        <3> QED BY <1>2, <1>3, <1>4, <1>5, <2>1, <3>1 DEF Single, SingleAt
    <2> QED BY <1>3, <2>2, <2>3, <2>4 DEF Standing
<1>6. CASE queue' = With(queue, h, u) /\ docs' = text /\ gone' = g /\ UNCHANGED pending
    <2>1. /\ queue' \in Texts
          /\ \A d \in Ctxs : \A v : Holds(queue', d, v) <=> Holds(queue, d, v) \/ (d = h /\ v = u)
          /\ \A v : OnceIn(queue, v) /\ (v = u => ~InText(queue, v)) => OnceIn(queue', v)
          /\ \A v : InText(queue', v) <=> InText(queue, v) \/ v = u
        BY <1>1, <1>2, <1>6, WithText, WithIn DEF UnitTypesAt
    <2>2. UnitTypes'
        BY <1>1, <1>3, <1>4, <1>6, <2>1 DEF UnitTypesAt, UnitTypes
    <2>3. Homed'
        <3>1. ASSUME NEW d \in Ctxs, NEW v, Holds(docs', d, v) \/ Holds(queue', d, v)
              PROVE  v \in Begun /\ origin[v].home = d
            <4>1. CASE d = h /\ v = u
                BY <1>2, <4>1
            <4>2. CASE Holds(text, d, v) \/ Holds(queue, d, v)
                BY <1>1, <4>2 DEF HomedAt
            <4> QED BY <1>6, <2>1, <3>1, <4>1, <4>2
        <3> QED BY <1>1, <1>3, <1>4, <1>6, <3>1 DEF Homed, HomedAt
    <2>4. ASSUME NEW v \in Begun, v \notin stranded PROVE Single(v)'
        <3>1. SingleAt(v, c, text, g) /\ v \in Units /\ v # NoUnit
            BY <1>1, <2>4, NoneIsNone
        <3> QED BY <1>2, <1>3, <1>4, <1>6, <2>1, <3>1 DEF Single, SingleAt
    <2> QED BY <1>3, <2>2, <2>3, <2>4 DEF Standing
<1>7. CASE /\ \E why \in Reasons \ Wrong(u) : gone' = [g EXCEPT ![u] = why]
           /\ docs' = text /\ UNCHANGED <<queue, pending>>
    <2>1. /\ gone' \in [Units -> Reasons \union {""}] /\ gone'[u] # ""
          /\ \A v \in Units : v # u => gone'[v] = g[v]
        BY <1>1, <1>2, <1>7 DEF Reasons, UnitTypesAt
    <2>2. UnitTypes'
        BY <1>1, <1>3, <1>4, <1>7, <2>1 DEF UnitTypesAt, UnitTypes
    <2>3. Homed'
        <3>1. \A d \in Ctxs : \A v : Holds(docs', d, v) \/ Holds(queue', d, v) =>
                                      v \in Begun /\ origin[v].home = d
            BY <1>1, <1>7 DEF HomedAt
        <3>2. \A v \in Units : gone'[v] # "" => v \in Begun
            BY <1>1, <1>2, <2>1 DEF HomedAt
        <3> QED BY <1>1, <1>3, <1>4, <1>7, <3>1, <3>2 DEF Homed, HomedAt
    <2>4. ASSUME NEW v \in Begun, v \notin stranded PROVE Single(v)'
        <3>1. SingleAt(v, c, text, g) /\ v \in Units /\ v # NoUnit
            BY <1>1, <2>4, NoneIsNone
        <3>2. docs' = text /\ queue' = queue /\ pending' = pending
            BY <1>7
        <3>3. CASE v = u
            BY <1>2, <1>3, <1>4, <2>1, <3>1, <3>2, <3>3 DEF Single, SingleAt
        <3>4. CASE v # u
            BY <1>2, <1>3, <1>4, <2>1, <3>1, <3>2, <3>4 DEF Single, SingleAt
        <3> QED BY <3>3, <3>4
    <2> QED BY <1>3, <2>2, <2>3, <2>4 DEF Standing
<1>8. CASE /\ pending' = [ctx |-> h, unit |-> u]
           /\ gone' = IF pending.unit = NoUnit THEN g ELSE [g EXCEPT ![pending.unit] = "replaced"]
           /\ docs' = text /\ UNCHANGED queue
    <2>1. /\ gone' \in [Units -> Reasons \union {""}]
          /\ \A v \in Units : v # pending.unit => gone'[v] = g[v]
          /\ pending.unit \in Units => gone'[pending.unit] # ""
        BY <1>1, <1>8, NoneIsNone DEF Reasons, UnitTypesAt
    <2>2. UnitTypes'
        BY <1>1, <1>2, <1>3, <1>4, <1>8, <2>1 DEF UnitTypesAt, UnitTypes
    <2>3. Homed'
        <3>1. \A d \in Ctxs : \A v : Holds(docs', d, v) \/ Holds(queue', d, v) =>
                                      v \in Begun /\ origin[v].home = d
            BY <1>1, <1>8 DEF HomedAt
        <3>2. \A v \in Units : gone'[v] # "" => v \in Begun
            BY <1>1, <1>8, <2>1, NoneIsNone DEF HomedAt
        <3>3. pending'.unit \in Begun /\ pending'.ctx = origin[pending'.unit].home
            BY <1>2, <1>8
        <3> QED BY <1>1, <1>3, <1>4, <3>1, <3>2, <3>3 DEF Homed, HomedAt
    <2>4. ASSUME NEW v \in Begun, v \notin stranded PROVE Single(v)'
        <3>1. SingleAt(v, c, text, g) /\ v \in Units /\ v # NoUnit
            BY <1>1, <2>4, NoneIsNone
        <3>2. docs' = text /\ queue' = queue /\ pending'.unit = u
            BY <1>8
        <3>3. CASE v = u
            BY <1>2, <1>3, <1>4, <1>8, <2>1, <3>1, <3>2, <3>3 DEF Single, SingleAt
        <3>4. CASE v # u
            BY <1>2, <1>3, <1>4, <2>1, <3>1, <3>2, <3>4 DEF Single, SingleAt
        <3> QED BY <3>3, <3>4
    <2> QED BY <1>3, <2>2, <2>3, <2>4 DEF Standing
<1> QED BY <1>5, <1>6, <1>7, <1>8 DEF Ended

\* While the engine only forgets what a composition still shows, all stays where it was.
Quiet(c, text, g) ==
    /\ comp' = c /\ docs' = text /\ gone' = g /\ UNCHANGED <<pending, queue, origin, stranded>>
    /\ \/ held' = held /\ focus' = focus
       \/ held' = NoUnit /\ (held # NoUnit => c.unit = held)

LEMMA QuietStands ==
    ASSUME Inv, NEW c, NEW text, NEW g, Rest(c, text, g), Quiet(c, text, g)
    PROVE  Standing'
<1>1. UnitTypesAt(c, text, g) /\ HomedAt(c, text, g) /\ Begun' = Begun /\ UnitTypes
      /\ \A v \in Begun \ stranded : SingleAt(v, c, text, g)
    BY RestStands DEF Inv, Standing, StandingAt, Begun, Quiet
<1>2. UnitTypes'
    BY <1>1 DEF UnitTypes, UnitTypesAt, Quiet
<1>3. Homed'
    BY <1>1 DEF Homed, HomedAt, Quiet
<1>4. ASSUME NEW v \in Begun, v \notin stranded PROVE Single(v)'
    <2>1. SingleAt(v, c, text, g) /\ v # NoUnit
        BY <1>1, <1>4, NoneIsNone
    <2>2. held' # v /\ held = v => c.unit = v
        BY <2>1 DEF Quiet
    <2>3. held' = v => held = v
        BY <2>1 DEF Quiet
    <2> QED BY <2>1, <2>2, <2>3 DEF Single, SingleAt, Quiet
<1> QED BY <1>1, <1>2, <1>3, <1>4 DEF Standing, Quiet

-----------------------------------------------------------------------------
\* The text the focused document has after the units in added were left behind in it.
Adds(base, text, added) ==
    /\ text \in Texts /\ added \subseteq Units
    /\ \A d \in Ctxs : \A u : Holds(text, d, u) <=> Holds(base, d, u) \/ (d = focus /\ u \in added)
    /\ \A u : u \notin added /\ OnceIn(base, u) => OnceIn(text, u)
    /\ \A d \in Ctxs : d # focus => text[d] = base[d]
    /\ \A i \in DOMAIN text[focus] : \/ i \in DOMAIN base[focus] /\ text[focus][i] = base[focus][i]
                                    \/ text[focus][i] \in added

\* What all keys that compose have in common: the engine keeps its unit, or completes
\* it and begins the next, which a composition may show.
KeyTakes(c, g, text, added) ==
    /\ added \subseteq {held, NextUnit} /\ stranded' = stranded \union added
    /\ held' \in Units /\ held' \in {held, NextUnit}
    /\ docs' = IF held' = held \/ held = NoUnit THEN text ELSE With(text, focus, held)
    /\ IF NextUnit \in {held'} \union added THEN Begin ELSE UNCHANGED origin
    /\ \/ comp' = Remains(c)
       \/ Remains(c) = NoComp /\ comp' = [ctx |-> focus, unit |-> held']
    /\ gone' = g /\ UNCHANGED <<focus, queue, pending>>

\* A unit that begins is the focused document's, and no other changes its origin.
LEMMA BeginOrigin ==
    ASSUME UnitTypes, AttendTypes, NextUnit \in Units, Begin
    PROVE  /\ origin' \in Seq([home : Ctxs, kind : Layouts]) /\ Len(origin') <= MaxUnits
           /\ Begun' = Begun \union {NextUnit}
           /\ origin'[NextUnit].home = focus /\ origin'[NextUnit].kind = layout
           /\ \A u \in Begun : origin'[u] = origin[u]
<1> DEFINE o == [home |-> focus, kind |-> layout]
<1>1. o \in [home : Ctxs, kind : Layouts] /\ o.home = focus /\ o.kind = layout
    BY DEF AttendTypes
<1>2. origin' = Append(origin, o) /\ origin \in Seq([home : Ctxs, kind : Layouts])
    BY DEF Begin, UnitTypes
<1> HIDE DEF o
<1>3. /\ origin' \in Seq([home : Ctxs, kind : Layouts]) /\ Len(origin') = Len(origin) + 1
      /\ origin'[Len(origin) + 1] = o /\ Len(origin) \in Nat
      /\ \A u \in 1 .. Len(origin) : origin'[u] = origin[u]
    BY <1>1, <1>2
<1>4. Begun' = Begun \union {NextUnit}
    BY <1>3 DEF Begun, NextUnit
<1>5. Len(origin') <= MaxUnits
    BY <1>3, DeliveryAssumption DEF NextUnit, Units
<1> QED BY <1>1, <1>3, <1>4, <1>5 DEF Begun, NextUnit

LEMMA KeyStands ==
    ASSUME Inv, NEW c, NEW base, NEW g, Rest(c, base, g), NEW text, NEW added,
           Adds(base, text, added), KeyTakes(c, g, text, added)
    PROVE  Standing' /\ origin'[held'].home = focus /\ origin'[held'].kind = layout
<1>1. /\ UnitTypesAt(c, base, g) /\ HomedAt(c, base, g) /\ AttendTypes /\ UnitTypes /\ focus \in Ctxs
      /\ \A v \in Begun \ stranded : SingleAt(v, c, base, g)
    BY RestStands DEF Inv, Standing, Attending, AttendTypes, StandingAt
<1>2. /\ NextUnit \notin Begun /\ NoUnit \notin Units /\ Begun \subseteq Units
      /\ held # NoUnit => held \in Begun /\ held \in Units /\ origin[held].home = focus /\ origin[held].kind = layout
      /\ NoComp.unit = NoUnit
    BY <1>1, NoneIsNone DEF HomedAt, Inv, Attending, NoComp
<1>3. /\ origin' \in Seq([home : Ctxs, kind : Layouts]) /\ Len(origin') <= MaxUnits
      /\ \A u \in Begun : origin'[u] = origin[u]
      /\ \/ Begun' = Begun /\ NextUnit \notin {held'} \union added
         \/ /\ Begun' = Begun \union {NextUnit} /\ NextUnit \in {held'} \union added
            /\ origin'[NextUnit].home = focus /\ origin'[NextUnit].kind = layout
    <2>1. CASE NextUnit \in {held'} \union added
        <3>1. NextUnit \in Units /\ Begin
            BY <2>1 DEF KeyTakes, Adds
        <3> QED BY <1>1, <2>1, <3>1, BeginOrigin
    <2>2. CASE NextUnit \notin {held'} \union added
        <3>1. origin' = origin
            BY <2>2 DEF KeyTakes
        <3> QED BY <1>1, <2>2, <3>1 DEF Begun, UnitTypes
    <2> QED BY <2>1, <2>2
<1>4. held' \in Begun' /\ origin'[held'].home = focus /\ origin'[held'].kind = layout /\ held' # NoUnit
    <2>1. held' = NextUnit \/ (held' = held /\ held # NoUnit)
        BY <1>2 DEF KeyTakes
    <2>2. CASE held' = NextUnit
        BY <1>2, <1>3, <2>2 DEF KeyTakes
    <2>3. CASE held' = held /\ held # NoUnit
        BY <1>2, <1>3, <2>3
    <2> QED BY <2>1, <2>2, <2>3
<1>5. \A u \in added : u \in Begun' /\ origin'[u].home = focus
    <2>1. \A u \in added : u = NextUnit \/ (u = held /\ held # NoUnit)
        BY <1>2 DEF KeyTakes, Adds
    <2> QED BY <1>2, <1>3, <2>1
<1> DEFINE moved == held # NoUnit /\ held' # held
<1>6. /\ docs' \in Texts
      /\ \A d \in Ctxs : \A v : Holds(docs', d, v) <=>
             \/ Holds(base, d, v) \/ (d = focus /\ v \in added) \/ (moved /\ d = focus /\ v = held)
      /\ \A v : v \notin added /\ OnceIn(base, v) /\ (moved /\ v = held => ~InText(base, v)) => OnceIn(docs', v)
    <2>1. CASE ~moved
        <3>1. docs' = text
            BY <2>1 DEF KeyTakes
        <3> QED BY <2>1, <3>1 DEF Adds
    <2>2. CASE moved
        <3>1. docs' = With(text, focus, held) /\ text \in Texts /\ held \in Units /\ focus \in Ctxs
            BY <1>1, <1>2, <2>2 DEF KeyTakes, Adds
        <3>2. /\ docs' \in Texts
              /\ \A d \in Ctxs : \A v : Holds(docs', d, v) <=> Holds(text, d, v) \/ (d = focus /\ v = held)
              /\ \A v : OnceIn(text, v) /\ (v = held => ~InText(text, v)) => OnceIn(docs', v)
            BY <3>1, WithText
        <3>3. \A v : v \notin added => (InText(text, v) <=> InText(base, v))
            BY DEF Adds, InText
        <3> HIDE DEF moved
        <3>4. \A d \in Ctxs : \A v : Holds(docs', d, v) <=>
             \/ Holds(base, d, v) \/ (d = focus /\ v \in added) \/ (moved /\ d = focus /\ v = held)
            BY <2>2, <3>2 DEF Adds
        <3>5. \A v : v \notin added /\ OnceIn(base, v) /\ (moved /\ v = held => ~InText(base, v)) => OnceIn(docs', v)
            BY <2>2, <3>2, <3>3 DEF Adds
        <3> QED BY <3>2, <3>4, <3>5
    <2> QED BY <2>1, <2>2
<1>7. \A v : v \notin added => (InText(docs', v) <=> InText(base, v) \/ (moved /\ v = held))
    <2> HIDE DEF moved
    <2> QED BY <1>1, <1>6 DEF InText
<1>8. queue' = queue /\ pending' = pending /\ gone' = g /\ stranded' = stranded \union added
    BY DEF KeyTakes
\* The composition: the one that ends elsewhere, the next unit's, or none.
<1>9. /\ comp' \in [ctx : Ctxs, unit : Units] \union {NoComp}
      /\ comp' # NoComp => \/ comp' = c /\ c.unit # held /\ c # NoComp
                           \/ comp'.ctx = focus /\ comp'.unit = held' /\ (c.unit = held \/ c = NoComp)
    <2>1. CASE comp' = Remains(c)
        BY <1>1, <2>1 DEF Remains, UnitTypesAt
    <2>2. CASE Remains(c) = NoComp /\ comp' = [ctx |-> focus, unit |-> held']
        BY <1>1, <2>2 DEF Remains, KeyTakes
    <2> QED BY <2>1, <2>2 DEF KeyTakes
<1>10. UnitTypes'
    <2>1. held' \in Units /\ added \subseteq Units
        BY DEF KeyTakes, Adds
    <2>2. stranded' \subseteq Units
        BY <1>1, <1>8, <2>1 DEF UnitTypes
    <2> QED BY <1>1, <1>3, <1>6, <1>8, <1>9, <2>1, <2>2 DEF UnitTypes, UnitTypesAt
<1>11. Homed'
    <2>0. \A u \in Begun : u \in Begun' /\ origin'[u].home = origin[u].home
        BY <1>3
    <2>1. ASSUME NEW d \in Ctxs, NEW v, Holds(docs', d, v) \/ Holds(queue', d, v)
          PROVE  v \in Begun' /\ origin'[v].home = d
        <3>1. CASE Holds(base, d, v) \/ Holds(queue, d, v)
            BY <1>1, <2>0, <3>1 DEF HomedAt
        <3>2. CASE d = focus /\ v \in added
            BY <1>5, <3>2
        <3>3. CASE moved /\ d = focus /\ v = held
            BY <1>2, <2>0, <3>3
        <3> QED BY <1>6, <1>8, <2>1, <3>1, <3>2, <3>3
    <2>2. comp' # NoComp => comp'.unit \in Begun' /\ comp'.ctx = origin'[comp'.unit].home
        BY <1>1, <1>4, <1>9, <2>0 DEF HomedAt
    <2>3. pending' # NoSlot => pending'.unit \in Begun' /\ pending'.ctx = origin'[pending'.unit].home
        BY <1>1, <1>8, <2>0 DEF HomedAt
    <2>4. stranded' \subseteq Begun' /\ \A u \in Units : gone'[u] # "" => u \in Begun'
        BY <1>1, <1>5, <1>8, <2>0 DEF HomedAt
    <2> QED BY <1>4, <2>1, <2>2, <2>3, <2>4 DEF Homed, NoSlot
<1>12. ASSUME NEW v \in Begun', v \notin stranded' PROVE Single(v)'
    <2>0. held' \in Units /\ added \subseteq Units
        BY DEF KeyTakes, Adds
    <2>1. v \notin stranded /\ v \notin added /\ v # NoUnit
        BY <1>2, <1>3, <1>8, <1>12, <2>0
    <2>2. CASE v \notin Begun
        <3>1. v = NextUnit /\ held' = v /\ held # v /\ v \in Units
            BY <1>2, <1>3, <2>1, <2>2 DEF KeyTakes
        <3>2. ~InText(base, v) /\ ~InText(queue, v) /\ g[v] = "" /\ pending.unit # v
            BY <1>1, <1>2, <2>2, <3>1, NoneIsNone DEF HomedAt, InText
        <3>3. OnceIn(base, v) /\ OnceIn(queue, v)
            BY <3>2 DEF InText, OnceIn, Holds
        <3>4. ~InText(docs', v) /\ OnceIn(docs', v)
            BY <1>6, <1>7, <2>1, <3>1, <3>2, <3>3
        <3> QED BY <1>8, <3>1, <3>2, <3>3, <3>4 DEF Single
    <2>3. CASE v \in Begun /\ v # held
        <3>1. SingleAt(v, c, base, g) /\ held' # v
            BY <1>1, <1>2, <2>1, <2>3 DEF KeyTakes
        <3>2. (InText(docs', v) <=> InText(base, v)) /\ OnceIn(docs', v)
            BY <1>6, <1>7, <2>1, <2>3, <3>1 DEF SingleAt
        <3>3. comp'.unit = v <=> c.unit = v
            <4>1. CASE comp' = Remains(c)
                BY <1>2, <2>1, <2>3, <4>1 DEF Remains
            <4>2. CASE Remains(c) = NoComp /\ comp' = [ctx |-> focus, unit |-> held']
                BY <1>2, <2>1, <2>3, <3>1, <4>2 DEF Remains
            <4> QED BY <4>1, <4>2 DEF KeyTakes
        <3> QED BY <1>8, <2>3, <3>1, <3>2, <3>3 DEF Single, SingleAt
    <2>4. CASE v \in Begun /\ v = held
        <3>1. SingleAt(v, c, base, g)
            BY <1>1, <2>1, <2>4
        <3>2. ~InText(base, v) /\ ~InText(queue, v) /\ g[v] = "" /\ pending.unit # v
            BY <2>4, <3>1 DEF SingleAt
        <3>3. OnceIn(docs', v) /\ OnceIn(queue, v)
            BY <1>6, <2>1, <3>1, <3>2 DEF SingleAt
        <3>4. CASE held' = held
            <4>1. ~InText(docs', v)
                BY <1>7, <2>1, <3>2, <3>4
            <4> QED BY <1>8, <2>4, <3>2, <3>3, <3>4, <4>1 DEF Single
        <3>5. CASE held' # held
            <4>1. InText(docs', v) /\ held' # v /\ comp'.unit # v
                BY <1>2, <1>7, <1>9, <2>1, <2>4, <3>5
            <4> QED BY <1>8, <3>2, <3>3, <4>1 DEF Single
        <3> QED BY <3>4, <3>5
    <2> QED BY <2>2, <2>3, <2>4
<1> QED BY <1>4, <1>10, <1>11, <1>12 DEF Standing

-----------------------------------------------------------------------------
\* A unit on its way arrives in its document, or is lost.
Lands(u) ==
    \/ docs' = With(docs, origin[u].home, u) /\ UNCHANGED gone
    \/ gone' = Lost(u, "failed") /\ UNCHANGED docs

LEMMA LandsFacts ==
    ASSUME UnitTypes, NEW u \in Units, origin[u].home \in Ctxs, Lands(u)
    PROVE  /\ docs' \in Texts /\ gone' \in [Units -> Reasons \union {""}]
           /\ \A d \in Ctxs : \A v : Holds(docs', d, v) => Holds(docs, d, v) \/ (d = origin[u].home /\ v = u)
           /\ \A v : v # u /\ OnceIn(docs, v) => OnceIn(docs', v)
           /\ \A v : v # u => (InText(docs', v) <=> InText(docs, v))
           /\ \A v \in Units : v # u => gone'[v] = gone[v]
           /\ OnceIn(docs, u) /\ ~InText(docs, u) /\ gone[u] = "" =>
                  OnceIn(docs', u) /\ (InText(docs', u) <=> gone'[u] = "")
<1>1. docs \in Texts /\ gone \in [Units -> Reasons \union {""}]
    BY DEF UnitTypes
<1>2. CASE docs' = With(docs, origin[u].home, u) /\ UNCHANGED gone
    <2>1. /\ docs' \in Texts
          /\ \A d \in Ctxs : \A v : Holds(docs', d, v) <=> Holds(docs, d, v) \/ (d = origin[u].home /\ v = u)
          /\ \A v : OnceIn(docs, v) /\ (v = u => ~InText(docs, v)) => OnceIn(docs', v)
          /\ \A v : InText(docs', v) <=> InText(docs, v) \/ v = u
        BY <1>1, <1>2, WithText, WithIn
    <2> QED BY <1>1, <1>2, <2>1
<1>3. CASE gone' = Lost(u, "failed") /\ UNCHANGED docs
    <2>1. /\ gone' \in [Units -> Reasons \union {""}] /\ gone'[u] # ""
          /\ \A v \in Units : v # u => gone'[v] = gone[v]
        BY <1>1, <1>3 DEF Lost, Reasons
    <2> QED BY <1>1, <1>3, <2>1
<1> QED BY <1>2, <1>3 DEF Lands

\* The slot is emptied, or the head of a queue is taken.
Leaves(u) ==
    \/ pending.unit = u /\ pending' = NoSlot /\ UNCHANGED queue
    \/ \E c \in Ctxs : /\ queue[c] # <<>> /\ u = Head(queue[c])
                       /\ queue' = [queue EXCEPT ![c] = Tail(@)] /\ UNCHANGED pending

LEMMA LeavesFacts ==
    ASSUME UnitTypes, NEW u \in Units, Leaves(u)
    PROVE  /\ queue' \in Texts
           /\ \A d \in Ctxs : \A v : Holds(queue', d, v) => Holds(queue, d, v)
           /\ \A v : OnceIn(queue, v) => OnceIn(queue', v)
           /\ \A v : v # u => (InText(queue', v) <=> InText(queue, v))
           /\ pending' = pending \/ (pending.unit = u /\ pending' = NoSlot /\ UNCHANGED queue)
           /\ \/ pending.unit = u /\ pending' = NoSlot /\ UNCHANGED queue
              \/ InText(queue, u) /\ UNCHANGED pending /\ (OnceIn(queue, u) => ~InText(queue', u))
<1>1. queue \in Texts
    BY DEF UnitTypes
<1>2. CASE pending.unit = u /\ pending' = NoSlot /\ UNCHANGED queue
    BY <1>1, <1>2
<1>3. ASSUME NEW c \in Ctxs, queue[c] # <<>>, u = Head(queue[c]),
             queue' = [queue EXCEPT ![c] = Tail(@)], UNCHANGED pending
      PROVE  /\ queue' \in Texts
             /\ \A d \in Ctxs : \A v : Holds(queue', d, v) => Holds(queue, d, v)
             /\ \A v : OnceIn(queue, v) => OnceIn(queue', v)
             /\ \A v : v # u => (InText(queue', v) <=> InText(queue, v))
             /\ InText(queue, u) /\ UNCHANGED pending /\ (OnceIn(queue, u) => ~InText(queue', u))
    <2>1. /\ queue' \in Texts /\ Holds(queue, c, u)
          /\ \A d \in Ctxs : \A v : Holds(queue', d, v) => Holds(queue, d, v)
          /\ \A v : OnceIn(queue, v) => OnceIn(queue', v)
          /\ OnceIn(queue, u) => ~InText(queue', u)
        BY <1>1, <1>3, TailText
    <2>2. \A v : v # u => (InText(queue', v) <=> InText(queue, v))
        BY <1>1, <1>3, TailIn
    <2> QED BY <1>3, <2>1, <2>2 DEF InText
<1> QED BY <1>2, <1>3 DEF Leaves

LEMMA LeaverStands ==
    ASSUME Inv, NEW u \in Units, Leaves(u), Lands(u), UNCHANGED <<focus, held, comp, origin, stranded>>
    PROVE  Standing'
<1>1. UnitTypes /\ Homed /\ Begun' = Begun /\ u # NoUnit
    BY DEF Inv, Standing, Begun, NoUnit, Units
<1>2. /\ queue' \in Texts
      /\ \A d \in Ctxs : \A v : Holds(queue', d, v) => Holds(queue, d, v)
      /\ \A v : OnceIn(queue, v) => OnceIn(queue', v)
      /\ \A v : v # u => (InText(queue', v) <=> InText(queue, v))
      /\ \/ pending.unit = u /\ pending' = NoSlot /\ UNCHANGED queue
         \/ InText(queue, u) /\ UNCHANGED pending /\ (OnceIn(queue, u) => ~InText(queue', u))
    BY <1>1, LeavesFacts
<1>3. u \in Begun /\ origin[u].home \in Ctxs
    <2>1. u \in Begun
        BY <1>1, <1>2, NoneIsNone DEF Homed, InText
    <2> QED BY <1>1, <2>1, HomeIn
<1>4. /\ docs' \in Texts /\ gone' \in [Units -> Reasons \union {""}]
      /\ \A d \in Ctxs : \A v : Holds(docs', d, v) => Holds(docs, d, v) \/ (d = origin[u].home /\ v = u)
      /\ \A v : v # u /\ OnceIn(docs, v) => OnceIn(docs', v)
      /\ \A v : v # u => (InText(docs', v) <=> InText(docs, v))
      /\ \A v \in Units : v # u => gone'[v] = gone[v]
      /\ OnceIn(docs, u) /\ ~InText(docs, u) /\ gone[u] = "" =>
             OnceIn(docs', u) /\ (InText(docs', u) <=> gone'[u] = "")
    BY <1>1, <1>3, LandsFacts
<1>5. UnitTypes'
    BY <1>1, <1>2, <1>4 DEF UnitTypes
<1>6. Homed'
    <2>1. ASSUME NEW c \in Ctxs, NEW v, Holds(docs', c, v) \/ Holds(queue', c, v)
          PROVE  v \in Begun /\ origin[v].home = c
        <3>1. CASE Holds(docs, c, v) \/ Holds(queue, c, v)
            BY <1>1, <3>1 DEF Homed
        <3>2. CASE c = origin[u].home /\ v = u
            BY <1>3, <3>2
        <3> QED BY <1>2, <1>4, <2>1, <3>1, <3>2
    <2>2. pending' # NoSlot => pending'.unit \in Begun /\ pending'.ctx = origin[pending'.unit].home
        BY <1>1, <1>2 DEF Homed
    <2>3. \A v \in Units : gone'[v] # "" => v \in Begun
        BY <1>1, <1>3, <1>4 DEF Homed
    <2> QED BY <1>1, <2>1, <2>2, <2>3 DEF Homed
<1>7. ASSUME NEW v \in Begun, v \notin stranded PROVE Single(v)'
    <2>1. Single(v) /\ v \in Units /\ v # NoUnit
        BY <1>1, <1>7, NoneIsNone DEF Inv, Standing
    <2>2. pending' = NoSlot => pending'.unit = NoUnit
        BY DEF NoSlot
    <2>3. CASE v = u
        BY <1>2, <1>4, <2>1, <2>2, <2>3 DEF Single
    <2>4. CASE v # u
        <3>1. pending'.unit = v <=> pending.unit = v
            BY <1>2, <2>1, <2>2, <2>4
        <3> QED BY <1>2, <1>4, <2>1, <2>4, <3>1 DEF Single
    <2> QED BY <2>3, <2>4
<1> QED BY <1>1, <1>5, <1>6, <1>7 DEF Standing

-----------------------------------------------------------------------------
\* Deactivation drops what is pending, and what no composition shows.
LEMMA DeactivateStands ==
    ASSUME Inv, Deactivate PROVE Standing'
<1>1. /\ held' = NoUnit /\ target' = NoCtx /\ demoted' = FALSE /\ comp' = NoComp /\ pending' = NoSlot
      /\ docs' = IF comp = NoComp THEN docs ELSE With(docs, comp.ctx, comp.unit)
      /\ UNCHANGED <<focus, pc, layout, queue, origin, stranded>> /\ Begun' = Begun
    BY DEF Deactivate, Fold, Begun
<1> DEFINE lost(u) == u = pending.unit \/ (u = held /\ comp.unit # held)
<1>2. /\ gone' \in [Units -> Reasons \union {""}]
      /\ \A u \in Units : gone'[u] = IF lost(u) THEN "deactivated" ELSE gone[u]
    <2>1. gone' = [u \in Units |-> IF lost(u) THEN "deactivated" ELSE gone[u]]
        BY DEF Deactivate
    <2> HIDE DEF lost
    <2> QED BY <2>1 DEF Inv, Standing, UnitTypes, Reasons
<1>3. UnitTypes /\ Homed
    BY DEF Inv, Standing
<1>4. /\ comp # NoComp => /\ comp.unit \in Units /\ comp.ctx \in Ctxs /\ origin[comp.unit].home = comp.ctx
                           /\ comp.unit \in Begun
      /\ comp = NoComp <=> comp.unit = NoUnit
      /\ pending = NoSlot <=> pending.unit = NoUnit
      /\ NoUnit \notin Units
    BY <1>3, NoneIsNone, EngineUnits DEF Homed
<1>5. /\ docs' \in Texts
      /\ \A d \in Ctxs : \A v : Holds(docs', d, v) => Holds(docs, d, v)
                                     \/ (comp # NoComp /\ d = comp.ctx /\ v = comp.unit)
      /\ \A v : v # NoUnit /\ OnceIn(docs, v) /\ (v = comp.unit => ~InText(docs, v)) => OnceIn(docs', v)
      /\ \A v : v # NoUnit => (InText(docs', v) <=> InText(docs, v) \/ v = comp.unit)
    <2>1. docs \in Texts
        BY <1>3 DEF UnitTypes
    <2>2. CASE comp = NoComp
        BY <1>1, <1>4, <2>1, <2>2
    <2>3. CASE comp # NoComp
        <3>1. docs' = With(docs, comp.ctx, comp.unit)
            BY <1>1, <2>3
        <3>2. /\ docs' \in Texts
              /\ \A d \in Ctxs : \A v : Holds(docs', d, v) <=> Holds(docs, d, v) \/ (d = comp.ctx /\ v = comp.unit)
              /\ \A v : OnceIn(docs, v) /\ (v = comp.unit => ~InText(docs, v)) => OnceIn(docs', v)
              /\ \A v : InText(docs', v) <=> InText(docs, v) \/ v = comp.unit
            BY <1>4, <2>1, <2>3, <3>1, WithText, WithIn
        <3> QED BY <2>3, <3>2
    <2> QED BY <2>2, <2>3
<1>6. UnitTypes'
    BY <1>1, <1>2, <1>3, <1>5 DEF UnitTypes
<1>7. Homed'
    <2>1. ASSUME NEW c \in Ctxs, NEW v, Holds(docs', c, v) \/ Holds(queue', c, v)
          PROVE  v \in Begun /\ origin[v].home = c
        <3>1. CASE Holds(docs, c, v) \/ Holds(queue, c, v)
            BY <1>3, <3>1 DEF Homed
        <3>2. CASE comp # NoComp /\ c = comp.ctx /\ v = comp.unit
            BY <1>4, <3>2
        <3> QED BY <1>1, <1>5, <2>1, <3>1, <3>2
    <2>2. ASSUME NEW v \in Units, gone'[v] # "" PROVE v \in Begun
        <3>1. CASE lost(v)
            BY <1>3, <1>4, <3>1 DEF Homed
        <3>2. CASE ~lost(v)
            BY <1>2, <1>3, <2>2, <3>2 DEF Homed
        <3> QED BY <3>1, <3>2
    <2> QED BY <1>1, <1>3, <2>1, <2>2 DEF Homed
<1>8. ASSUME NEW v \in Begun, v \notin stranded PROVE Single(v)'
    <2>1. Single(v) /\ v \in Units /\ v # NoUnit
        BY <1>3, <1>4, <1>8, NoneIsNone DEF Inv, Standing
    <2>2. held' # v /\ comp'.unit # v /\ pending'.unit # v
        BY <1>1, <2>1 DEF NoComp, NoSlot, NoUnit
    <2>3. /\ OnceIn(docs', v)
          /\ InText(docs', v) <=> InText(docs, v) \/ v = comp.unit
        BY <1>5, <2>1 DEF Single
    <2>4. CASE lost(v)
        BY <1>1, <1>2, <1>4, <2>1, <2>2, <2>3, <2>4 DEF Single, Reasons
    <2>5. CASE ~lost(v)
        <3>1. gone'[v] = gone[v] /\ (held = v => comp.unit = v)
            BY <1>2, <1>4, <2>1, <2>5
        <3> QED BY <1>1, <2>1, <2>2, <2>3, <2>5, <3>1 DEF Single
    <2> QED BY <2>4, <2>5
<1> QED BY <1>1, <1>6, <1>7, <1>8 DEF Standing

-----------------------------------------------------------------------------
\* Every step makes one of these moves, after what becomes of a composition that ends.
QuietMove == \E c, text, g : Rest(c, text, g) /\ Quiet(c, text, g)
KeyMove   == /\ pc = "key"
             /\ \E c, base, g : /\ Rest(c, base, g)
                               /\ \E text, added : Adds(base, text, added) /\ KeyTakes(c, g, text, added)
EndMove   == held # NoUnit /\ \E c, text, g : Rest(c, text, g) /\ Ended(c, text, g)
LandMove  == \E u \in Units : Leaves(u) /\ Lands(u) /\ UNCHANGED <<focus, held, comp, origin, stranded>>
Moves     == QuietMove \/ KeyMove \/ EndMove \/ LandMove \/ Deactivate

LEMMA MovesStand ==
    Inv /\ Moves => Standing'
<1> SUFFICES ASSUME Inv, Moves PROVE Standing'
    OBVIOUS
<1>1. CASE QuietMove
    BY <1>1, QuietStands DEF QuietMove
<1>2. CASE KeyMove
    BY <1>2, KeyStands DEF KeyMove
<1>3. CASE EndMove
    BY <1>3, EndedStands DEF EndMove
<1>4. CASE LandMove \/ Deactivate
    BY <1>4, LeaverStands, DeactivateStands DEF LandMove
<1> QED BY <1>1, <1>2, <1>3, <1>4 DEF Moves

\* What JamoComp_Finalize does to a composition that ends elsewhere, or to none.
LEMMA FinalizeRests ==
    ASSUME Inv, Finalize(docs), comp.unit = held => held = NoUnit
    PROVE  Rest(comp', docs', gone)
<1>1. comp = NoComp \/ Ending
    BY EngineUnits DEF Ending, NoUnit, Units
<1> QED BY <1>1 DEF Finalize, Rest

\* Inserting in two documents makes the same of them in either order.
LEMMA WithTwice ==
    ASSUME NEW text \in Texts, NEW c \in Ctxs, NEW d \in Ctxs, c # d, NEW u \in Units, NEW v \in Units
    PROVE  With(With(text, c, u), d, v) = With(With(text, d, v), c, u)
BY DEF With, Texts

\* The same after the engine's unit was inserted.
LEMMA FinalizeAfter ==
    ASSUME Inv, held # NoUnit, comp.unit # held, Finalize(With(docs, origin[held].home, held))
    PROVE  \E text : Rest(comp', text, gone) /\ docs' = With(text, origin[held].home, held)
<1> DEFINE h == origin[held].home
<1>1. held \in Units /\ h = focus /\ focus \in Ctxs /\ docs \in Texts
    BY EngineUnits DEF Inv, Standing, UnitTypes
<1>2. CASE comp' = comp /\ docs' = With(docs, h, held)
    BY <1>2 DEF Rest
<1>3. CASE comp # NoComp /\ comp' = NoComp /\ docs' = With(With(docs, h, held), comp.ctx, comp.unit)
    <2>1. Ending /\ comp.ctx \in Ctxs /\ comp.unit \in Units /\ comp.ctx # focus
        BY <1>3, EngineUnits DEF Ending
    <2>2. docs' = With(With(docs, comp.ctx, comp.unit), h, held)
        BY <1>1, <1>3, <2>1, WithTwice
    <2> QED BY <1>3, <2>1, <2>2 DEF Rest
<1> QED BY <1>2, <1>3 DEF Finalize

\* With its own composition, or none.
LEMMA OwnRemains ==
    ASSUME Inv, ~Ending PROVE Remains(comp) = NoComp /\ Rest(comp, docs, gone)
BY EngineUnits DEF Ending, Remains, Rest, NoComp

-----------------------------------------------------------------------------
\* A jamo leaves a unit in the engine, and if it is not the one before, completes that.
LEMMA JamoResult ==
    ASSUME Inv, NEW r \in JamoResults
    PROVE  /\ r.preedit \in Units /\ r.preedit \in {held, NextUnit}
           /\ r.commit \in {NoUnit, held}
           /\ held = NoUnit => r.commit = NoUnit
           /\ held # NoUnit => (r.commit = NoUnit <=> r.preedit = held)
<1>1. NoUnit \notin Units
    BY DEF NoUnit, Units
<1>2. /\ r.commit \in {NoUnit, held} /\ r.preedit \in {held, NextUnit} \intersect Units
      /\ \/ held = NoUnit /\ r.commit = NoUnit
         \/ held # NoUnit /\ (r.commit = NoUnit <=> r.preedit = held)
    BY DEF JamoResults
<1> QED BY <1>1, <1>2

LEMMA OutputHolds ==
    ASSUME Inv, NEW r \in JamoResults, NEW text, OutputResult(r, text)
    PROVE  /\ held' \in Units /\ held' \in {held, NextUnit}
           /\ docs' = IF held' = held \/ held = NoUnit THEN text ELSE With(text, focus, held)
<1>1. /\ r.preedit \in Units /\ r.preedit \in {held, NextUnit}
      /\ r.commit \in {NoUnit, held}
      /\ held = NoUnit => r.commit = NoUnit
      /\ held # NoUnit => (r.commit = NoUnit <=> r.preedit = held)
    BY JamoResult
<1>2. held \in {NoUnit} \union Units
    BY DEF Inv, Standing, UnitTypes
<1> QED BY <1>1, <1>2 DEF OutputResult

\* The documents as they are, with nothing left behind.
LEMMA AddsNothing ==
    ASSUME NEW base \in Texts PROVE Adds(base, base, {})
BY DEF Adds

\* So a key that leaves nothing behind makes such a move.
LEMMA KeyMoves ==
    ASSUME Inv, pc = "key", NEW c, NEW base, NEW g, Rest(c, base, g), KeyTakes(c, g, base, {})
    PROVE  KeyMove /\ origin'[held'].home = focus /\ origin'[held'].kind = layout
<1>1. base \in Texts
    BY RestStands DEF StandingAt, UnitTypesAt
<1> QED BY <1>1, AddsNothing, KeyStands DEF KeyMove

\* What attention a key that composes leaves.
LEMMA KeyAttends ==
    ASSUME Inv, pc' = "idle", UNCHANGED <<focus, layout>>,
           target' \in {target, focus}, layout # "chord" => target' = focus,
           demoted' \in BOOLEAN,
           held' \in Units, origin'[held'].home = focus, origin'[held'].kind = layout,
           comp'.unit = held' => ~demoted' /\ focus \in InlineCtxs /\ layout = "syllable",
           comp' # NoComp /\ comp'.unit # held' => comp'.ctx # focus
    PROVE  Attending'
<1>1. AttendTypes' /\ target' \in {NoCtx, focus'}
    BY DEF Inv, Attending, AttendTypes
<1> QED BY <1>1 DEF Attending, Ending

\* A composition that ends stays elsewhere when a key composes.
LEMMA ElsewhereStays ==
    ASSUME Inv, pc = "key", held' \in Units, held' \in {held, NextUnit},
           comp = NoComp \/ Ending, comp' \in {comp, NoComp}
    PROVE  comp'.unit # held' /\ (comp' # NoComp => comp'.ctx # focus)
<1>1. NoComp.unit = NoUnit /\ NoUnit \notin Units
    BY DEF NoComp, NoUnit, Units
<1>2. comp # NoComp => comp.unit # held /\ comp.unit \in Begun /\ comp.ctx # focus
    BY EngineUnits DEF Ending, Inv, Attending
<1>3. NextUnit \notin Begun
    BY NoneIsNone DEF Inv, Standing
<1> QED BY <1>1, <1>2, <1>3

\* Where compositions are not standard, the engine's unit has none.
LEMMA NoneOfItsOwn ==
    ASSUME Inv, layout # "syllable" \/ ~Standard \/ held = NoUnit
    PROVE  (comp = NoComp \/ Ending) /\ Remains(comp) = comp
<1>1. comp # NoComp => comp.unit # NoUnit
    BY NoneIsNone DEF Inv, Standing
<1>2. held # NoUnit /\ comp.unit = held => layout = "syllable" /\ Standard
    BY DEF Inv, Attending, Standard
<1> QED BY <1>1, <1>2 DEF Ending, Remains

\* Remember leaves the focused document as the target.
LEMMA RememberFocus == Inv /\ Remember => target' = focus
BY DEF Inv, Attending, AttendTypes, Remember

\* Nothing happens to a composition.
LEMMA RestsAsItIs == Rest(comp, docs, gone)
BY DEF Rest

LEMMA JamoKeyCommitMoves ==
    ASSUME Inv, JamoKeyCommit PROVE Moves /\ Attending'
<1>1. PICK r \in JamoResults : OutputResult(r, docs) /\ BeginsIfNew
    BY DEF JamoKeyCommit
<1>2. (comp = NoComp \/ Ending) /\ Remains(comp) = comp /\ comp' = comp /\ pc = "key"
    BY NoneOfItsOwn DEF JamoKeyCommit
<1>3. KeyTakes(comp, gone, docs, {})
    BY <1>1, <1>2, OutputHolds DEF KeyTakes, JamoKeyCommit, BeginsIfNew
<1>4. KeyMove /\ origin'[held'].home = focus /\ origin'[held'].kind = layout
    BY <1>2, <1>3, RestsAsItIs, KeyMoves
<1>5. held' \in Units /\ held' \in {held, NextUnit}
    BY <1>1, OutputHolds
<1>6. comp'.unit # held' /\ (comp' # NoComp => comp'.ctx # focus)
    BY <1>2, <1>5, ElsewhereStays
<1>7. demoted' \in BOOLEAN
    BY DEF JamoKeyCommit, Inv, Attending, AttendTypes
<1> QED BY <1>4, <1>5, <1>6, <1>7, RememberFocus, KeyAttends DEF JamoKeyCommit, Moves

LEMMA JamoKeyInlineMoves ==
    ASSUME Inv, JamoKeyInline PROVE Moves /\ Attending'
<1>1. PICK r \in JamoResults : /\ docs' = IF r.commit = NoUnit THEN docs ELSE With(docs, focus, r.commit)
                               /\ held' = r.preedit
                               /\ comp' = [ctx |-> focus, unit |-> r.preedit]
    BY DEF JamoKeyInline
<1>2. OutputResult(r, docs) /\ Remains(comp) = NoComp /\ pc = "key"
    BY <1>1, OwnRemains DEF OutputResult, JamoKeyInline
<1>3. KeyTakes(comp, gone, docs, {})
    BY <1>1, <1>2, OutputHolds DEF KeyTakes, JamoKeyInline, BeginsIfNew
<1>4. KeyMove /\ origin'[held'].home = focus /\ origin'[held'].kind = layout
    BY <1>2, <1>3, RestsAsItIs, KeyMoves
<1>5. demoted' = FALSE /\ focus \in InlineCtxs /\ layout = "syllable"
    BY DEF JamoKeyInline, Standard, Inv, Attending, AttendTypes
<1>6. held' \in Units /\ comp'.unit = held'
    BY <1>1, <1>2, OutputHolds
<1> QED BY <1>4, <1>5, <1>6, RememberFocus, KeyAttends DEF JamoKeyInline, Moves

LEMMA JamoKeyDemotesMoves ==
    ASSUME Inv, JamoKeyDemotes PROVE Moves /\ Attending'
<1>1. PICK r \in JamoResults : \E left \in LeftBehind(r) :
          /\ stranded' = stranded \union {left[i] : i \in DOMAIN left}
          /\ OutputResult(r, [docs EXCEPT ![focus] = @ \o left])
    BY DEF JamoKeyDemotes
<1>2. PICK left \in LeftBehind(r) :
          /\ stranded' = stranded \union {left[i] : i \in DOMAIN left}
          /\ OutputResult(r, [docs EXCEPT ![focus] = @ \o left])
    BY <1>1
<1> DEFINE text == [docs EXCEPT ![focus] = @ \o left]
           added == {left[i] : i \in DOMAIN left}
<1>3. left \in Seq(Units) /\ added \subseteq {held, NextUnit}
    <2>1. /\ r.preedit \in Units /\ r.preedit \in {held, NextUnit}
          /\ r.commit # NoUnit => r.commit \in Units /\ r.commit \in {held, NextUnit}
          /\ comp # NoComp => comp.unit \in Units /\ comp.unit \in {held, NextUnit}
        BY JamoResult, NoneIsNone DEF Inv, Standing, UnitTypes, Ending, JamoKeyDemotes
    <2>2. CASE left = <<>>
        <3>1. <<>> \in Seq(Units) /\ DOMAIN <<>> = {}
            OBVIOUS
        <3> QED BY <2>2, <3>1
    <2>3. ASSUME NEW a \in Units, a \in {held, NextUnit}, left = <<a>>
          PROVE  left \in Seq(Units) /\ added \subseteq {held, NextUnit}
        BY <2>3
    <2>4. ASSUME NEW a \in Units, NEW b \in Units, a \in {held, NextUnit}, b \in {held, NextUnit},
                 left = <<a, b>>
          PROVE  left \in Seq(Units) /\ added \subseteq {held, NextUnit}
        BY <2>4
    <2>5. \/ left = <<>>
          \/ comp # NoComp /\ left = <<comp.unit>>
          \/ left = <<r.preedit>>
          \/ r.commit # NoUnit /\ left = <<r.commit, r.preedit>>
        <3>1. \/ left = <<>> \/ left \in (IF comp = NoComp THEN {} ELSE {<<comp.unit>>})
              \/ left = (IF r.commit = NoUnit THEN <<r.preedit>> ELSE <<r.commit, r.preedit>>)
            <4> HIDE DEF NoComp, NoUnit
            <4> QED BY <1>2, Zenon DEF LeftBehind
        <3>2. CASE left \in (IF comp = NoComp THEN {} ELSE {<<comp.unit>>})
            BY <3>2, Zenon
        <3>3. CASE left = (IF r.commit = NoUnit THEN <<r.preedit>> ELSE <<r.commit, r.preedit>>)
            BY <3>3, Zenon
        <3> QED BY <3>1, <3>2, <3>3
    <2> QED BY <2>1, <2>2, <2>3, <2>4, <2>5
<1>4. Adds(docs, text, added)
    <2>1. docs \in Texts /\ focus \in Ctxs
        BY DEF Inv, Standing, UnitTypes, Attending, AttendTypes
    <2>2. left \in Seq(Units)
        BY <1>3
    <2>3. /\ text \in Texts /\ added \subseteq Units
          /\ \A d \in Ctxs : \A u : Holds(text, d, u) <=> Holds(docs, d, u) \/ (d = focus /\ u \in added)
          /\ \A u : u \notin added /\ OnceIn(docs, u) => OnceIn(text, u)
        BY <2>1, <2>2, LeftText
    <2>4. /\ \A d \in Ctxs : d # focus => text[d] = docs[d]
          /\ \A i \in DOMAIN text[focus] : \/ i \in DOMAIN docs[focus] /\ text[focus][i] = docs[focus][i]
                                          \/ text[focus][i] \in added
        BY <2>1, <2>2, LeftPlaces
    <2> HIDE DEF text, added
    <2> QED BY <2>3, <2>4 DEF Adds
<1>5. stranded' = stranded \union added /\ OutputResult(r, text) /\ comp' = NoComp
    BY <1>2 DEF JamoKeyDemotes
<1> HIDE DEF text, added
<1>6. NextUnit \notin stranded
    BY NoneIsNone DEF Inv, Standing, Homed
<1>7. KeyTakes(comp, gone, text, added)
    <2>0. Remains(comp) = NoComp
        BY OwnRemains DEF JamoKeyDemotes
    <2>1. IF NextUnit \in {held'} \union added THEN Begin ELSE UNCHANGED origin
        BY <1>5, <1>6 DEF JamoKeyDemotes
    <2> QED BY <1>3, <1>5, <2>0, <2>1, OutputHolds DEF KeyTakes, JamoKeyDemotes
<1>8. KeyMove /\ origin'[held'].home = focus /\ origin'[held'].kind = layout
    BY <1>4, <1>7, RestsAsItIs, KeyStands DEF JamoKeyDemotes, KeyMove
<1>9. held' \in Units /\ comp'.unit # held'
    BY <1>5, OutputHolds DEF NoComp, NoUnit, Units
<1> QED BY <1>5, <1>8, <1>9, RememberFocus, KeyAttends DEF JamoKeyDemotes, Moves

LEMMA JamoKeyElsewhereMoves ==
    ASSUME Inv, JamoKeyElsewhere PROVE Moves /\ Attending'
<1>0. /\ Ending /\ comp # NoComp /\ comp.unit # held /\ pc = "key" /\ Remains(comp) = comp
      /\ NoComp.unit = NoUnit /\ Remains(NoComp) = NoComp
    BY DEF JamoKeyElsewhere, Ending, Remains, NoComp
<1>1. PICK r \in JamoResults :
          \/ comp' = NoComp /\ gone' = Lost(comp.unit, "dropped") /\ OutputResult(r, docs)
          \/ comp' = NoComp /\ UNCHANGED gone /\ OutputResult(r, With(docs, comp.ctx, comp.unit))
          \/ UNCHANGED <<comp, gone>> /\ OutputResult(r, docs)
    BY DEF JamoKeyElsewhere
<1>2. \E c, base, g : /\ Rest(c, base, g) /\ OutputResult(r, base)
                      /\ gone' = g /\ comp' = Remains(c)
    <2>1. CASE comp' = NoComp /\ gone' = Lost(comp.unit, "dropped") /\ OutputResult(r, docs)
        <3>1. Rest(NoComp, docs, Lost(comp.unit, "dropped"))
            BY <1>0 DEF Rest
        <3> QED BY <1>0, <2>1, <3>1
    <2>2. CASE comp' = NoComp /\ UNCHANGED gone /\ OutputResult(r, With(docs, comp.ctx, comp.unit))
        <3>1. Rest(NoComp, With(docs, comp.ctx, comp.unit), gone)
            BY <1>0 DEF Rest
        <3> QED BY <1>0, <2>2, <3>1
    <2>3. CASE UNCHANGED <<comp, gone>> /\ OutputResult(r, docs)
        BY <1>0, <2>3, RestsAsItIs
    <2> QED BY <1>1, <2>1, <2>2, <2>3
<1>3. PICK c, base, g : /\ Rest(c, base, g) /\ OutputResult(r, base)
                        /\ gone' = g /\ comp' = Remains(c)
    BY <1>2
<1>4. /\ held' \in Units /\ held' \in {held, NextUnit}
      /\ docs' = IF held' = held \/ held = NoUnit THEN base ELSE With(base, focus, held)
    BY <1>3, OutputHolds
<1>5. KeyTakes(c, g, base, {})
    BY <1>3, <1>4 DEF KeyTakes, JamoKeyElsewhere, BeginsIfNew
<1>6. KeyMove /\ origin'[held'].home = focus /\ origin'[held'].kind = layout
    BY <1>0, <1>3, <1>5, KeyMoves
<1>7. comp' \in {comp, NoComp}
    BY <1>1
<1>8. comp'.unit # held' /\ (comp' # NoComp => comp'.ctx # focus)
    BY <1>0, <1>4, <1>7, ElsewhereStays
<1>9. target' = focus /\ demoted' \in BOOLEAN /\ pc' = "idle" /\ UNCHANGED <<focus, layout>>
    BY RememberFocus DEF JamoKeyElsewhere
<1> QED BY <1>4, <1>6, <1>8, <1>9, KeyAttends DEF Moves

LEMMA FirstKeyMoves ==
    ASSUME Inv, ChordKeyDown \/ SeqKey PROVE Moves /\ Attending'
<1>1. (comp = NoComp \/ Ending) /\ Remains(comp) = comp /\ comp' = comp /\ pc = "key"
    BY NoneOfItsOwn DEF ChordKeyDown, SeqKey
<1>2. KeyTakes(comp, gone, docs, {})
    BY <1>1 DEF KeyTakes, ChordKeyDown, SeqKey
<1>3. KeyMove /\ origin'[held'].home = focus /\ origin'[held'].kind = layout
    BY <1>1, <1>2, RestsAsItIs, KeyMoves
<1>4. target' \in {target, focus} /\ (layout # "chord" => target' = focus) /\ demoted' \in BOOLEAN
    BY RememberFocus DEF ChordKeyDown, SeqKey, Inv, Attending, AttendTypes
<1>5. pc' = "idle" /\ UNCHANGED <<focus, layout>> /\ held' \in Units /\ held' = NextUnit
    BY DEF ChordKeyDown, SeqKey
<1>6. comp'.unit # held' /\ (comp' # NoComp => comp'.ctx # focus)
    BY <1>1, <1>5, ElsewhereStays
<1> QED BY <1>3, <1>4, <1>5, <1>6, KeyAttends DEF Moves

-----------------------------------------------------------------------------
\* A unit that ends while the composition of another, if there is one, does what it may:
\* it was inserted, or is lost.
LEMMA EndsWithFinalize ==
    ASSUME Inv, held # NoUnit, comp.unit # held, held' = NoUnit,
           UNCHANGED <<pending, origin, stranded>>,
           \/ /\ Finalize(With(docs, origin[held].home, held)) /\ UNCHANGED <<gone, queue>>
           \/ /\ Finalize(docs) /\ queue' = With(queue, origin[held].home, held) /\ UNCHANGED gone
           \/ /\ Finalize(docs) /\ \E why \in Reasons \ Wrong(held) : gone' = Lost(held, why)
              /\ UNCHANGED queue
    PROVE  EndMove /\ comp' \in {comp, NoComp}
<1>1. comp' \in {comp, NoComp} /\ Remains(comp') = comp'
    <2>1. comp' \in {comp, NoComp}
        BY DEF Finalize
    <2> QED BY <2>1 DEF Remains, NoComp
<1>2. CASE Finalize(With(docs, origin[held].home, held)) /\ UNCHANGED <<gone, queue>>
    <2>1. PICK text : Rest(comp', text, gone) /\ docs' = With(text, origin[held].home, held)
        BY <1>2, FinalizeAfter
    <2>2. Ended(comp', text, gone)
        BY <1>1, <1>2, <2>1 DEF Ended
    <2> QED BY <1>1, <2>1, <2>2 DEF EndMove
<1>3. ASSUME Finalize(docs) PROVE Rest(comp', docs', gone)
    BY <1>3, FinalizeRests
<1>4. CASE Finalize(docs) /\ queue' = With(queue, origin[held].home, held) /\ UNCHANGED gone
    <2>1. Ended(comp', docs', gone)
        BY <1>1, <1>4 DEF Ended
    <2> QED BY <1>1, <1>3, <1>4, <2>1 DEF EndMove
<1>5. CASE /\ Finalize(docs) /\ \E why \in Reasons \ Wrong(held) : gone' = Lost(held, why)
           /\ UNCHANGED queue
    <2>1. Ended(comp', docs', gone)
        BY <1>1, <1>5 DEF Ended, Lost
    <2> QED BY <1>1, <1>3, <1>5, <2>1 DEF EndMove
<1> QED BY <1>2, <1>4, <1>5

\* The unit that a composition shows ends with it, in its document.
LEMMA EndsShown ==
    ASSUME Inv, held # NoUnit, comp.unit = held, comp' = NoComp, docs' = With(docs, comp.ctx, held),
           held' = NoUnit, UNCHANGED <<gone, queue, pending, origin, stranded>>
    PROVE  EndMove
<1>1. comp.ctx = origin[held].home /\ Remains(comp) = NoComp
    <2>1. comp # NoComp
        BY DEF NoComp
    <2> QED BY <2>1, EngineUnits DEF Remains
<1>2. Ended(comp, docs, gone)
    BY <1>1 DEF Ended
<1> QED BY <1>2, RestsAsItIs DEF EndMove

\* The unit ends and nothing happens to the composition of another, if there is one.
LEMMA EndsAlone ==
    ASSUME Inv, held # NoUnit, Remains(comp) = comp', held' = NoUnit,
           UNCHANGED <<queue, pending, origin, stranded>>,
           \/ docs' = With(docs, origin[held].home, held) /\ UNCHANGED gone
           \/ UNCHANGED docs /\ \E why \in Reasons \ Wrong(held) : gone' = Lost(held, why)
    PROVE  EndMove
<1>1. Ended(comp, docs, gone)
    BY DEF Ended, Lost
<1> QED BY <1>1, RestsAsItIs DEF EndMove

\* The losses that no key, and no fold, may be to blame for.
LEMMA Blameless ==
    /\ \A u : {"failed", "erased"} \subseteq Reasons \ Wrong(u)
    /\ \A u : Kind(u) # "syllable" => "folded" \in Reasons \ Wrong(u)
    /\ Ending => \A u : "dropped" \in Reasons \ Wrong(u)
BY DEF Reasons, Wrong

\* After a transition from outside nothing is composed, and at most one unit has moved.
LEMMA OutsideTransition ==
    ASSUME Inv, NEW current, TransitionOutside(current)
    PROVE  /\ EndMove \/ QuietMove
           /\ held' = NoUnit /\ target' = NoCtx /\ demoted' = FALSE
           /\ comp' \in {comp, NoComp}
<1>1. held' = NoUnit /\ target' = NoCtx /\ demoted' = FALSE /\ origin' = origin /\ stranded' = stranded
    BY DEF TransitionOutside, Fold
<1>2. held = NoUnit => Kind(held) = "none"
    BY EngineUnits
<1>3. held # NoUnit => origin[held].home = focus /\ Kind(held) = layout
                       /\ (layout # "chord" => target = focus) /\ (layout # "syllable" => comp.unit # held)
    BY EngineUnits
<1>4. CASE FlushComposition
    <2>1. held # NoUnit /\ target = focus /\ origin[held].home = focus /\ comp = NoComp /\ comp.unit # held
        BY <1>2, <1>3, <1>4 DEF FlushComposition, NoComp
    <2>2. CASE DeliverOutside(held) /\ UNCHANGED <<gone, pending>>
        <3>1. \/ Finalize(With(docs, origin[held].home, held)) /\ UNCHANGED queue
              \/ Finalize(docs) /\ queue' = With(queue, origin[held].home, held)
            BY <2>1, <2>2 DEF DeliverOutside, Destination
        <3> QED BY <1>1, <2>1, <2>2, <3>1, EndsWithFinalize
    <2>3. CASE PendingSet(held)
        <3>1. /\ pending' = [ctx |-> origin[held].home, unit |-> held]
              /\ gone' = IF pending.unit = NoUnit THEN gone ELSE [gone EXCEPT ![pending.unit] = "replaced"]
              /\ docs' = docs /\ queue' = queue /\ comp' = comp
            BY <2>1, <2>3 DEF PendingSet, Lost
        <3>2. Remains(comp) = comp
            BY <2>1 DEF Remains
        <3>3. Ended(comp, docs, gone)
            BY <1>1, <3>1, <3>2 DEF Ended
        <3> QED BY <1>1, <2>1, <3>1, <3>3, RestsAsItIs DEF EndMove
    <2> QED BY <1>1, <1>4, <2>2, <2>3 DEF FlushComposition
<1>5. CASE LeftToComposition
    <2>1. held # NoUnit
        BY <1>2, <1>5 DEF LeftToComposition
    <2>2. CASE comp.unit = held /\ Finalize(docs) /\ UNCHANGED gone
        <3>1. CASE comp' = comp /\ docs' = docs
            <4>1. Quiet(comp, docs, gone)
                BY <1>1, <1>5, <2>2, <3>1 DEF Quiet, LeftToComposition
            <4> QED BY <1>1, <3>1, <4>1, RestsAsItIs DEF QuietMove
        <3>2. CASE comp' = NoComp /\ docs' = With(docs, comp.ctx, comp.unit)
            BY <1>1, <1>5, <2>1, <2>2, <3>2, EndsShown DEF LeftToComposition
        <3> QED BY <1>5, <2>2, <3>1, <3>2 DEF Finalize, LeftToComposition
    <2>3. CASE Ending /\ Finalize(docs) /\ gone' = Lost(held, "dropped")
        <3>1. comp.unit # held
            BY <2>3 DEF Ending
        <3> QED BY <1>1, <1>5, <2>1, <2>3, <3>1, Blameless, EndsWithFinalize DEF LeftToComposition
    <2> QED BY <1>5, <2>2, <2>3 DEF LeftToComposition
<1>6. CASE FlushSeq(current)
    <2>1. held # NoUnit /\ target = focus /\ origin[held].home = focus /\ comp.unit # held
        BY <1>2, <1>3, <1>6 DEF FlushSeq
    <2>2. \/ Finalize(With(docs, origin[held].home, held)) /\ UNCHANGED <<queue, gone>>
          \/ Finalize(docs) /\ queue' = With(queue, origin[held].home, held) /\ UNCHANGED gone
          \/ gone' = Lost(held, "failed") /\ Finalize(docs) /\ UNCHANGED queue
        BY <1>6, <2>1 DEF FlushSeq, DeliverOutside, Destination
    <2> QED BY <1>1, <1>6, <2>1, <2>2, Blameless, EndsWithFinalize DEF FlushSeq
<1>7. CASE FoldedAway(current)
    <2>1. held # NoUnit /\ comp.unit # held /\ Kind(held) # "syllable"
        BY <1>2, <1>3, <1>7 DEF FoldedAway
    <2>2. Finalize(docs) /\ gone' = Lost(held, "folded") /\ UNCHANGED <<queue, pending>>
        BY <1>1, <1>7, <2>1 DEF FoldedAway
    <2> QED BY <1>1, <2>1, <2>2, Blameless, EndsWithFinalize
<1>8. CASE NothingHeld
    <2>1. Rest(comp', docs', gone) /\ comp' \in {comp, NoComp}
        BY <1>8, FinalizeRests DEF NothingHeld, Finalize
    <2>2. Quiet(comp', docs', gone)
        BY <1>1, <1>8 DEF NothingHeld, Quiet
    <2> QED BY <1>1, <2>1, <2>2 DEF QuietMove
<1> QED BY <1>4, <1>5, <1>6, <1>7, <1>8 DEF TransitionOutside

\* What attention remains when nothing is held.
LEMMA NothingHeldAttends ==
    ASSUME Inv, held' = NoUnit, AttendTypes', target' \in {NoCtx, focus'}, pc' = "idle"
    PROVE  Attending'
BY DEF Attending

LEMMA OutsideMoves ==
    ASSUME Inv,
           \/ \E c \in Ctxs : FocusChange(c)
           \/ LangBarSwitch \/ CompartmentSwitch
           \/ PassthroughKey /\ Kind(held) # "syllable"
    PROVE  Moves /\ Attending'
<1>1. /\ \E current : TransitionOutside(current)
      /\ pc' = "idle" /\ focus' \in Ctxs /\ layout' \in Layouts
    BY DEF Inv, Attending, AttendTypes, FocusChange, LangBarSwitch, CompartmentSwitch, PassthroughKey
<1>2. (EndMove \/ QuietMove) /\ held' = NoUnit /\ target' = NoCtx /\ demoted' = FALSE
    BY <1>1, OutsideTransition
<1>3. AttendTypes'
    BY <1>1, <1>2 DEF AttendTypes
<1> QED BY <1>1, <1>2, <1>3, NothingHeldAttends DEF Moves

\* What ends in a key event ends in its document, or is lost.
LEMMA InKeyEnds ==
    ASSUME Inv, NEW folds, EndInKey(folds), held' = NoUnit, UNCHANGED <<queue, pending, origin, stranded>>
    PROVE  EndMove
<1>1. held # NoUnit /\ origin[held].home = focus
    BY EngineUnits DEF EndInKey
<1>2. CASE comp.unit = held /\ comp' = NoComp /\ docs' = With(docs, comp.ctx, held) /\ UNCHANGED gone
    BY <1>1, <1>2, EndsShown
<1>3. CASE comp.unit # held /\ UNCHANGED comp /\ CommitText(held)
    <2>1. Remains(comp) = comp'
        BY <1>3 DEF Remains
    <2> QED BY <1>1, <1>3, <2>1, Blameless, EndsAlone DEF CommitText
<1>4. CASE comp.unit # held /\ Finalize(With(docs, focus, held)) /\ UNCHANGED gone
    BY <1>1, <1>4, EndsWithFinalize
<1>5. CASE comp.unit # held /\ Finalize(docs) /\ gone' = Lost(held, "failed")
    BY <1>1, <1>5, Blameless, EndsWithFinalize
<1>6. CASE Ending /\ Finalize(docs) /\ gone' = Lost(held, "dropped")
    <2>1. comp.unit # held
        BY <1>6 DEF Ending
    <2> QED BY <1>1, <1>6, <2>1, Blameless, EndsWithFinalize
<1> QED BY <1>2, <1>3, <1>4, <1>5, <1>6 DEF EndInKey

LEMMA BoundaryKeyMoves ==
    ASSUME Inv, BoundaryKey PROVE Moves /\ Attending'
<1>1. EndMove /\ held' = NoUnit /\ pc' = "idle"
    BY InKeyEnds DEF BoundaryKey
<1>2. AttendTypes' /\ target' \in {NoCtx, focus'}
    BY DEF Inv, Attending, AttendTypes, BoundaryKey
<1> QED BY <1>1, <1>2, NothingHeldAttends DEF Moves

\* Two losses are the same in either order.
LEMMA LostTwice ==
    ASSUME UnitTypes, NEW u \in Units, NEW v \in Units, u # v, NEW a, NEW b
    PROVE  [Lost(u, a) EXCEPT ![v] = b] = [Lost(v, b) EXCEPT ![u] = a]
BY DEF Lost, UnitTypes

LEMMA EraseMoves ==
    ASSUME Inv, Erase PROVE Moves /\ Attending'
<1>1. /\ held # NoUnit /\ held' = NoUnit /\ pc = "key" /\ pc' = "idle"
      /\ UNCHANGED <<focus, layout, pending, queue, origin, stranded>>
      /\ \/ target' = NoCtx /\ demoted' = FALSE
         \/ target' = target /\ demoted' = demoted
    BY DEF Erase, Fold
<1>2. held \in Units /\ (comp # NoComp => comp.unit \in Units /\ origin[comp.unit].home = comp.ctx)
    BY <1>1, EngineUnits
<1>3. EndMove
    <2>1. CASE ~Ending /\ comp' = NoComp /\ gone' = Lost(held, "erased") /\ UNCHANGED docs
        BY <1>1, <2>1, OwnRemains, Blameless, EndsAlone
    <2>2. CASE ~Ending /\ comp' = NoComp /\ comp # NoComp /\ docs' = With(docs, comp.ctx, held) /\ UNCHANGED gone
        BY <1>1, <2>2, EndsShown DEF Ending
    <2>3. CASE Ending /\ Finalize(docs) /\ gone' = Lost(held, "erased")
        BY <1>1, <2>3, Blameless, EndsWithFinalize DEF Ending
    <2>4. CASE /\ Ending /\ comp' = NoComp /\ UNCHANGED docs
               /\ gone' = [Lost(held, "erased") EXCEPT ![comp.unit] = "dropped"]
        <3> DEFINE g == Lost(comp.unit, "dropped")
        <3>1. comp.unit \in Units /\ comp.unit # held
            BY <1>2, <2>4 DEF Ending
        <3>2. gone' = [g EXCEPT ![held] = "erased"]
            BY <1>2, <2>4, <3>1, LostTwice DEF Inv, Standing
        <3>3. Rest(NoComp, docs, g) /\ Remains(NoComp) = NoComp
            BY <1>1, <2>4 DEF Rest, Remains
        <3> HIDE DEF g
        <3>4. Ended(NoComp, docs, g)
            BY <1>1, <2>4, <3>2, <3>3, Blameless DEF Ended
        <3> QED BY <1>1, <3>3, <3>4 DEF EndMove
    <2>5. CASE Ending /\ gone' = Lost(held, "erased") /\ UNCHANGED <<comp, docs>>
        <3>1. Remains(comp) = comp'
            BY <2>5 DEF Ending, Remains
        <3> QED BY <1>1, <2>5, <3>1, Blameless, EndsAlone
    <2> QED BY <2>1, <2>2, <2>3, <2>4, <2>5 DEF Erase
<1>4. AttendTypes' /\ target' \in {NoCtx, focus'}
    BY <1>1 DEF Inv, Attending, AttendTypes
<1> QED BY <1>1, <1>3, <1>4, NothingHeldAttends DEF Moves

LEMMA RotateKeyMoves ==
    ASSUME Inv, RotateKey PROVE Moves /\ Attending'
<1>1. /\ held' = NoUnit /\ target' = NoCtx /\ demoted' = FALSE /\ pc' = "idle"
      /\ layout' \in Layouts /\ UNCHANGED <<focus, origin, stranded>>
    BY DEF RotateKey, Fold
<1>2. EndMove \/ QuietMove
    <2>1. CASE EndInKey(TRUE) /\ UNCHANGED <<queue, pending>>
        BY <1>1, <2>1, InKeyEnds
    <2>2. CASE FoldedAway("reading") \/ NothingHeld
        <3>1. TransitionOutside("reading")
            BY <1>1, <2>2 DEF TransitionOutside, Fold
        <3> QED BY <3>1, OutsideTransition
    <2> QED BY <2>1, <2>2 DEF RotateKey
<1>3. AttendTypes'
    BY <1>1 DEF Inv, Attending, AttendTypes
<1> QED BY <1>1, <1>2, <1>3, NothingHeldAttends DEF Moves

LEMMA PassthroughSyllableMoves ==
    ASSUME Inv, PassthroughKey, Kind(held) = "syllable" PROVE Moves /\ Attending'
<1>1. /\ EndInKey(TRUE) /\ held' = NoUnit /\ target' = NoCtx /\ demoted' = FALSE /\ pc' = "idle"
      /\ UNCHANGED <<focus, layout, queue, pending, origin, stranded>>
    BY DEF PassthroughKey, Fold
<1>2. EndMove
    BY <1>1, InKeyEnds
<1>3. AttendTypes'
    BY <1>1 DEF Inv, Attending, AttendTypes
<1> QED BY <1>1, <1>2, <1>3, NothingHeldAttends DEF Moves

LEMMA ChordKeyUpMoves ==
    ASSUME Inv, ChordKeyUp PROVE Moves /\ Attending'
<1>1. /\ held' = NoUnit /\ CommitText(held) /\ Kind(held) = "chord" /\ pc' = "idle"
      /\ UNCHANGED <<focus, layout, target, comp, demoted, pending, queue, origin, stranded>>
    BY DEF ChordKeyUp
<1>2. held # NoUnit /\ origin[held].home = focus /\ comp.unit # held
    BY <1>1, EngineUnits
<1>3. Remains(comp) = comp'
    BY <1>1, <1>2 DEF Remains
<1>4. EndMove
    BY <1>1, <1>2, <1>3, Blameless, EndsAlone DEF CommitText
<1>5. AttendTypes' /\ target' \in {NoCtx, focus'}
    BY <1>1 DEF Inv, Attending, AttendTypes
<1> QED BY <1>1, <1>4, <1>5, NothingHeldAttends DEF Moves

\* A composition that ends elsewhere by itself.
LEMMA EndsByItself ==
    ASSUME Inv, Ending, comp' = NoComp, docs' = With(docs, comp.ctx, comp.unit),
           demoted' \in BOOLEAN,
           UNCHANGED <<focus, pc, layout, target, held, pending, queue, origin, gone, stranded>>
    PROVE  Moves /\ Attending'
<1>1. Rest(NoComp, docs', gone) /\ Quiet(NoComp, docs', gone)
    BY DEF Rest, Quiet
<1>2. NoComp.unit = NoUnit
    BY DEF NoComp
<1>3. Attending'
    BY <1>2 DEF Inv, Attending, AttendTypes, Ending
<1> QED BY <1>1, <1>3 DEF QuietMove, Moves

LEMMA CompositionEndsMoves ==
    ASSUME Inv, RunFinalize \/ Terminated PROVE Moves /\ Attending'
<1>1. CASE RunFinalize
    <2>1. demoted' \in BOOLEAN
        BY <1>1 DEF RunFinalize, Inv, Attending, AttendTypes
    <2> QED BY <1>1, <2>1, EndsByItself DEF RunFinalize
<1>2. CASE Terminated
    <2>1. /\ pc = "idle" /\ comp # NoComp /\ comp' = NoComp /\ docs' = With(docs, comp.ctx, comp.unit)
          /\ demoted' \in BOOLEAN
          /\ UNCHANGED <<focus, pc, layout, target, pending, queue, origin, stranded>>
        BY <1>2 DEF Terminated, Inv, Attending, AttendTypes
    <2>2. CASE Kind(held) = "syllable"
        <3>1. held # NoUnit /\ held' = NoUnit
            BY <1>2, <2>2, EngineUnits DEF Terminated
        <3>2. AttendTypes' /\ target' \in {NoCtx, focus'}
            BY <2>1 DEF Inv, Attending, AttendTypes
        <3>3. CASE Ending
            <4>1. Rest(NoComp, docs', gone) /\ Remains(NoComp) = NoComp
                BY <2>1, <3>3 DEF Rest, Remains
            <4>2. gone' = [gone EXCEPT ![held] = "dropped"]
                BY <1>2, <2>2, <3>3 DEF Terminated, Lost
            <4>3. Ended(NoComp, docs', gone)
                BY <2>1, <3>1, <3>3, <4>1, <4>2, Blameless DEF Ended
            <4>4. EndMove
                BY <3>1, <4>1, <4>3 DEF EndMove
            <4> QED BY <2>1, <3>1, <3>2, <4>4, NothingHeldAttends DEF Moves
        <3>4. CASE ~Ending
            <4>1. comp.unit = held /\ gone' = gone
                BY <1>2, <2>1, <2>2, <3>4 DEF Ending, Terminated
            <4>2. EndMove
                BY <2>1, <3>1, <4>1, EndsShown
            <4> QED BY <2>1, <3>1, <3>2, <4>2, NothingHeldAttends DEF Moves
        <3> QED BY <3>3, <3>4
    <2>3. CASE Kind(held) # "syllable"
        <3>1. Ending
            BY <2>1, <2>3, EngineUnits DEF Ending, NoUnit, Units
        <3> QED BY <1>2, <2>1, <2>3, <3>1, EndsByItself DEF Terminated
    <2> QED BY <2>2, <2>3
<1> QED BY <1>1, <1>2

LEMMA TestKeyDownMoves ==
    ASSUME Inv, TestKeyDown PROVE Moves /\ Attending'
<1>1. Attending'
    BY DEF Inv, Attending, AttendTypes, TestKeyDown, Settled, Ending
<1>2. UNCHANGED <<focus, held, comp, origin, stranded, queue>>
    BY DEF TestKeyDown
<1>3. CASE PendingMatches /\ CommitText(pending.unit) /\ pending' = SlotAfterRetry
    <2>1. pending.unit \in Units /\ origin[pending.unit].home = focus
        <3>1. UnitTypes /\ Homed /\ pending # NoSlot /\ pending.ctx \in {NoCtx, focus}
            BY <1>3, NoneIsNone DEF PendingMatches, Inv, Standing
        <3>2. pending.unit \in Units /\ pending.unit \in Begun /\ pending.ctx = origin[pending.unit].home
            BY <3>1, NoneIsNone DEF Homed
        <3> QED BY <3>1, <3>2, HomeIn, DeliveryAssumption
    <2>2. Leaves(pending.unit) /\ Lands(pending.unit)
        BY <1>2, <1>3, <2>1 DEF Leaves, Lands, CommitText, SlotAfterRetry
    <2> QED BY <1>1, <1>2, <2>1, <2>2 DEF Moves, LandMove
<1>4. CASE UNCHANGED <<docs, gone, pending>>
    <2>1. Quiet(comp, docs, gone)
        BY <1>2, <1>4 DEF Quiet
    <2> QED BY <1>1, <2>1, RestsAsItIs DEF Moves, QuietMove
<1> QED BY <1>3, <1>4 DEF TestKeyDown

LEMMA RunInsertMoves ==
    ASSUME Inv, NEW c \in Ctxs, RunInsert(c) PROVE Moves /\ Attending'
<1> DEFINE u == Head(queue[c])
<1>1. u \in Units /\ origin[u].home = c
    <2>1. queue \in Texts /\ queue[c] # <<>>
        BY DEF Inv, Standing, UnitTypes, RunInsert
    <2>2. u \in Units /\ Holds(queue, c, u)
        BY <2>1, TailText
    <2> QED BY <2>2 DEF Inv, Standing, Homed
<1>2. Leaves(u) /\ Lands(u)
    BY <1>1 DEF RunInsert, Leaves, Lands
<1>3. UNCHANGED <<focus, held, comp, origin, stranded>>
    BY DEF RunInsert
<1>4. Moves
    BY <1>1, <1>2, <1>3 DEF Moves, LandMove
<1>5. Attending'
    BY DEF Inv, Attending, AttendTypes, RunInsert, Ending
<1> QED BY <1>4, <1>5

LEMMA StillMoves ==
    ASSUME Inv, KeyNotEaten \/ UNCHANGED deliveryVars PROVE Moves /\ Attending'
<1>1. Quiet(comp, docs, gone)
    BY DEF KeyNotEaten, deliveryVars, Quiet
<1>2. Attending'
    BY DEF KeyNotEaten, deliveryVars, Inv, Attending, AttendTypes, Ending
<1> QED BY <1>1, <1>2, RestsAsItIs DEF Moves, QuietMove

LEMMA DeactivateMoves ==
    ASSUME Inv, Deactivate PROVE Moves /\ Attending'
BY DEF Moves, Deactivate, Fold, Inv, Attending, AttendTypes, Ending

-----------------------------------------------------------------------------
\* Every step is a move, and keeps the invariant.
LEMMA NextMoves ==
    ASSUME Inv, [DeliveryNext]_deliveryVars PROVE Moves /\ Attending'
<1>1. CASE UNCHANGED deliveryVars
    BY <1>1, StillMoves
<1>2. CASE Key
    BY <1>2, StillMoves, TestKeyDownMoves, JamoKeyCommitMoves, JamoKeyInlineMoves, JamoKeyDemotesMoves,
       JamoKeyElsewhereMoves, FirstKeyMoves, ChordKeyUpMoves, BoundaryKeyMoves, EraseMoves, RotateKeyMoves,
       PassthroughSyllableMoves, OutsideMoves DEF Key
<1>3. CASE Outside
    BY <1>3, OutsideMoves, DeactivateMoves DEF Outside
<1>4. CASE Environment
    BY <1>4, RunInsertMoves, CompositionEndsMoves DEF Environment
<1> QED BY <1>1, <1>2, <1>3, <1>4 DEF DeliveryNext

LEMMA NextInv ==
    ASSUME Inv, [DeliveryNext]_deliveryVars PROVE Inv'
BY NextMoves, MovesStand DEF Inv

LEMMA AlwaysInv == DeliverySpec => []Inv
<1>1. DeliveryInit => Inv
    BY InitInv
<1>2. Inv /\ [DeliveryNext]_deliveryVars => Inv'
    BY NextInv
<1> QED BY <1>1, <1>2, PTL DEF DeliverySpec

-----------------------------------------------------------------------------
\* The places of a unit in a family of texts.
LEMMA PlacesAre ==
    ASSUME NEW text, NEW u
    PROVE  /\ \A p : p \in Places(text, u) <=>
                         \E c \in Ctxs : \E i \in DOMAIN text[c] : text[c][i] = u /\ p = <<c, i>>
           /\ InText(text, u) <=> Places(text, u) # {}
           /\ OnceIn(text, u) => \A p, q \in Places(text, u) : p = q
<1>1. ASSUME NEW p
      PROVE  p \in Places(text, u) <=> \E c \in Ctxs : \E i \in DOMAIN text[c] : text[c][i] = u /\ p = <<c, i>>
    BY DEF Places
<1>2. InText(text, u) <=> Places(text, u) # {}
    <2>1. ASSUME NEW c \in Ctxs, NEW i \in DOMAIN text[c], text[c][i] = u PROVE <<c, i>> \in Places(text, u)
        BY <1>1, <2>1
    <2>2. ASSUME NEW p \in Places(text, u) PROVE InText(text, u)
        BY <1>1 DEF InText, Holds
    <2> QED BY <2>1, <2>2 DEF InText, Holds
<1>3. ASSUME OnceIn(text, u), NEW p \in Places(text, u), NEW q \in Places(text, u) PROVE p = q
    <2>1. PICK c \in Ctxs : \E i \in DOMAIN text[c] : text[c][i] = u /\ p = <<c, i>>
        BY <1>1
    <2>2. PICK i \in DOMAIN text[c] : text[c][i] = u /\ p = <<c, i>>
        BY <2>1
    <2>3. PICK d \in Ctxs : \E j \in DOMAIN text[d] : text[d][j] = u /\ q = <<d, j>>
        BY <1>1
    <2>4. PICK j \in DOMAIN text[d] : text[d][j] = u /\ q = <<d, j>>
        BY <2>3
    <2>5. c = d /\ i = j
        BY <1>3, <2>2, <2>4 DEF OnceIn
    <2> QED BY <2>2, <2>4, <2>5
<1> QED BY <1>1, <1>2, <1>3

\* Everything that has a unit, one kind after the other.
LEMMA HoldersAre ==
    ASSUME NEW u, NEW x
    PROVE  x \in Holders(u) <=>
               \/ \E p \in Places(docs, u) : x = <<"doc", p>>
               \/ \E p \in Places(queue, u) : x = <<"queue", p>>
               \/ x = <<"engine", <<>>>> /\ (held = u \/ comp.unit = u)
               \/ x = <<"slot", <<>>>> /\ pending.unit = u
               \/ x = <<"gone", <<>>>> /\ gone[u] # ""
<1> DEFINE S == {y \in {"engine", "slot", "gone"} :
                     CASE y = "engine" -> held = u \/ comp.unit = u
                       [] y = "slot" -> pending.unit = u
                       [] OTHER -> gone[u] # ""}
<1>1. /\ "engine" \in S <=> held = u \/ comp.unit = u
      /\ "slot" \in S <=> pending.unit = u
      /\ "gone" \in S <=> gone[u] # ""
      /\ \A y \in S : y \in {"engine", "slot", "gone"}
    OBVIOUS
<1>2. Holders(u) = {<<"doc", p>> : p \in Places(docs, u)} \union {<<"queue", p>> : p \in Places(queue, u)}
                       \union {<<y, <<>>>> : y \in S}
    BY DEF Holders
<1> HIDE DEF S
<1>3. x \in {<<y, <<>>>> : y \in S} <=>
          \/ x = <<"engine", <<>>>> /\ (held = u \/ comp.unit = u)
          \/ x = <<"slot", <<>>>> /\ pending.unit = u
          \/ x = <<"gone", <<>>>> /\ gone[u] # ""
    BY <1>1
<1> QED BY <1>2, <1>3

\* A unit in a single place has a single holder.
LEMMA SingleHolder ==
    ASSUME NEW u, Single(u)
    PROVE  \E x \in Holders(u) : Holders(u) = {x}
<1>1. ASSUME NEW x, NEW y, x \in Holders(u), y \in Holders(u) PROVE x = y
    <2>1. CASE InText(docs, u)
        <3>1. Places(queue, u) = {} /\ held # u /\ comp.unit # u /\ pending.unit # u /\ gone[u] = ""
            BY <2>1, PlacesAre DEF Single
        <3>2. \A p, q \in Places(docs, u) : p = q
            BY PlacesAre DEF Single
        <3>3. PICK p \in Places(docs, u) : x = <<"doc", p>>
            BY <1>1, <3>1, HoldersAre
        <3>4. PICK q \in Places(docs, u) : y = <<"doc", q>>
            BY <1>1, <3>1, HoldersAre
        <3> QED BY <3>2, <3>3, <3>4
    <2>2. CASE InText(queue, u)
        <3>1. Places(docs, u) = {} /\ held # u /\ comp.unit # u /\ pending.unit # u /\ gone[u] = ""
            BY <2>2, PlacesAre DEF Single
        <3>2. \A p, q \in Places(queue, u) : p = q
            BY PlacesAre DEF Single
        <3>3. PICK p \in Places(queue, u) : x = <<"queue", p>>
            BY <1>1, <3>1, HoldersAre
        <3>4. PICK q \in Places(queue, u) : y = <<"queue", q>>
            BY <1>1, <3>1, HoldersAre
        <3> QED BY <3>2, <3>3, <3>4
    <2>3. CASE ~InText(docs, u) /\ ~InText(queue, u)
        <3>1. Places(docs, u) = {} /\ Places(queue, u) = {}
            BY <2>3, PlacesAre
        <3>2. /\ held = u \/ comp.unit = u => pending.unit # u /\ gone[u] = ""
              /\ pending.unit = u => gone[u] = ""
            BY DEF Single
        <3>3. ASSUME NEW z \in Holders(u)
              PROVE  \/ z = <<"engine", <<>>>> /\ (held = u \/ comp.unit = u)
                     \/ z = <<"slot", <<>>>> /\ pending.unit = u
                     \/ z = <<"gone", <<>>>> /\ gone[u] # ""
            <4>1. \A p : p \notin Places(docs, u) /\ p \notin Places(queue, u)
                BY <3>1
            <4> QED BY <3>3, <4>1, HoldersAre
        <3> QED BY <1>1, <3>2, <3>3
    <2> QED BY <2>1, <2>2, <2>3
<1>2. \E x : x \in Holders(u)
    <2>1. CASE InText(docs, u) \/ InText(queue, u)
        <3>1. PICK p : p \in Places(docs, u) \/ p \in Places(queue, u)
            BY <2>1, PlacesAre
        <3>2. <<"doc", p>> \in Holders(u) \/ <<"queue", p>> \in Holders(u)
            BY <3>1, HoldersAre
        <3> QED BY <3>2
    <2>2. CASE held = u \/ comp.unit = u \/ pending.unit = u \/ gone[u] # ""
        <3>1. \/ <<"engine", <<>>>> \in Holders(u)
              \/ <<"slot", <<>>>> \in Holders(u)
              \/ <<"gone", <<>>>> \in Holders(u)
            BY <2>2, HoldersAre
        <3> QED BY <3>1
    <2> QED BY <2>1, <2>2 DEF Single
<1> QED BY <1>1, <1>2

\* Each variable has its type, for any documents, layouts and number of units.
THEOREM DeliveryTypes == DeliverySpec => []DeliveryTypeOK
<1>1. Inv /\ prompt \in BOOLEAN => DeliveryTypeOK
    BY TypesTogether DEF Inv, Attending, Standing
<1>2. DeliveryInit => prompt \in BOOLEAN
    BY DEF DeliveryInit
<1>3. prompt \in BOOLEAN /\ [DeliveryNext]_deliveryVars => (prompt \in BOOLEAN)'
    BY DEF DeliveryNext, deliveryVars
<1> QED BY <1>1, <1>2, <1>3, AlwaysInv, PTL DEF DeliverySpec

\* Each unit the user began is in one place and there once: in one document, queued,
\* composed, pending or accounted for as lost (transition.h:3), except for text that a
\* failed composition left behind.
THEOREM UnitsInExactlyOnePlace == DeliverySpec => []ExactlyOnePlace
<1>1. Inv => ExactlyOnePlace
    BY SingleHolder DEF Inv, Standing, ExactlyOnePlace
<1> QED BY <1>1, AlwaysInv, PTL

\* No unit is, or is on its way, in a document it was not begun in (transition.h:4).
THEOREM UnitsInTheRightDocument == DeliverySpec => []RightDocument
<1>1. Inv => RightDocument
    <2> SUFFICES ASSUME Inv, NEW u \in Begun
                 PROVE  /\ \A p \in Places(docs, u) \union Places(queue, u) : p[1] = origin[u].home
                        /\ pending.unit = u => pending.ctx = origin[u].home
        BY DEF RightDocument
    <2>1. UnitTypes /\ Homed /\ u # NoUnit
        BY NoneIsNone DEF Inv, Standing
    <2>2. ASSUME NEW p, p \in Places(docs, u) \/ p \in Places(queue, u) PROVE p[1] = origin[u].home
        <3>1. PICK c \in Ctxs : (Holds(docs, c, u) \/ Holds(queue, c, u)) /\ p[1] = c
            BY <2>2, PlacesAre DEF Holds
        <3> QED BY <2>1, <3>1 DEF Homed
    <2>3. pending.unit = u => pending.ctx = origin[u].home
        BY <2>1, NoneIsNone DEF Homed
    <2> QED BY <2>2, <2>3
<1> QED BY <1>1, AlwaysInv, PTL

\* What the user is composing started in the focused document, that document is the
\* target if the focus leaves, and a composition in it shows exactly this unit.
THEOREM ComposedWhereItStarted == DeliverySpec => []ComposedWhereStarted
<1>1. Inv => ComposedWhereStarted
    <2> SUFFICES ASSUME Inv, held # NoUnit
                 PROVE  /\ origin[held].home = focus
                        /\ Kind(held) # "chord" => target = focus
                        /\ comp.ctx = focus => comp.unit = held
        BY DEF ComposedWhereStarted
    <2>1. origin[held].home = focus /\ (Kind(held) # "chord" => target = focus)
        BY EngineUnits
    <2>2. ASSUME comp.ctx = focus, comp.unit # held PROVE FALSE
        <3>1. comp # NoComp
            BY <2>2, EngineUnits, DeliveryAssumption DEF NoComp
        <3> QED BY <2>2, <3>1, EngineUnits DEF Ending
    <2> QED BY <2>1, <2>2
<1> QED BY <1>1, AlwaysInv, PTL

-----------------------------------------------------------------------------
\* Where sessions run in time no key comes, and nothing is composed, while a composition
\* is still to end.
Alone == prompt => (Ending => held = NoUnit /\ pc = "idle")

LEMMA AloneKept ==
    ASSUME Inv, Alone, [DeliveryNext]_deliveryVars PROVE Alone'
<1> SUFFICES ASSUME prompt', Ending', held' # NoUnit \/ pc' # "idle" PROVE FALSE
    BY DEF Alone
<1>1. prompt
    BY DEF DeliveryNext, deliveryVars
<1>2. comp' # NoComp /\ comp'.unit # held'
    BY DEF Ending
<1>3. CASE held' = NoUnit
    <2>1. TestKeyDown \/ UNCHANGED <<pc, comp, held>>
        BY <1>3, <1>2 DEF DeliveryNext, deliveryVars, Key, Outside, Environment, KeyNotEaten, JamoKeyCommit,
               JamoKeyInline, JamoKeyDemotes, JamoKeyElsewhere, ChordKeyDown, ChordKeyUp, SeqKey, BoundaryKey,
               Erase, RotateKey, PassthroughKey, FocusChange, LangBarSwitch, CompartmentSwitch, Deactivate,
               RunInsert, RunFinalize, Terminated
    <2>2. CASE TestKeyDown
        BY <1>1, <1>2, <2>2 DEF TestKeyDown, Settled, Ending
    <2>3. CASE UNCHANGED <<pc, comp, held>>
        BY <1>1, <1>2, <1>3, <2>3 DEF Alone, Ending
    <2> QED BY <2>1, <2>2, <2>3
<1>4. CASE held' # NoUnit
    <2>1. CASE \/ TestKeyDown \/ KeyNotEaten \/ RunFinalize \/ Terminated \/ UNCHANGED deliveryVars
               \/ \E c \in Ctxs : RunInsert(c)
        <3>1. UNCHANGED <<comp, held>>
            BY <1>2, <2>1 DEF TestKeyDown, KeyNotEaten, RunInsert, RunFinalize, Terminated, deliveryVars
        <3> QED BY <1>1, <1>2, <1>4, <3>1 DEF Alone, Ending
    <2>2. CASE JamoKeyCommit \/ ChordKeyDown \/ SeqKey
        <3>1. comp' = comp /\ pc = "key" /\ (comp = NoComp \/ Ending)
            BY <2>2, NoneOfItsOwn DEF JamoKeyCommit, ChordKeyDown, SeqKey
        <3> QED BY <1>1, <1>2, <3>1 DEF Alone
    <2>3. CASE JamoKeyInline \/ JamoKeyDemotes \/ JamoKeyElsewhere
        BY <1>1, <1>2, <2>3 DEF JamoKeyInline, JamoKeyDemotes, JamoKeyElsewhere, Alone
    <2>4. CASE \/ ChordKeyUp \/ BoundaryKey \/ Erase \/ RotateKey \/ PassthroughKey
               \/ \E c \in Ctxs : FocusChange(c)
               \/ LangBarSwitch \/ CompartmentSwitch \/ Deactivate
        BY <1>4, <2>4 DEF ChordKeyUp, BoundaryKey, Erase, RotateKey, PassthroughKey, FocusChange, LangBarSwitch,
                          CompartmentSwitch, Deactivate, TransitionOutside, Fold
    <2> QED BY <2>1, <2>2, <2>3, <2>4 DEF DeliveryNext, Key, Outside, Environment
<1> QED BY <1>3, <1>4

LEMMA AlwaysAlone == DeliverySpec => []Alone
<1>1. DeliveryInit => Alone
    BY DEF DeliveryInit, Alone, Ending
<1>2. Inv /\ Alone /\ [DeliveryNext]_deliveryVars => Alone'
    BY AloneKept
<1> QED BY <1>1, <1>2, AlwaysInv, PTL DEF DeliverySpec

\* Then nothing becomes of it in a key, nor while a unit is held.
LEMMA AloneRests ==
    ASSUME Inv, Alone, prompt, pc = "key" \/ held # NoUnit, NEW c, NEW text, NEW g, Rest(c, text, g)
    PROVE  ~Ending /\ c = comp /\ text = docs /\ g = gone /\ Remains(c) = NoComp
BY OwnRemains DEF Alone, Rest

\* No syllable is folded, nor dropped where sessions run in time.
Kept(why) == why # "folded" /\ (prompt => why # "dropped")

LEMMA RestKept ==
    ASSUME Inv, Alone, NEW c, NEW text, NEW g, Rest(c, text, g), NEW v \in Units, Kept(gone[v])
    PROVE  g \in [Units -> Reasons \union {""}] /\ Kept(g[v])
<1>1. g \in [Units -> Reasons \union {""}]
    BY RestStands DEF StandingAt, UnitTypesAt
<1>2. CASE g = gone
    BY <1>1, <1>2
<1>3. CASE Ending /\ pc = "key" /\ g = Lost(comp.unit, "dropped")
    <2>1. ~prompt
        BY <1>3 DEF Alone
    <2>2. g[v] \in {gone[v], "dropped"}
        BY <1>3 DEF Lost, Inv, Standing, UnitTypes
    <2> QED BY <1>1, <2>1, <2>2 DEF Kept
<1> QED BY <1>2, <1>3 DEF Rest

LEMMA FoldKept ==
    ASSUME Inv, Alone, SyllableNeverFolded, Moves, prompt' = prompt PROVE SyllableNeverFolded'
<1> SUFFICES ASSUME NEW v \in Begun', Kind(v)' = "syllable" PROVE Kept(gone'[v])
    BY DEF SyllableNeverFolded, Kept
<1>1. UnitTypes /\ Homed /\ UnitTypes' /\ Homed'
    BY MovesStand DEF Inv, Standing
<1>2. Begun \subseteq Units /\ NextUnit \notin Begun /\ NoUnit \notin Units /\ v \in Units
    <2>1. Len(origin') \in Nat /\ Len(origin') <= MaxUnits
        BY <1>1, SeqFacts DEF UnitTypes
    <2>2. v \in Units
        BY <2>1, DeliveryAssumption DEF Begun, Units
    <2> QED BY <1>1, <2>2, NoneIsNone
<1>3. ASSUME v \in Begun => origin'[v] = origin[v] PROVE Kept(gone[v])
    <2>1. CASE v \notin Begun
        <3>1. gone[v] = ""
            BY <1>1, <1>2, <2>1 DEF Homed
        <3> QED BY <3>1 DEF Kept
    <2>2. CASE v \in Begun
        <3>1. Kind(v) = "syllable"
            BY <1>2, <1>3, <2>2 DEF Kind
        <3> QED BY <2>2, <3>1 DEF Kept, SyllableNeverFolded
    <2> QED BY <2>1, <2>2
<1>4. ASSUME origin' = origin PROVE v \in Begun /\ Kind(v) = "syllable" /\ Kept(gone[v])
    <2>1. v \in Begun /\ Kind(v) = "syllable"
        BY <1>4 DEF Begun, Kind
    <2> QED BY <1>3, <1>4, <2>1
<1>5. ASSUME NEW g \in [Units -> Reasons \union {""}], Kept(g[v]), NEW u \in Units, NEW why,
             gone' = [g EXCEPT ![u] = why], u = v => Kept(why)
      PROVE  Kept(gone'[v])
    <2>1. gone'[v] = IF u = v THEN why ELSE g[v]
        BY <1>2, <1>5
    <2> QED BY <1>5, <2>1
<1>6. CASE KeyMove
    <2>1. PICK c, base, g : Rest(c, base, g) /\ \E text, added : KeyTakes(c, g, text, added)
        BY <1>6 DEF KeyMove
    <2>2. gone' = g /\ (UNCHANGED origin \/ Begin)
        BY <2>1 DEF KeyTakes
    <2>3. ASSUME v \in Begun, Begin PROVE origin'[v] = origin[v]
        <3> DEFINE o == [home |-> focus, kind |-> layout]
        <3>1. o \in [home : Ctxs, kind : Layouts]
            BY DEF Inv, Attending, AttendTypes
        <3>2. origin' = Append(origin, o) /\ origin \in Seq([home : Ctxs, kind : Layouts])
              /\ v \in 1 .. Len(origin)
            BY <1>1, <2>3 DEF Begin, Begun, UnitTypes
        <3> HIDE DEF o
        <3> QED BY <3>1, <3>2
    <2>4. Kept(gone[v])
        BY <1>3, <2>2, <2>3
    <2> QED BY <1>2, <2>1, <2>2, <2>4, RestKept
<1>7. CASE QuietMove
    <2>1. PICK c, text, g : Rest(c, text, g) /\ gone' = g /\ origin' = origin
        BY <1>7 DEF QuietMove, Quiet
    <2> QED BY <1>2, <1>4, <2>1, RestKept
<1>8. CASE EndMove
    <2>1. PICK c, text, g : held # NoUnit /\ Rest(c, text, g) /\ Ended(c, text, g)
        BY <1>8 DEF EndMove
    <2>2. origin' = origin
        BY <2>1 DEF Ended
    <2>3. g \in [Units -> Reasons \union {""}] /\ Kept(g[v])
        BY <1>2, <1>4, <2>1, <2>2, RestKept
    <2>4. CASE gone' = g
        BY <2>3, <2>4
    <2>5. ASSUME NEW why \in Reasons \ Wrong(held), gone' = [g EXCEPT ![held] = why] PROVE Kept(gone'[v])
        <3>1. held = v => Kept(why)
            BY <1>4, <2>1, <2>2, <2>5 DEF Wrong, Kept, Alone
        <3>2. held \in Units
            BY <2>1, EngineUnits
        <3> QED BY <1>5, <2>3, <2>5, <3>1, <3>2
    <2>6. CASE pending.unit # NoUnit /\ gone' = [g EXCEPT ![pending.unit] = "replaced"]
        <3>1. pending.unit \in Units /\ Kept("replaced")
            BY <1>1, <2>6, NoneIsNone DEF Kept
        <3> QED BY <1>5, <2>3, <2>6, <3>1
    <2> QED BY <2>1, <2>4, <2>5, <2>6 DEF Ended
<1>9. CASE LandMove
    <2>1. PICK u \in Units : Lands(u) /\ origin' = origin
        BY <1>9 DEF LandMove
    <2>2. gone \in [Units -> Reasons \union {""}] /\ Kept("failed")
        BY <1>1 DEF UnitTypes, Kept
    <2> QED BY <1>4, <1>5, <2>1, <2>2 DEF Lands, Lost
<1>10. CASE Deactivate
    <2>1. origin' = origin /\ (gone'[v] = "deactivated" \/ gone'[v] = gone[v])
        BY <1>2, <1>10 DEF Deactivate
    <2>2. Kept("deactivated")
        BY DEF Kept
    <2> QED BY <1>4, <2>1, <2>2
<1> QED BY <1>6, <1>7, <1>8, <1>9, <1>10 DEF Moves

\* No syllable that the automaton began is lost by a fold, however the focus and the
\* layout change from outside (transition.h:3); nor, where sessions run in time, because
\* another document's composition was still to end.
THEOREM SyllablesAreNotFolded == DeliverySpec => []SyllableNeverFolded
<1>1. DeliveryInit => SyllableNeverFolded
    <2>1. ASSUME DeliveryInit PROVE Begun = {}
        <3>1. origin = <<>>
            BY <2>1 DEF DeliveryInit
        <3>2. Len(<<>>) = 0 /\ 1 .. 0 = {}
            OBVIOUS
        <3> QED BY <3>1, <3>2 DEF Begun
    <2> QED BY <2>1 DEF SyllableNeverFolded
<1>2. Inv /\ Alone /\ SyllableNeverFolded /\ [DeliveryNext]_deliveryVars => SyllableNeverFolded'
    <2> SUFFICES ASSUME Inv, Alone, SyllableNeverFolded, [DeliveryNext]_deliveryVars
                 PROVE  SyllableNeverFolded'
        OBVIOUS
    <2>1. prompt' = prompt
        BY DEF DeliveryNext, deliveryVars
    <2> QED BY <2>1, NextMoves, FoldKept
<1> QED BY <1>1, <1>2, AlwaysInv, AlwaysAlone, PTL DEF DeliverySpec

-----------------------------------------------------------------------------
\* The units of document c that are not in its text yet.
Coming(c) == {u \in Units : \/ Holds(queue, c, u)
                            \/ pending.ctx = c /\ pending.unit = u
                            \/ focus = c /\ held = u
                            \/ comp.ctx = c /\ comp.unit = u}

\* Where sessions are prompt a key meets empty queues, and no slot for its document; no
\* document has two units coming; and a coming unit is later than the text.
Ready == pc = "key" => /\ \A c \in Ctxs : queue[c] = <<>>
                       /\ pending # NoSlot => pending.ctx # focus
OneComing == \A c \in Ctxs : \A u, v \in Coming(c) : u = v
ComingIsLater ==
    \A c \in Ctxs : \A u \in Coming(c) \ stranded : \A i \in DOMAIN docs[c] :
        docs[c][i] \notin stranded => docs[c][i] < u
TextInOrder ==
    \A c \in Ctxs : \A i, j \in DOMAIN docs[c] :
        i < j /\ docs[c][i] \notin stranded /\ docs[c][j] \notin stranded => docs[c][i] < docs[c][j]

OrderInv == prompt => Ready /\ OneComing /\ ComingIsLater /\ TextInOrder

LEMMA OrderIsInOrder ==
    ASSUME UnitTypes, prompt => TextInOrder PROVE InOrder
<1>1. ASSUME NEW c \in Ctxs PROVE DOMAIN docs[c] = 1 .. Len(docs[c])
    BY SeqFacts DEF UnitTypes, Texts
<1> QED BY <1>1 DEF TextInOrder, InOrder

\* A step that only lets a coming unit arrive, or go.
Advances ==
    /\ stranded' = stranded
    /\ \A c \in Ctxs : /\ Coming(c)' \subseteq Coming(c)
                       /\ docs'[c] = docs[c] \/ \E u \in Coming(c) : docs'[c] = Append(docs[c], u)

LEMMA AdvanceKeepsOrder ==
    ASSUME Inv, Inv', OneComing, ComingIsLater, TextInOrder, Advances
    PROVE  OneComing' /\ ComingIsLater' /\ TextInOrder'
<1>1. OneComing'
    BY DEF OneComing, Advances
<1>2. ASSUME NEW c \in Ctxs, NEW i \in DOMAIN docs'[c]
      PROVE  \/ i \in DOMAIN docs[c] /\ docs'[c][i] = docs[c][i]
             \/ /\ docs'[c][i] \in Coming(c)
                /\ \A j \in DOMAIN docs'[c] : j # i => j < i /\ j \in DOMAIN docs[c] /\ docs'[c][j] = docs[c][j]
    <2>1. CASE docs'[c] = docs[c]
        BY <2>1
    <2>2. ASSUME NEW u \in Coming(c), docs'[c] = Append(docs[c], u)
          PROVE  \/ i \in DOMAIN docs[c] /\ docs'[c][i] = docs[c][i]
                 \/ /\ docs'[c][i] \in Coming(c)
                    /\ \A j \in DOMAIN docs'[c] : j # i => j < i /\ j \in DOMAIN docs[c] /\ docs'[c][j] = docs[c][j]
        <3>1. docs[c] \in Seq(Units) /\ u \in Units
            BY DEF Inv, Standing, UnitTypes, Texts, Coming
        <3>2. /\ Len(docs[c]) \in Nat /\ DOMAIN docs[c] = 1 .. Len(docs[c])
              /\ DOMAIN docs'[c] = 1 .. Len(docs[c]) + 1
              /\ \A j \in DOMAIN docs[c] : docs'[c][j] = docs[c][j]
              /\ docs'[c][Len(docs[c]) + 1] = u
            BY <2>2, <3>1
        <3> QED BY <3>2
    <2> QED BY <2>1, <2>2 DEF Advances
<1>3. ComingIsLater'
    <2> SUFFICES ASSUME NEW c \in Ctxs, NEW v \in Coming(c)', v \notin stranded', NEW i \in DOMAIN docs'[c],
                        docs'[c][i] \notin stranded'
                 PROVE  docs'[c][i] < v
        BY DEF ComingIsLater
    <2>1. v \in Coming(c) /\ v \notin stranded /\ docs'[c][i] \notin stranded
        BY DEF Advances
    <2>2. CASE docs'[c][i] \in Coming(c)
        <3>1. docs'[c][i] = v
            BY <2>1, <2>2 DEF OneComing
        <3>2. InText(docs', v)
            BY <3>1 DEF InText, Holds
        <3>3. v \in Begun' /\ v # NoUnit /\ Single(v)'
            <4>1. v \in Units /\ v # NoUnit /\ UnitTypes' /\ Homed'
                BY DEF Coming, Inv, Standing, NoUnit, Units
            <4>2. CASE Holds(queue', c, v)
                BY <4>1, <4>2 DEF Homed, Inv, Standing
            <4>3. CASE pending'.unit = v
                <5>1. pending' # NoSlot
                    BY <4>1, <4>3 DEF NoSlot
                <5> QED BY <4>1, <4>3, <5>1 DEF Homed, Inv, Standing
            <4>4. CASE held' = v
                BY <4>1, <4>4 DEF Homed, Inv, Standing
            <4>5. CASE comp'.unit = v
                <5>1. comp' # NoComp
                    BY <4>1, <4>5 DEF NoComp
                <5> QED BY <4>1, <4>5, <5>1 DEF Homed, Inv, Standing
            <4> QED BY <4>2, <4>3, <4>4, <4>5 DEF Coming
        <3>4. ~InText(queue', v) /\ held' # v /\ comp'.unit # v /\ pending'.unit # v
            BY <3>2, <3>3 DEF Single
        <3> QED BY <3>4 DEF Coming, InText
    <2>3. CASE i \in DOMAIN docs[c] /\ docs'[c][i] = docs[c][i]
        BY <2>1, <2>3 DEF ComingIsLater
    <2> QED BY <1>2, <2>2, <2>3
<1>4. TextInOrder'
    <2> SUFFICES ASSUME NEW c \in Ctxs, NEW i \in DOMAIN docs'[c], NEW j \in DOMAIN docs'[c], i < j,
                        docs'[c][i] \notin stranded', docs'[c][j] \notin stranded'
                 PROVE  docs'[c][i] < docs'[c][j]
        BY DEF TextInOrder
    <2>1. docs'[c][i] \notin stranded /\ docs'[c][j] \notin stranded
        BY DEF Advances
    <2>2. DOMAIN docs'[c] \subseteq Nat
        <3>1. docs'[c] \in Seq(Units)
            BY DEF Inv, Standing, UnitTypes, Texts
        <3> QED BY <3>1
    <2>3. i \in DOMAIN docs[c] /\ docs'[c][i] = docs[c][i]
        BY <1>2, <2>2
    <2>4. CASE j \in DOMAIN docs[c] /\ docs'[c][j] = docs[c][j]
        BY <2>1, <2>3, <2>4 DEF TextInOrder
    <2>5. CASE docs'[c][j] \in Coming(c)
        BY <2>1, <2>3, <2>5 DEF ComingIsLater
    <2> QED BY <1>2, <2>4, <2>5
<1> QED BY <1>1, <1>3, <1>4

\* The moves of a unit that was begun are advances.
LEMMA QuietAdvances ==
    ASSUME Inv, QuietMove PROVE Advances
<1>1. PICK c, text, g : Rest(c, text, g) /\ Quiet(c, text, g)
    BY DEF QuietMove
<1>2. queue' = queue /\ pending' = pending /\ stranded' = stranded /\ comp' \in {comp, NoComp}
    BY <1>1, RestStands DEF Quiet
<1>3. \A u \in Units : held' = u => held = u /\ focus' = focus
    BY <1>1 DEF Quiet, NoUnit, Units
<1>4. \A c0 \in Ctxs : Coming(c0)' \subseteq Coming(c0)
    <2>1. NoComp.unit \notin Units
        BY DEF NoComp, NoUnit, Units
    <2> QED BY <1>2, <1>3, <2>1 DEF Coming, Holds
<1>5. \A d \in Ctxs : docs'[d] = docs[d] \/ \E u \in Coming(d) : docs'[d] = Append(docs[d], u)
    <2>1. CASE docs' = docs
        BY <2>1
    <2>2. CASE Ending /\ docs' = With(docs, comp.ctx, comp.unit)
        <3>1. comp.ctx \in Ctxs /\ comp.unit \in Units /\ comp.unit \in Coming(comp.ctx)
            BY <2>2, EngineUnits DEF Ending, Coming
        <3>2. \A d \in Ctxs : docs'[d] = docs[d] \/ (d = comp.ctx /\ docs'[d] = Append(docs[d], comp.unit))
            BY <2>2, <3>1 DEF With, Inv, Standing, UnitTypes, Texts
        <3> QED BY <3>1, <3>2
    <2> QED BY <1>1, <2>1, <2>2 DEF Rest, Quiet
<1> QED BY <1>2, <1>4, <1>5 DEF Advances

LEMMA EndAdvances ==
    ASSUME Inv, Alone, prompt, EndMove PROVE Advances
<1> DEFINE u == held
           h == origin[held].home
<1>0. Ended(comp, docs, gone) /\ Remains(comp) = NoComp /\ held # NoUnit
    <2>1. PICK c, text, g : held # NoUnit /\ Rest(c, text, g) /\ Ended(c, text, g)
        BY DEF EndMove
    <2> QED BY <2>1, AloneRests
<1>1. UnitTypes /\ Homed /\ NoUnit \notin Units
    BY DEF Inv, Standing, NoUnit, Units
<1>2. u \in Units /\ h \in Ctxs /\ u \in Coming(h)
    BY <1>0, EngineUnits DEF Coming
<1>3. held' \notin Units /\ comp'.unit \notin Units /\ stranded' = stranded
    BY <1>0, <1>1 DEF Ended, NoComp
<1>4. CASE docs' = With(docs, h, u) /\ UNCHANGED <<queue, pending, gone>>
    <2>1. \A c \in Ctxs : docs'[c] = docs[c] \/ (c = h /\ docs'[c] = Append(docs[c], u))
        BY <1>1, <1>2, <1>4 DEF With, UnitTypes, Texts
    <2>2. \A c \in Ctxs : Coming(c)' \subseteq Coming(c)
        BY <1>3, <1>4 DEF Coming, Holds
    <2> QED BY <1>2, <1>3, <2>1, <2>2 DEF Advances
<1>5. CASE queue' = With(queue, h, u) /\ UNCHANGED <<docs, pending, gone>>
    <2>1. \A c \in Ctxs : \A v : Holds(queue', c, v) <=> Holds(queue, c, v) \/ (c = h /\ v = u)
        BY <1>1, <1>2, <1>5, WithText DEF UnitTypes
    <2>2. \A c \in Ctxs : Coming(c)' \subseteq Coming(c)
        <3> SUFFICES ASSUME NEW c \in Ctxs, NEW v \in Coming(c)' PROVE v \in Coming(c)
            OBVIOUS
        <3>1. v \in Units /\ (Holds(queue', c, v) \/ (pending.ctx = c /\ pending.unit = v))
            BY <1>3, <1>5 DEF Coming
        <3>2. CASE c = h /\ v = u
            BY <1>2, <3>2
        <3> QED BY <2>1, <3>1, <3>2 DEF Coming
    <2> QED BY <1>3, <1>5, <2>2 DEF Advances
<1>6. CASE UNCHANGED <<docs, queue, pending>>
    BY <1>3, <1>6 DEF Coming, Holds, Advances
<1>7. CASE pending' = [ctx |-> h, unit |-> u] /\ UNCHANGED <<docs, queue>>
    <2>1. \A c \in Ctxs : Coming(c)' \subseteq Coming(c)
        <3> SUFFICES ASSUME NEW c \in Ctxs, NEW v \in Coming(c)' PROVE v \in Coming(c)
            OBVIOUS
        <3>1. v \in Units /\ (Holds(queue, c, v) \/ (h = c /\ u = v))
            BY <1>3, <1>7 DEF Coming, Holds
        <3>2. CASE c = h /\ v = u
            BY <1>2, <3>2
        <3> QED BY <3>1, <3>2 DEF Coming
    <2> QED BY <1>3, <1>7, <2>1 DEF Advances
<1> QED BY <1>0, <1>4, <1>5, <1>6, <1>7 DEF Ended

LEMMA LandAdvances ==
    ASSUME Inv, NEW u \in Units, Leaves(u), Lands(u), UNCHANGED <<focus, held, comp, origin, stranded>>
    PROVE  Advances
<1> DEFINE h == origin[u].home
<1>1. UnitTypes /\ Homed /\ NoUnit \notin Units
    BY DEF Inv, Standing, NoUnit, Units
<1>2. /\ queue \in Texts
      /\ \A d \in Ctxs : \A v : Holds(queue', d, v) => Holds(queue, d, v)
      /\ pending' = pending \/ pending' = NoSlot
    BY <1>1, LeavesFacts DEF UnitTypes
<1>3. h \in Ctxs /\ u \in Coming(h)
    <2>1. CASE pending.unit = u
        <3>1. pending # NoSlot
            BY <1>1, <2>1, NoneIsNone
        <3> QED BY <1>1, <2>1, <3>1, HomeIn DEF Homed, Coming
    <2>2. CASE InText(queue, u)
        <3>1. PICK c \in Ctxs : Holds(queue, c, u)
            BY <2>2 DEF InText
        <3> QED BY <1>1, <3>1 DEF Homed, Coming
    <2> QED BY <1>1, <2>1, <2>2, LeavesFacts
<1>4. \A c \in Ctxs : docs'[c] = docs[c] \/ (c = h /\ docs'[c] = Append(docs[c], u))
    BY <1>1, <1>3 DEF Lands, With, UnitTypes, Texts
<1>5. \A c \in Ctxs : Coming(c)' \subseteq Coming(c)
    <2> SUFFICES ASSUME NEW c \in Ctxs, NEW v \in Coming(c)' PROVE v \in Coming(c)
        OBVIOUS
    <2>1. v \in Units /\ v # NoUnit
        BY <1>1 DEF Coming
    <2>2. CASE Holds(queue', c, v)
        BY <1>2, <2>1, <2>2 DEF Coming
    <2>3. CASE pending'.ctx = c /\ pending'.unit = v
        <3>1. pending' = pending
            BY <1>2, <2>1, <2>3 DEF NoSlot
        <3> QED BY <2>1, <2>3, <3>1 DEF Coming
    <2>4. CASE (focus' = c /\ held' = v) \/ (comp'.ctx = c /\ comp'.unit = v)
        BY <2>1, <2>4 DEF Coming
    <2> QED BY <2>2, <2>3, <2>4 DEF Coming
<1> QED BY <1>3, <1>4, <1>5 DEF Advances

LEMMA DeactivateAdvances ==
    ASSUME Inv, Deactivate PROVE Advances
<1>1. UnitTypes /\ NoUnit \notin Units
    BY DEF Inv, Standing, NoUnit, Units
<1>2. /\ held' \notin Units /\ comp'.unit \notin Units /\ pending'.unit \notin Units
      /\ queue' = queue /\ stranded' = stranded
      /\ docs' = IF comp = NoComp THEN docs ELSE With(docs, comp.ctx, comp.unit)
    BY <1>1 DEF Deactivate, Fold, NoComp, NoSlot
<1>3. \A c \in Ctxs : Coming(c)' \subseteq Coming(c)
    BY <1>2 DEF Coming, Holds
<1>4. \A c \in Ctxs : docs'[c] = docs[c] \/ \E u \in Coming(c) : docs'[c] = Append(docs[c], u)
    <2>1. CASE comp = NoComp
        BY <1>2, <2>1
    <2>2. CASE comp # NoComp
        <3>1. comp.ctx \in Ctxs /\ comp.unit \in Units /\ comp.unit \in Coming(comp.ctx)
            BY <1>1, <2>2, NoneIsNone DEF Coming
        <3>2. \A c \in Ctxs : docs'[c] = docs[c] \/ (c = comp.ctx /\ docs'[c] = Append(docs[c], comp.unit))
            BY <1>1, <1>2, <2>2, <3>1 DEF With, UnitTypes, Texts
        <3> QED BY <3>1, <3>2
    <2> QED BY <2>1, <2>2
<1> QED BY <1>2, <1>3, <1>4 DEF Advances

\* A key that composes moves the completed unit to the end of the text, and the next
\* one is the latest of all.
LEMMA KeyKeepsOrder ==
    ASSUME Inv, Inv', Ready, OneComing, ComingIsLater, TextInOrder, pc = "key",
           Remains(comp) = NoComp,
           NEW text, NEW added, Adds(docs, text, added), KeyTakes(comp, gone, text, added)
    PROVE  OneComing' /\ ComingIsLater' /\ TextInOrder'
<1>1. UnitTypes /\ Homed /\ AttendTypes /\ UnitTypes' /\ Homed' /\ focus \in Ctxs /\ NoUnit \notin Units
    BY DEF Inv, Standing, Attending, AttendTypes, NoUnit, Units
<1>2. /\ focus' = focus /\ queue' = queue /\ pending' = pending /\ stranded' = stranded \union added
      /\ held' \in Units /\ held' \in {held, NextUnit}
      /\ comp' \in {NoComp, [ctx |-> focus, unit |-> held']}
      /\ docs' = IF held' = held \/ held = NoUnit THEN text ELSE With(text, focus, held)
    BY DEF KeyTakes
<1>3. \A c \in Ctxs : \A v : ~Holds(queue, c, v)
    <2>1. DOMAIN <<>> = {}
        OBVIOUS
    <2> QED BY <2>1 DEF Ready, Holds
<1>4. \A c \in Ctxs : \A v \in Coming(c)' : IF c = focus THEN v = held' ELSE v \in Coming(c)
    <2>1. comp'.unit \in Units => comp'.ctx = focus /\ comp'.unit = held'
        BY <1>1, <1>2 DEF NoComp
    <2>2. pending.unit \in Units => pending.ctx # focus
        BY <1>1, NoneIsNone DEF Ready
    <2>3. ASSUME NEW c \in Ctxs, c = focus, NEW v \in Coming(c)' PROVE v = held'
        BY <1>1, <1>2, <1>3, <2>1, <2>2, <2>3 DEF Coming, Holds
    <2>4. ASSUME NEW c \in Ctxs, c # focus, NEW v \in Coming(c)' PROVE v \in Coming(c)
        BY <1>1, <1>2, <1>3, <2>1, <2>4 DEF Coming, Holds
    <2> QED BY <2>3, <2>4
<1>5. OneComing'
    BY <1>4 DEF OneComing
<1>6. ASSUME held # NoUnit PROVE held \in Coming(focus) /\ held \in Begun /\ held \in Units
    BY <1>1, <1>6, NoneIsNone DEF Coming, UnitTypes, Homed
\* The text: what was there, what was left behind, and the completed unit at the end.
<1>7. ASSUME NEW i \in DOMAIN docs'[focus], docs'[focus][i] \notin stranded'
      PROVE  \/ i \in DOMAIN docs[focus] /\ docs'[focus][i] = docs[focus][i] /\ docs[focus][i] \notin stranded
             \/ /\ held # NoUnit /\ held' = NextUnit /\ held' # held /\ docs'[focus][i] = held
                /\ \A j \in DOMAIN docs'[focus] : j # i => j < i
    <2>1. ASSUME i \in DOMAIN text[focus], docs'[focus][i] = text[focus][i]
          PROVE  i \in DOMAIN docs[focus] /\ docs'[focus][i] = docs[focus][i] /\ docs[focus][i] \notin stranded
        BY <1>2, <1>7, <2>1 DEF Adds
    <2>2. CASE held' = held \/ held = NoUnit
        BY <1>2, <2>1, <2>2
    <2>3. CASE held' # held /\ held # NoUnit
        <3>1. text \in Texts /\ docs' = With(text, focus, held) /\ held' = NextUnit
            BY <1>2, <2>3 DEF Adds
        <3>2. text[focus] \in Seq(Units) /\ docs'[focus] = Append(text[focus], held) /\ held \in Units
            BY <1>1, <1>6, <2>3, <3>1 DEF Texts, With
        <3>3. /\ Len(text[focus]) \in Nat /\ DOMAIN text[focus] = 1 .. Len(text[focus])
              /\ DOMAIN docs'[focus] = 1 .. Len(text[focus]) + 1
              /\ \A j \in DOMAIN text[focus] : docs'[focus][j] = text[focus][j]
              /\ docs'[focus][Len(text[focus]) + 1] = held
            BY <3>2
        <3>4. CASE i \in DOMAIN text[focus]
            BY <2>1, <3>3, <3>4
        <3>5. CASE i = Len(text[focus]) + 1
            BY <2>3, <3>1, <3>3, <3>5
        <3> QED BY <3>3, <3>4, <3>5
    <2> QED BY <2>2, <2>3
<1>8. \A c \in Ctxs \ {focus} : docs'[c] = docs[c]
    BY <1>1, <1>2 DEF Adds, With, Texts
<1>9. \A u \in Begun : u < NextUnit
    BY <1>1, NoneIsNone DEF Begun, NextUnit
<1>10. \A i \in DOMAIN docs[focus] : docs[focus][i] \in Begun
    BY <1>1 DEF Homed, Holds
<1>11. \A i \in DOMAIN docs[focus] :
           docs[focus][i] \notin stranded /\ held # NoUnit /\ held \notin stranded => docs[focus][i] < held
    BY <1>1, <1>6 DEF ComingIsLater
<1>12. ComingIsLater'
    <2> SUFFICES ASSUME NEW c \in Ctxs, NEW v \in Coming(c)', v \notin stranded', NEW i \in DOMAIN docs'[c],
                        docs'[c][i] \notin stranded'
                 PROVE  docs'[c][i] < v
        BY DEF ComingIsLater
    <2>1. CASE c # focus
        BY <1>2, <1>4, <1>8, <2>1 DEF ComingIsLater
    <2>2. CASE c = focus
        <3>1. v = held'
            BY <1>4, <2>2
        <3>2. CASE held' = NextUnit
            <4>1. docs'[focus][i] \in Begun
                BY <1>6, <1>7, <1>10, <2>2
            <4> QED BY <1>9, <2>2, <3>1, <3>2, <4>1
        <3>3. CASE held' = held /\ held' # NextUnit
            <4>1. held # NoUnit /\ held \notin stranded
                BY <1>1, <1>2, <3>1, <3>3
            <4>2. i \in DOMAIN docs[focus] /\ docs'[focus][i] = docs[focus][i] /\ docs[focus][i] \notin stranded
                BY <1>7, <2>2, <3>3
            <4> QED BY <1>11, <2>2, <3>1, <3>3, <4>1, <4>2
        <3> QED BY <1>2, <3>2, <3>3
    <2> QED BY <2>1, <2>2
<1>13. TextInOrder'
    <2> SUFFICES ASSUME NEW c \in Ctxs, NEW i \in DOMAIN docs'[c], NEW j \in DOMAIN docs'[c], i < j,
                        docs'[c][i] \notin stranded', docs'[c][j] \notin stranded'
                 PROVE  docs'[c][i] < docs'[c][j]
        BY DEF TextInOrder
    <2>1. CASE c # focus
        BY <1>2, <1>8, <2>1 DEF TextInOrder
    <2>2. CASE c = focus
        <3>0. i \in Nat /\ j \in Nat
            <4>1. docs'[c] \in Seq(Units)
                BY <1>1 DEF UnitTypes, Texts
            <4> QED BY <4>1
        <3>1. i \in DOMAIN docs[focus] /\ docs'[focus][i] = docs[focus][i] /\ docs[focus][i] \notin stranded
            <4>1. ~(\A k \in DOMAIN docs'[focus] : k # i => k < i)
                BY <2>2, <3>0
            <4> QED BY <1>7, <2>2, <4>1
        <3>2. CASE j \in DOMAIN docs[focus] /\ docs'[focus][j] = docs[focus][j] /\ docs[focus][j] \notin stranded
            BY <1>1, <2>2, <3>1, <3>2 DEF TextInOrder
        <3>3. CASE held # NoUnit /\ docs'[focus][j] = held
            <4>1. held \notin stranded
                BY <1>2, <2>2, <3>3
            <4> QED BY <1>11, <2>2, <3>1, <3>3, <4>1
        <3> QED BY <1>7, <2>2, <3>2, <3>3
    <2> QED BY <2>1, <2>2
<1> QED BY <1>5, <1>12, <1>13

\* Only OnTestKeyDown makes a key, where the queues have run and the slot was tried.
LEMMA ReadyKept ==
    ASSUME Inv, prompt, Ready, [DeliveryNext]_deliveryVars PROVE Ready'
<1> SUFFICES ASSUME pc' = "key" PROVE Ready'
    BY DEF Ready
<1>1. TestKeyDown \/ UNCHANGED <<pc, queue, pending, focus>>
    BY DEF DeliveryNext, deliveryVars, Key, Outside, Environment, KeyNotEaten, JamoKeyCommit, JamoKeyInline,
           JamoKeyDemotes, JamoKeyElsewhere, ChordKeyDown, ChordKeyUp, SeqKey, BoundaryKey, Erase,
           RotateKey, PassthroughKey, FocusChange, LangBarSwitch, CompartmentSwitch, Deactivate, RunInsert, RunFinalize, Terminated
<1>2. CASE TestKeyDown
    <2>1. queue' = queue /\ focus' = focus /\ \A c \in Ctxs : queue[c] = <<>>
        BY <1>2 DEF TestKeyDown, Settled
    <2>2. pending' # NoSlot => pending'.ctx # focus
        <3>1. CASE PendingMatches
            BY <1>2, <3>1 DEF TestKeyDown, SlotAfterRetry
        <3>2. CASE ~PendingMatches
            BY <1>2, <3>2, NoneIsNone DEF TestKeyDown, PendingMatches, Inv, Standing
        <3> QED BY <3>1, <3>2
    <2> QED BY <2>1, <2>2 DEF Ready
<1>3. CASE UNCHANGED <<pc, queue, pending, focus>>
    BY <1>3 DEF Ready
<1> QED BY <1>1, <1>2, <1>3

LEMMA OrderKept ==
    ASSUME Inv, Alone, OrderInv, [DeliveryNext]_deliveryVars PROVE OrderInv'
<1> SUFFICES ASSUME prompt' PROVE Ready' /\ OneComing' /\ ComingIsLater' /\ TextInOrder'
    BY DEF OrderInv
<1>1. prompt
    BY DEF DeliveryNext, deliveryVars
<1>2. Ready /\ OneComing /\ ComingIsLater /\ TextInOrder /\ Inv'
    BY <1>1, NextInv DEF OrderInv
<1>3. Ready'
    BY <1>1, <1>2, ReadyKept
<1>4. Moves
    BY NextMoves
<1>5. CASE KeyMove
    <2>1. PICK c, base, g : /\ pc = "key" /\ Rest(c, base, g)
                            /\ \E text, added : Adds(base, text, added) /\ KeyTakes(c, g, text, added)
        BY <1>5 DEF KeyMove
    <2>2. c = comp /\ base = docs /\ g = gone /\ Remains(comp) = NoComp
        BY <1>1, <2>1, AloneRests
    <2> QED BY <1>2, <1>3, <2>1, <2>2, KeyKeepsOrder
<1>6. CASE QuietMove \/ EndMove \/ LandMove \/ Deactivate
    <2>1. Advances
        BY <1>1, <1>6, QuietAdvances, EndAdvances, LandAdvances, DeactivateAdvances DEF LandMove
    <2> QED BY <1>2, <1>3, <2>1, AdvanceKeepsOrder
<1> QED BY <1>4, <1>5, <1>6 DEF Moves

\* Where sessions run in time, the units of a document stand in the order of typing.
THEOREM UnitsStandInOrder == DeliverySpec => []InOrder
<1>1. DeliveryInit => OrderInv
    <2> SUFFICES ASSUME DeliveryInit PROVE Ready /\ OneComing /\ ComingIsLater /\ TextInOrder
        BY DEF OrderInv
    <2>1. DOMAIN <<>> = {}
        OBVIOUS
    <2>2. \A c \in Ctxs : DOMAIN docs[c] = {} /\ DOMAIN queue[c] = {}
        BY <2>1 DEF DeliveryInit
    <2>3. ASSUME NEW c \in Ctxs, NEW u \in Coming(c) PROVE FALSE
        <3>1. u \in Units /\ NoUnit \notin Units /\ ~Holds(queue, c, u)
            BY <2>2 DEF Coming, Holds, NoUnit, Units
        <3>2. held = NoUnit /\ comp.unit = NoUnit /\ pending.unit = NoUnit
            BY DEF DeliveryInit, NoComp, NoSlot
        <3> QED BY <3>1, <3>2 DEF Coming
    <2> QED BY <2>2, <2>3 DEF DeliveryInit, Ready, OneComing, ComingIsLater, TextInOrder
<1>2. Inv /\ Alone /\ OrderInv /\ [DeliveryNext]_deliveryVars => OrderInv'
    BY OrderKept
<1>3. Inv /\ OrderInv => InOrder
    BY OrderIsInOrder DEF Inv, Standing, OrderInv, InOrder
<1> QED BY <1>1, <1>2, <1>3, AlwaysInv, AlwaysAlone, PTL DEF DeliverySpec

\* Both together, the property of the run: what is typed is kept, in order.
THEOREM UnitsAreKeptInOrder == DeliverySpec => []KeptInOrder
<1>1. InOrder /\ SyllableNeverFolded => KeptInOrder
    BY DEF KeptInOrder
<1> QED BY <1>1, UnitsStandInOrder, SyllablesAreNotFolded, PTL
==============================================================================

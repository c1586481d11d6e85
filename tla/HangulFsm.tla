------------------------------ MODULE HangulFsm ------------------------------
(***************************************************************************)
(* The composition automaton of src/fsm.c (Fsm_ProcessKey, Fsm_Flush,      *)
(* Fsm_Backspace) for any keyboard: the combination tables are CONSTANTS,  *)
(* so the built-in two-set and three-set keyboards and the layout files    *)
(* are its instances.  A character is modelled by the jamos it is made of  *)
(* (a glyph); which code point that is, HangulTables!ComposeHangul says.   *)
(***************************************************************************)
EXTENDS Integers, Sequences

CONSTANTS
    Cho, Jung, Jong,      \* the jamo indexes in use
    Keys,                 \* what a key can stand for: [type, index] records
    DirectJong,           \* TRUE: finals have keys of their own (three-set)
    BuiltinDubeol,        \* TRUE: a final and an initial join by the fixed table
    CombineCho,           \* the rules: a function of two indexes to an index or None
    CombineJung,
    CombineJongPair,      \* final, final
    CombineJong,          \* final, initial (the fixed table)
    ChoToJong,            \* the final an initial can become, or None
    SplitJong,            \* final -> [jong1, cho2]; jong1 = 0 when nothing stays
    Letters,              \* the simple letters jamos are spelled with
    SpellCho, SpellJung, SpellJong

VARIABLES
    ctx,                  \* FsmContext
    res,                  \* FsmResult of the last call
    input                 \* what the last call was asked to do (history)

vars == <<ctx, res, input>>

None == -1

Jamos == [type : {"cho"}, index : Cho] \union [type : {"jung"}, index : Jung]
         \union [type : {"jong"}, index : Jong]

Words == Seq(Letters) \ {<<>>}

ASSUME IndexAssumption ==
    /\ Cho \subseteq Nat /\ Jung \subseteq Nat /\ Jong \subseteq Nat \ {0}
    /\ Keys \subseteq Jamos
    /\ DirectJong \in BOOLEAN /\ BuiltinDubeol \in BOOLEAN

ASSUME TableAssumption ==
    /\ CombineCho \in [Cho \X Cho -> Cho \union {None}]
    /\ CombineJung \in [Jung \X Jung -> Jung \union {None}]
    /\ CombineJongPair \in [Jong \X Jong -> Jong \union {None}]
    /\ CombineJong \in [Jong \X Cho -> Jong \union {None}]
    /\ ChoToJong \in [Cho -> Jong \union {None}]
    /\ SplitJong \in [Jong -> [jong1 : Jong \union {0}, cho2 : Cho]]

ASSUME SpellTypeAssumption ==
    /\ SpellCho \in [Cho -> Words]
    /\ SpellJung \in [Jung -> Words]
    /\ SpellJong \in [Jong -> Words]

(***************************************************************************)
(* The tables spell: a combination is spelled by its two parts, and a      *)
(* final that splits is spelled by what stays and what moves.              *)
(***************************************************************************)
ASSUME SpellAssumption ==
    /\ \A a, b \in Cho : CombineCho[a, b] # None
          => SpellCho[CombineCho[a, b]] = SpellCho[a] \o SpellCho[b]
    /\ \A a, b \in Jung : CombineJung[a, b] # None
          => SpellJung[CombineJung[a, b]] = SpellJung[a] \o SpellJung[b]
    /\ \A a, b \in Jong : CombineJongPair[a, b] # None
          => SpellJong[CombineJongPair[a, b]] = SpellJong[a] \o SpellJong[b]
    /\ \A a \in Jong, c \in Cho : CombineJong[a, c] # None
          => SpellJong[CombineJong[a, c]] = SpellJong[a] \o SpellCho[c]
    /\ \A c \in Cho : ChoToJong[c] # None => SpellJong[ChoToJong[c]] = SpellCho[c]
    /\ \A j \in Jong : LET s == SplitJong[j] IN
          SpellJong[j] = IF s.jong1 = 0 THEN SpellCho[s.cho2]
                         ELSE SpellJong[s.jong1] \o SpellCho[s.cho2]

-----------------------------------------------------------------------------
Glyph(c, v, t) == [cho |-> c, jung |-> v, jong |-> t]

NoGlyph == Glyph(None, None, None)            \* the code's 0

Glyphs == [cho : Cho \union {None}, jung : Jung \union {None}, jong : Jong \union {None}]

Context(s, c, v, t) == [state |-> s, cho |-> c, jung |-> v, jong |-> t]

EmptyContext == Context("EMPTY", None, None, None)     \* Fsm_Init

States == {"EMPTY", "CHO", "JUNG", "CHO_JUNG", "CHO_JUNG_JONG"}

\* Fsm_PeekPreedit, and what Fsm_Flush returns.
PeekPreedit(c) ==
    CASE c.state = "EMPTY" -> NoGlyph
      [] c.state = "CHO"   -> Glyph(c.cho, None, None)
      [] c.state = "JUNG"  -> Glyph(None, c.jung, None)
      [] OTHER             -> Glyph(c.cho, c.jung, c.jong)

Init == /\ ctx = EmptyContext
        /\ res = [commit |-> NoGlyph, preedit |-> NoGlyph, eaten |-> FALSE]
        /\ input = [op |-> "none", word |-> <<>>, final |-> FALSE]

Spell(jamo) == CASE jamo.type = "cho"  -> SpellCho[jamo.index]
                 [] jamo.type = "jung" -> SpellJung[jamo.index]
                 [] OTHER              -> SpellJong[jamo.index]

Asked(jamo) == input' = [op |-> "type", word |-> Spell(jamo), final |-> jamo.type = "jong"]

\* One eaten key: the new context, the committed and the displayed glyph.
Answer(next, commit, shown) ==
    /\ ctx' = next
    /\ res' = [commit |-> commit, preedit |-> shown, eaten |-> TRUE]

-----------------------------------------------------------------------------
(***************************************************************************)
(* fsm_step, one operator per state; i is the index the key stands for.    *)
(***************************************************************************)
\* Mutants: the new initial is not displayed; the committed syllable is lost.
StartCho_ShowsOld(i, commit)    == Answer(Context("CHO", i, None, None), commit, commit)
StartJung_NoCommit(i, commit)   == Answer(Context("JUNG", None, i, None), NoGlyph, Glyph(None, i, None))

StartCho(i, commit)  == Answer(Context("CHO", i, None, None), commit, Glyph(i, None, None))
StartJung(i, commit) == Answer(Context("JUNG", None, i, None), commit, Glyph(None, i, None))

StepEmpty(key) ==
    LET i == key.index IN
    /\ ctx.state = "EMPTY"
    /\ \/ /\ key.type = "cho"
          /\ Answer(Context("CHO", i, ctx.jung, ctx.jong), NoGlyph, Glyph(i, None, None))
       \/ /\ key.type = "jung"
          /\ Answer(Context("JUNG", ctx.cho, i, ctx.jong), NoGlyph, Glyph(None, i, None))
       \/ /\ key.type = "jong"                          \* a final alone goes out as it is
          /\ Answer(ctx, Glyph(None, None, i), NoGlyph)

StepCho(key) ==
    LET i == key.index  c == ctx.cho IN
    /\ ctx.state = "CHO"
    /\ \/ /\ key.type = "cho" /\ CombineCho[c, i] # None
          /\ Answer(Context("CHO", CombineCho[c, i], ctx.jung, ctx.jong), NoGlyph,
                    Glyph(CombineCho[c, i], None, None))
       \/ /\ key.type = "cho" /\ CombineCho[c, i] = None
          /\ Answer(Context("CHO", i, ctx.jung, ctx.jong), Glyph(c, None, None), Glyph(i, None, None))
       \/ /\ key.type = "jung"
          /\ Answer(Context("CHO_JUNG", c, i, ctx.jong), NoGlyph, Glyph(c, i, None))
       \/ /\ key.type = "jong"                          \* the final itself is swallowed
          /\ Answer(EmptyContext, Glyph(c, None, None), NoGlyph)

StepJung(key) ==
    LET i == key.index  v == ctx.jung IN
    /\ ctx.state = "JUNG"
    /\ \/ /\ key.type = "cho"
          /\ StartCho(i, Glyph(None, v, None))
       \/ /\ key.type = "jung" /\ CombineJung[v, i] # None
          /\ Answer(Context("JUNG", ctx.cho, CombineJung[v, i], ctx.jong), NoGlyph,
                    Glyph(None, CombineJung[v, i], None))
       \/ /\ key.type = "jung" /\ CombineJung[v, i] = None
          /\ Answer(Context("JUNG", ctx.cho, i, ctx.jong), Glyph(None, v, None), Glyph(None, i, None))
       \/ /\ key.type = "jong"
          /\ Answer(EmptyContext, Glyph(None, v, None), NoGlyph)

\* The final an initial key is in this state: only two-set keyboards have one.
AsFinal(i) == IF DirectJong THEN None ELSE ChoToJong[i]

StepChoJung(key) ==
    LET i == key.index  c == ctx.cho  v == ctx.jung IN
    /\ ctx.state = "CHO_JUNG"
    /\ \/ /\ key.type = "cho" /\ AsFinal(i) # None
          /\ Answer(Context("CHO_JUNG_JONG", c, v, AsFinal(i)), NoGlyph,
                    Glyph(c, v, AsFinal(i)))
       \/ /\ key.type = "cho" /\ AsFinal(i) = None
          /\ StartCho(i, Glyph(c, v, None))
       \/ /\ key.type = "jung" /\ CombineJung[v, i] # None
          /\ Answer(Context("CHO_JUNG", c, CombineJung[v, i], ctx.jong), NoGlyph,
                    Glyph(c, CombineJung[v, i], None))
       \/ /\ key.type = "jung" /\ CombineJung[v, i] = None
          /\ StartJung(i, Glyph(c, v, None))
       \/ /\ key.type = "jong"
          /\ Answer(Context("CHO_JUNG_JONG", c, v, i), NoGlyph, Glyph(c, v, i))

\* Mutant: the two finals are looked up in the wrong order.
JoinFinal_Swapped(t, i) ==
    IF DirectJong \/ ChoToJong[i] = None THEN None ELSE CombineJongPair[ChoToJong[i], t]

\* The compound final that a final and an initial key make (two-set only).
JoinFinal(t, i) ==
    CASE DirectJong    -> None
      [] ~DirectJong /\ BuiltinDubeol -> CombineJong[t, i]
      [] OTHER         -> IF ChoToJong[i] = None THEN None ELSE CombineJongPair[t, ChoToJong[i]]

\* Mutant: a compound final loses its first half.
Stays_Loses(t) == None

\* What a final leaves in its syllable when a vowel follows it (two-set only).
Stays(t) == IF SplitJong[t].jong1 > 0 THEN SplitJong[t].jong1 ELSE None

StepChoJungJong(key) ==
    LET i == key.index  c == ctx.cho  v == ctx.jung  t == ctx.jong IN
    /\ ctx.state = "CHO_JUNG_JONG"
    /\ \/ /\ key.type = "cho" /\ JoinFinal(t, i) # None
          /\ Answer(Context("CHO_JUNG_JONG", c, v, JoinFinal(t, i)), NoGlyph,
                    Glyph(c, v, JoinFinal(t, i)))
       \/ /\ key.type = "cho" /\ JoinFinal(t, i) = None
          /\ StartCho(i, Glyph(c, v, t))
       \/ /\ key.type = "jung" /\ ~DirectJong           \* the final moves to the new syllable
          /\ Answer(Context("CHO_JUNG", SplitJong[t].cho2, i, None), Glyph(c, v, Stays(t)),
                    Glyph(SplitJong[t].cho2, i, None))
       \/ /\ key.type = "jung" /\ DirectJong
          /\ StartJung(i, Glyph(c, v, t))
       \/ /\ key.type = "jong" /\ CombineJongPair[t, i] # None
          /\ Answer(Context("CHO_JUNG_JONG", c, v, CombineJongPair[t, i]), NoGlyph,
                    Glyph(c, v, CombineJongPair[t, i]))
       \/ /\ key.type = "jong" /\ CombineJongPair[t, i] = None
          /\ Answer(EmptyContext, Glyph(c, v, t), NoGlyph)

ProcessKey(key) ==
    /\ Asked(key)
    /\ StepEmpty(key) \/ StepCho(key) \/ StepJung(key) \/ StepChoJung(key) \/ StepChoJungJong(key)

\* Mutant: an initial or a vowel alone is not committed.
Flush_SyllablesOnly ==
    /\ ctx' = EmptyContext
    /\ res' = [commit |-> IF ctx.state \in {"CHO", "JUNG"} \/ ctx.jong = None THEN NoGlyph
                          ELSE PeekPreedit(ctx),
               preedit |-> NoGlyph, eaten |-> FALSE]
    /\ input' = [op |-> "flush", word |-> <<>>, final |-> FALSE]

\* Fsm_Flush, and a key that is no jamo: the composition is committed, the
\* key itself is left to the application.
Flush ==
    /\ ctx' = EmptyContext
    /\ res' = [commit |-> PeekPreedit(ctx), preedit |-> NoGlyph, eaten |-> FALSE]
    /\ input' = [op |-> "flush", word |-> <<>>, final |-> FALSE]

Erased(next, shown, eaten) ==
    /\ ctx' = next
    /\ res' = [commit |-> NoGlyph, preedit |-> shown, eaten |-> eaten]
    /\ input' = [op |-> "erase", word |-> <<>>, final |-> FALSE]

Backspace ==
    \/ ctx.state = "EMPTY" /\ Erased(ctx, NoGlyph, FALSE)
    \/ ctx.state \in {"CHO", "JUNG"} /\ Erased(EmptyContext, NoGlyph, TRUE)
    \/ /\ ctx.state = "CHO_JUNG"
       /\ Erased(Context("CHO", ctx.cho, None, ctx.jong), Glyph(ctx.cho, None, None), TRUE)
    \/ /\ ctx.state = "CHO_JUNG_JONG"
       /\ Erased(Context("CHO_JUNG", ctx.cho, ctx.jung, None), Glyph(ctx.cho, ctx.jung, None),
                 TRUE)

\* Backspace when the user turned jamo-wise deletion off.
BackspaceWhole == ctx.state # "EMPTY" /\ Erased(EmptyContext, NoGlyph, TRUE)

Next == \/ \E key \in Keys : ProcessKey(key)
        \/ Flush
        \/ Backspace
        \/ BackspaceWhole

Spec == Init /\ [][Next]_vars

-----------------------------------------------------------------------------
TypeOK ==
    /\ ctx \in [state : States, cho : Cho \union {None}, jung : Jung \union {None},
                jong : Jong \union {None}]
    /\ res \in [commit : Glyphs, preedit : Glyphs, eaten : BOOLEAN]
    /\ input \in [op : {"none", "type", "flush", "erase"}, word : Words \union {<<>>},
                  final : BOOLEAN]

(***************************************************************************)
(* The state and the three indexes never disagree: no jamo of an earlier   *)
(* syllable survives the transition that committed it.                     *)
(***************************************************************************)
ContextShape ==
    /\ (ctx.cho # None)  <=> ctx.state \in {"CHO", "CHO_JUNG", "CHO_JUNG_JONG"}
    /\ (ctx.jung # None) <=> ctx.state \in {"JUNG", "CHO_JUNG", "CHO_JUNG_JONG"}
    /\ (ctx.jong # None) <=> ctx.state = "CHO_JUNG_JONG"

(***************************************************************************)
(* What the user sees under composition is what a flush would commit: a    *)
(* focus change or a rolled-back key redraws the composition from          *)
(* Fsm_PeekPreedit and must not change the text.                           *)
(***************************************************************************)
ShownIsPending == res.preedit = PeekPreedit(ctx)

\* The letters of a glyph, in typing order.
Letter(f, i) == IF i = None THEN <<>> ELSE f[i]

SpellGlyph(g) ==
    (Letter(SpellCho, g.cho) \o Letter(SpellJung, g.jung)) \o Letter(SpellJong, g.jong)

(***************************************************************************)
(* The automaton implements the jamo stream: over any typing, every letter *)
(* comes out once and in order, whichever syllable a final ends up in.     *)
(***************************************************************************)
Stream == INSTANCE JamoStream WITH
              pending <- SpellGlyph(PeekPreedit(ctx)),
              emitted <- SpellGlyph(res.commit)

ComposesTheStream == Stream!StreamSpec
=============================================================================

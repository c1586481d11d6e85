------------------------------- MODULE TryBox --------------------------------
(***************************************************************************)
(* The manager's boxes (tray_app.c): the editor of a layout file, and the   *)
(* one-line box below it in which a layout is tried without TSF.  The       *)
(* automaton writes into the box with EM_SETSEL and EM_REPLACESEL; a key it *)
(* leaves alone reaches the box as a character.                             *)
(*                                                                         *)
(* A character is the sequence of the keys it was typed with.  What the     *)
(* automata make of keys is abstracted: two letters make a syllable.        *)
(***************************************************************************)
EXTENDS Integers, Sequences, SequencesExt, FiniteSets

CONSTANTS
    Layouts,   \* kinds a rotation goes through: "hangul", "sequence", "static", "pass"
    MaxKeys,   \* bound: keys that stand in the boxes
    MaxTurns   \* bound: everything else the user does

VARIABLES
    text,      \* of each box
    sel,       \* its selection, [from, to]
    focus,     \* the box with the focus
    target,    \* g_hTarget
    comp,      \* g_compStart, g_compLen
    fsm,       \* keys the Hangul automaton composes
    seq,       \* keys the sequence layout holds back (g_seq)
    layout,    \* the current layout
    file,      \* the layout read from the editor, or "none" (g_tryFile)
    testMode,
    typed,     \* history: letters and digits typed, minus those deleted
    upset,     \* history: a rotation, a change of focus or of settings met a composition
    turns

vars == <<text, sel, focus, target, comp, fsm, seq, layout, file, testMode, typed, upset, turns>>
automata == <<comp, fsm, seq>>
desk == <<focus, target, layout, file, testMode>>

Boxes == {"edit", "try"}
NoComp == [start |-> 0, len |-> 0]
At(from, to) == [from |-> from, to |-> to]

Init ==
    /\ text = [b \in Boxes |-> <<>>]
    /\ sel = [b \in Boxes |-> At(0, 0)]
    /\ focus = "edit" /\ target = "edit"
    /\ comp = NoComp /\ fsm = <<>> /\ seq = <<>>
    /\ layout \in Layouts
    /\ file = "none" /\ testMode = FALSE
    /\ typed = 0 /\ upset = FALSE /\ turns = 0

ActiveLayout == IF target = "try" /\ file # "none" THEN file ELSE layout
Automata(b) == b = "try" \/ testMode

------------------------------------------------------------------------------
(* A box: EM_REPLACESEL on a range, and the caret behind what it wrote.       *)

Clip(n, chars) == IF n > Len(chars) THEN Len(chars) ELSE n

Replaced(chars, from, to, new) ==
    SubSeq(chars, 1, Clip(from, chars)) \o new \o SubSeq(chars, Clip(to, chars) + 1, Len(chars))

\* A wrong one: it writes where the caret is now.
AtTheCaret(commit, preedit) ==
    /\ text' = [text EXCEPT ![target] = Replaced(@, sel[target].from, sel[target].to, commit \o preedit)]
    /\ comp' = [start |-> sel[target].from + Len(commit), len |-> Len(preedit)]
    /\ sel' = [sel EXCEPT ![target] = At(comp'.start, comp'.start + Len(preedit))]

\* The characters take the place of the composition, or of the selection.
ApplyStrings(commit, preedit) ==
    LET from == IF comp.len > 0 THEN comp.start ELSE sel[target].from
        to == IF comp.len > 0 THEN comp.start + comp.len ELSE sel[target].to
        start == from + Len(commit)
    IN  /\ text' = [text EXCEPT ![target] = Replaced(@, from, to, commit \o preedit)]
        /\ comp' = [start |-> start, len |-> Len(preedit)]
        /\ sel' = [sel EXCEPT ![target] = At(start, start + Len(preedit))]

\* The box types the character over its selection.
Default(chars, at, char) ==
    /\ text' = [text EXCEPT ![focus] = Replaced(chars, at.from, at.to, <<char>>)]
    /\ sel' = [sel EXCEPT ![focus] = At(at.from + 1, at.from + 1)]

------------------------------------------------------------------------------
(* What a key makes of the automaton: [commit, preedit, eaten, fsm, seq].     *)

Made(commit, preedit, eaten, f, s) ==
    [commit |-> commit, preedit |-> preedit, eaten |-> eaten, fsm |-> f, seq |-> s]

OfKeys(keys) == IF keys = <<>> THEN <<>> ELSE <<keys>>

HangulKey(k) ==
    CASE k = "j" /\ Len(fsm) < 2 -> Made(<<>>, OfKeys(Append(fsm, k)), TRUE, Append(fsm, k), seq)
      [] k = "j" /\ Len(fsm) = 2 -> Made(OfKeys(fsm), OfKeys(<<k>>), TRUE, <<k>>, seq)
      [] k = "d" -> Made(OfKeys(fsm), <<>>, FALSE, <<>>, seq)
      [] k = "back" -> IF fsm = <<>> THEN Made(<<>>, <<>>, FALSE, <<>>, seq)
                       ELSE Made(<<>>, OfKeys(Front(fsm)), TRUE, Front(fsm), seq)

SequenceKey(k) ==
    CASE k = "j" /\ seq = <<>> -> Made(<<>>, <<<<k>>>>, TRUE, fsm, <<k>>)
      [] k = "j" /\ seq # <<>> -> Made(OfKeys(Append(seq, k)), <<>>, TRUE, fsm, <<>>)
      [] k = "d" -> Made(OfKeys(seq), <<>>, FALSE, fsm, <<>>)
      [] k = "back" -> IF seq = <<>> THEN Made(<<>>, <<>>, FALSE, fsm, <<>>)
                       ELSE Made(<<>>, <<>>, TRUE, fsm, <<>>)

StaticKey(k) ==
    IF k = "j" THEN Made(<<<<k>>>>, <<>>, TRUE, fsm, seq) ELSE Made(<<>>, <<>>, FALSE, fsm, seq)

Step(k) ==
    CASE ActiveLayout = "hangul" -> HangulKey(k)
      [] ActiveLayout = "sequence" -> SequenceKey(k)
      [] ActiveLayout = "static" -> StaticKey(k)
      [] ActiveLayout = "pass" -> Made(<<>>, <<>>, FALSE, fsm, seq)

\* What the automaton made is written if there is anything to write.
Writes(r) == r.eaten \/ r.commit # <<>>

\* What the box holds when a key the automaton left alone reaches it.
AfterStep(r) ==
    IF Writes(r)
    THEN LET from == IF comp.len > 0 THEN comp.start ELSE sel[focus].from
             to == IF comp.len > 0 THEN comp.start + comp.len ELSE sel[focus].to
         IN  [chars |-> Replaced(text[focus], from, to, r.commit),
              at |-> At(from + Len(r.commit), from + Len(r.commit))]
    ELSE [chars |-> text[focus], at |-> sel[focus]]

\* What is composed is selected, and stays so when the composition is forgotten.
Held == comp.len > 0 \/ fsm # <<>> \/ seq # <<>>

Turn == turns < MaxTurns /\ turns' = turns + 1

\* AutomataKeyDown for a letter or a digit.  The WM_CHAR of an eaten key is dropped (s_eatChar).
TypeKey(k) ==
    /\ typed < MaxKeys
    /\ target = focus
    /\ typed' = typed + 1
    /\ IF ~Automata(focus) THEN Default(text[focus], sel[focus], <<k>>) /\ UNCHANGED automata
       ELSE LET r == Step(k)
            IN  /\ IF r.eaten THEN ApplyStrings(r.commit, r.preedit)
                   ELSE /\ Default(AfterStep(r).chars, AfterStep(r).at, <<k>>)
                        /\ comp' = [comp EXCEPT !.len = 0]
                /\ fsm' = r.fsm /\ seq' = r.seq
    /\ UNCHANGED <<desk, upset, turns>>

\* Backspace within a composition; what the box deletes by itself is not modelled.
Backspace ==
    /\ Turn /\ typed > 0
    /\ target = focus /\ Automata(focus)
    /\ LET r == Step("back")
       IN  /\ r.eaten
           /\ ApplyStrings(r.commit, r.preedit)
           /\ fsm' = r.fsm /\ seq' = r.seq
    /\ typed' = typed - 1
    /\ UNCHANGED <<desk, upset>>

\* With Ctrl held only the Hangul automaton is flushed.
FlushOnShortcut ==
    IF fsm # <<>>
    THEN /\ text' = [text EXCEPT ![target] = AfterStep(Made(OfKeys(fsm), <<>>, TRUE, <<>>, seq)).chars]
         /\ sel' = [sel EXCEPT ![target] = AfterStep(Made(OfKeys(fsm), <<>>, TRUE, <<>>, seq)).at]
         /\ comp' = [comp EXCEPT !.len = 0] /\ fsm' = <<>>
         /\ UNCHANGED seq
    ELSE UNCHANGED <<text, sel, automata>>

\* A shortcut that writes nothing, such as Ctrl+C.
Shortcut ==
    /\ Turn /\ target = focus /\ Automata(focus)
    /\ FlushOnShortcut
    /\ UNCHANGED <<desk, typed, upset>>

\* The rotation key and Layout / Next: what was composed stays selected, and the held-back keys
\* of a sequence stay held back.
RotateLayout ==
    /\ Turn
    /\ layout' \in Layouts \ {layout}
    /\ comp' = [comp EXCEPT !.len = 0] /\ fsm' = <<>>
    /\ upset' = (upset \/ Held)
    /\ UNCHANGED <<text, sel, seq, focus, target, file, testMode, typed>>

\* Another window of ours changes the current layout, and nothing is folded.
SettingsApply ==
    /\ Turn
    /\ layout' \in Layouts \ {layout}
    /\ upset' = (upset \/ Held)
    /\ UNCHANGED <<text, sel, automata, focus, target, file, testMode, typed>>

\* WM_SETFOCUS of a box.
SetFocus(b) ==
    /\ Turn
    /\ b # focus /\ focus' = b /\ target' = b
    /\ IF target # b
       THEN /\ comp' = [comp EXCEPT !.len = 0] /\ fsm' = <<>>
            /\ upset' = (upset \/ Held)
       ELSE UNCHANGED <<comp, fsm, upset>>
    /\ UNCHANGED <<text, sel, seq, layout, file, testMode, typed>>

\* The mouse puts the caret somewhere; the composition does not hear of it.
Click ==
    /\ Turn
    /\ \E n \in 0 .. Len(text[focus]) : sel' = [sel EXCEPT ![focus] = At(n, n)]
    /\ UNCHANGED <<text, automata, desk, typed, upset>>

SetTestMode ==
    /\ Turn
    /\ testMode' = ~testMode
    /\ comp' = [comp EXCEPT !.len = 0] /\ fsm' = <<>>
    /\ focus' = "edit" /\ target' = IF target = "edit" THEN target ELSE "edit"
    /\ upset' = (upset \/ Held)
    /\ UNCHANGED <<text, sel, seq, layout, file, typed>>

\* The keys a box holds.
KeysIn(chars) == FoldLeft(LAMBDA n, char : n + Len(char), 0, chars)

\* Tools / Try this file: the box starts anew, and nothing is held back.
TryThisFile(kind) ==
    /\ Turn
    /\ file' = kind
    /\ text' = [text EXCEPT !["try"] = <<>>]
    /\ sel' = [sel EXCEPT !["try"] = At(0, 0)]
    /\ typed' = typed - KeysIn(text["try"])
    /\ focus' = "try" /\ target' = "try"
    /\ comp' = [comp EXCEPT !.len = 0] /\ fsm' = <<>> /\ seq' = <<>>
    /\ upset' = (upset \/ (target = "edit" /\ Held))
    /\ UNCHANGED <<layout, testMode>>

Next ==
    \/ \E k \in {"j", "d"} : TypeKey(k)
    \/ Backspace \/ Shortcut \/ RotateLayout \/ SettingsApply \/ Click \/ SetTestMode
    \/ \E b \in Boxes : SetFocus(b)
    \/ \E kind \in Layouts : TryThisFile(kind)

Spec == Init /\ [][Next]_vars

------------------------------------------------------------------------------

\* Every key that was typed into a box stands there once, in a character or in the composition,
\* wherever the caret was put meanwhile -- unless a composition was forgotten in its middle.
TypedIsThere == ~upset => KeysIn(text["edit"]) + KeysIn(text["try"]) = typed
==============================================================================

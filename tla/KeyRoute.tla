------------------------------- MODULE KeyRoute -------------------------------
(***************************************************************************)
(* The way of a key through the key sink (text_service.c).  TSF asks        *)
(* OnTestKeyDown first; only a key that it claims comes to OnKeyDown, every *)
(* other one goes to the application.  A preserved key comes to neither, it *)
(* has a callback of its own.  The key-ups finish the chords: the           *)
(* simultaneous typing of chord.c, and the chord layout that may stand in   *)
(* front of a Hangul or a sequence layout.  What a syllable is made of and  *)
(* where it goes belongs to other modules; here a text is the moment its    *)
(* oldest key was struck, and 0 when there is none.                         *)
(***************************************************************************)
EXTENDS Naturals, FiniteSets

CONSTANTS
    Letters,     \* keys that make letters, each one of its own place in a syllable
    FrontKeys,   \* the letters that belong to the chord layout in front
    Strokes,     \* what is struck: records [vk, mods]
    Shortcuts,   \* the settings: records [fn, vk, mods]
    Rotation,    \* the layout after each layout; their kinds are their names
    MaxEvents,   \* bound on the keys and the other events
    MaxLost      \* bound on the key-ups that never arrive

KeyRouteAssumption ==
    /\ IsFiniteSet(Letters) /\ FrontKeys \subseteq Letters
    /\ DOMAIN Rotation \subseteq {"pass", "static", "hangul", "front", "moachigi", "seqfront"}
    /\ Rotation \in [DOMAIN Rotation -> DOMAIN Rotation]
    /\ \A a, b \in Shortcuts : a.vk = b.vk /\ a.mods = b.mods => a.fn = b.fn
    /\ \A sc \in Shortcuts : sc.fn \in {"settings", "code", "passthrough", "hanja", "rotate"}
    /\ {MaxEvents, MaxLost} \subseteq Nat

VARIABLES
    svc,        \* the service, and the moment of the last thing the application got
    preserved,  \* the shortcuts that the keystroke manager keeps for us
    pressed,    \* the letters that are physically down
    ghosts,     \* those of the chord whose key-up was lost
    clock, lost

vars == <<svc, preserved, pressed, ghosts, clock, lost>>

NoChord == [keys |-> {}, active |-> 0, jamo |-> {}]

------------------------------------------------------------------------------
(* Keys and shortcuts *)

IsModifierOrLock(vk) == vk \in {"shift", "ralt", "hangul", "hanja"}
Widens(s, vk) == s.fullWidth /\ vk \in Letters \cup {"space"}
VKToModBit(vk) == CASE vk = "shift" -> {"shift"} [] vk = "ralt" -> {"alt"} [] OTHER -> {}
HasCtrlAltWin(k) == k.mods \cap {"ctrl", "alt", "win"} # {}

Config_IsShortcut(fn, k) ==
    \E sc \in Shortcuts : sc.fn = fn /\ sc.vk = k.vk /\ sc.mods = k.mods \ VKToModBit(k.vk)

\* The key that asks for a conversion makes no text by itself, as the default one: with
\* nothing to convert it goes on to the application, the syllable still composed.
HanjaMakesNoText == \A k \in Strokes : Config_IsShortcut("hanja", k) => IsModifierOrLock(k.vk)

\* PreservedMap_Build, for the commands that do not depend on the text.
Preservable(sc) ==
    sc.fn # "hanja" /\ "win" \notin sc.mods /\ VKToModBit(sc.vk) = {}

------------------------------------------------------------------------------
(* What reaches the application.  A step yields the next service.            *)

Commit(s, moment) == [s EXCEPT !.last = IF moment > @ THEN moment ELSE @]
Flush(s) == [Commit(s, s.comp) EXCEPT !.comp = 0]
FlushSeq(s) == [Commit(s, s.reading) EXCEPT !.reading = 0]

ResetComposition(s) == [s EXCEPT !.comp = 0, !.hit = NoChord]

FoldInput(s) ==
    [ResetComposition(s) EXCEPT !.front = {}, !.reading = 0, !.popup = "none"]

Transition(s, why) ==
    FoldInput(IF why = "key" THEN IF s.layout = "seqfront" THEN FlushSeq(s) ELSE Flush(s)
              ELSE Flush(FlushSeq(s)))

SetPassthrough(s, on) == [Transition(s, "external") EXCEPT !.passthrough = on]
RotateLayoutFromKey(s) == [Transition(s, "key") EXCEPT !.layout = Rotation[@]]

\* The code input opens where it can be drawn.
OpenCodeInput(s) == {s, [s EXCEPT !.popup = "code"]}

\* The Hanja key: a list over the composed syllable or over the text before the
\* caret, or nothing that could be converted.
Hanja(s) == {s, [s EXCEPT !.popup = "list"], [s EXCEPT !.popup = "helper"],
             [Flush(s) EXCEPT !.popup = "list"]}

\* A window has the keys: it stays, closes, or puts what was chosen in place of
\* the syllable.
InPopup(s, n) ==
    {s, [s EXCEPT !.popup = "none"],
     [Commit(Flush(s), IF s.popup = "code" THEN n ELSE 0) EXCEPT !.popup = "none"]}

------------------------------------------------------------------------------
(* Chords *)

\* A wrong healing: the key is counted again.
CountedAgain(h, k) == [h EXCEPT !.keys = @ \ {k}]

\* A key that is down here and not physically: its key-up was lost.
Healed(h, k) ==
    [h EXCEPT !.keys = @ \ {k}, !.active = IF @ > 0 THEN @ - 1 ELSE 0]

Chord_KeyDown(h, k, repeat) ==
    IF k \in h.keys /\ repeat THEN h
    ELSE LET c == IF k \in h.keys THEN Healed(h, k) ELSE h
         IN  [keys |-> c.keys \cup {k}, active |-> c.active + 1, jamo |-> c.jamo \cup {k}]

Chord_KeyUp(h, k) ==
    LET left == IF h.active > 0 THEN h.active - 1 ELSE 0
    IN  IF left = 0 THEN NoChord ELSE [h EXCEPT !.keys = @ \ {k}, !.active = left]

\* A letter for the automaton: it joins the syllable or ends it and begins one.
FsmLetter(s, n) ==
    {[s EXCEPT !.comp = IF @ = 0 THEN n ELSE @], [Flush(s) EXCEPT !.comp = n]}

\* A wrong sink: the text goes in past the syllable.
TextSink_Past(s, n) == Commit(s, n)

\* HangulTextSink and HangulKeySink: what the chord puts out or sends comes
\* after the syllable; a Backspace works in it.
HangulTextSink(s, n) == Commit(Flush(s), n)
HangulKeySink(s, vk, n) ==
    IF vk = "back" /\ s.comp # 0 THEN {s, [s EXCEPT !.comp = 0]}
    ELSE {Commit(Flush(s), n)}

\* The last key of a chord is up: its entry is a symbol, a text, a key or none.
CompletePending(s, n) ==
    IF s.layout = "front"
    THEN {s, HangulTextSink(s, n)} \cup FsmLetter(s, n)
         \cup HangulKeySink(s, "back", n) \cup HangulKeySink(s, "enter", n)
    ELSE {s, Commit(s, n), [s EXCEPT !.reading = IF @ = 0 THEN n ELSE @]}

------------------------------------------------------------------------------
(* OnTestKeyDown *)

Composing(s) == s.comp # 0 \/ s.hit.active > 0

IsCommand(k) ==
    \E fn \in {"settings", "code", "passthrough", "hanja", "rotate"} : Config_IsShortcut(fn, k)

\* A wrong claim: the key that ends the syllable is left to the application.
LettersOnly(s, vk) ==
    CASE s.layout \in {"hangul", "front", "moachigi"} ->
            (vk \in {"back", "esc"} /\ Composing(s)) \/ vk \in Letters
      [] s.layout \in {"static", "pass"} -> (s.layout = "static" /\ vk \in Letters) \/ Widens(s, vk)
      [] s.layout = "seqfront" -> vk \in FrontKeys

LayoutWants(s, vk) ==
    CASE s.layout = "static" -> vk \in Letters \/ Widens(s, vk)
      [] s.layout = "pass"   -> Widens(s, vk)
      [] s.layout \in {"hangul", "front", "moachigi"} ->
            \/ vk \in {"back", "esc"} /\ Composing(s)
            \/ s.comp # 0 /\ ~IsModifierOrLock(vk)
            \/ vk \in Letters
      [] s.layout = "seqfront" -> vk \in FrontKeys

TestKeyDown(s, k) ==
    /\ ~s.disabled
    /\ IF s.passthrough THEN Config_IsShortcut("passthrough", k)
       ELSE \/ s.popup # "none"
            \/ IsCommand(k)
            \/ ~HasCtrlAltWin(k) /\ LayoutWants(s, k.vk)

\* A key for the application commits first: the syllable always, the reading
\* only while a part of it is not converted yet.
FlushInTest(s, k) ==
    IF s.disabled \/ s.passthrough \/ s.popup # "none" \/ IsCommand(k) \/ ~HasCtrlAltWin(k)
    THEN {s} ELSE {Flush(s), FlushSeq(Flush(s))}

------------------------------------------------------------------------------
(* OnKeyDown: the set of what may come of it *)

Taken(states)  == {[s |-> t, eaten |-> TRUE] : t \in states}
Passed(states) == {[s |-> t, eaten |-> FALSE] : t \in states}

FrontDown(s, vk) == Taken({[s EXCEPT !.front = @ \cup {vk}]})

MoachigiDown(s, vk, repeat) ==
    CASE vk = "back" /\ Composing(s) -> Taken({ResetComposition(s)})
      [] vk \in Letters -> Taken({[s EXCEPT !.hit = Chord_KeyDown(@, vk, repeat)]})
      [] OTHER -> Passed({s})

HangulDown(s, vk, n) ==
    CASE vk = "back" /\ s.comp # 0 -> Taken({s, [s EXCEPT !.comp = 0]})
      [] vk \in FrontKeys /\ s.layout = "front" -> FrontDown(s, vk)
      [] vk \in Letters /\ (s.layout = "front" => vk \notin FrontKeys) -> Taken(FsmLetter(s, n))
      [] vk \notin Letters \cup {"back"} /\ s.comp # 0 /\ ~IsModifierOrLock(vk) ->
            Taken({Commit(Flush(s), n)})
      [] OTHER -> Passed({s})

LayoutDown(s, vk, n, repeat) ==
    CASE s.layout = "static" ->
            IF vk \in Letters \/ Widens(s, vk)
            THEN Taken({Commit(s, n)}) ELSE Passed({s})
      [] s.layout = "pass" ->
            IF Widens(s, vk) THEN Taken({Commit(s, n)}) ELSE Passed({Flush(s)})
      [] s.layout = "seqfront" -> IF vk \in FrontKeys THEN FrontDown(s, vk) ELSE Passed({s})
      [] vk = "esc" /\ Composing(s) /\ s.layout \in {"hangul", "front", "moachigi"} ->
            Taken({ResetComposition(s)})
      [] s.layout = "moachigi" /\ (vk # "esc" \/ ~Composing(s)) -> MoachigiDown(s, vk, repeat)
      [] s.layout \in {"hangul", "front"} /\ (vk # "esc" \/ ~Composing(s)) ->
            HangulDown(s, vk, n)

\* A Hanja key that finds nothing to convert goes on to the application, with the
\* syllable ended when it stood in the document.
Commanded(s, k, n, repeat) ==
    LET Is(fn) == Config_IsShortcut(fn, k) IN
    CASE Is("settings") -> Taken({s})
      [] Is("passthrough") -> Taken({SetPassthrough(Flush(s), TRUE)})
      [] Is("code") -> Taken(OpenCodeInput(Flush(s)))
      [] Is("hanja") -> Taken(Hanja(s)) \cup Passed({s, Flush(s)})
      [] Is("rotate") -> Taken({RotateLayoutFromKey(s)})
      [] ~IsCommand(k) /\ HasCtrlAltWin(k) -> Passed({Flush(s)})
      [] OTHER -> LayoutDown(s, k.vk, n, repeat)

KeyDown(s, k, n, repeat) ==
    IF s.disabled THEN Passed({s})
    ELSE IF s.passthrough
         THEN IF Config_IsShortcut("passthrough", k) THEN Taken({SetPassthrough(s, FALSE)})
              ELSE Passed({s})
    ELSE IF s.popup \in {"code", "list"} THEN Taken(InPopup(s, n))
    ELSE IF s.popup = "helper"
         THEN Taken(InPopup(s, n)) \cup Commanded([s EXCEPT !.popup = "none"], k, n, repeat)
    ELSE Commanded(s, k, n, repeat)

------------------------------------------------------------------------------
(* The events *)

Happens == clock < MaxEvents /\ clock' = clock + 1

ToApplication(s, k, n) == IF IsModifierOrLock(k.vk) THEN s ELSE Commit(s, n)

IsPreserved(k) ==
    \E sc \in preserved : sc.vk = k.vk /\ sc.mods = k.mods

\* A key goes down, or repeats; the keystroke manager looks at its own keys first.
Press(k) ==
    /\ Happens
    /\ ~IsPreserved(k)
    /\ LET n == clock + 1
           repeat == k.vk \in pressed
       IN  \E t \in FlushInTest(svc, k) :
             IF TestKeyDown(svc, k)
             THEN \E r \in KeyDown(t, k, n, repeat) :
                     svc' = IF r.eaten THEN r.s ELSE ToApplication(r.s, k, n)
             ELSE svc' = ToApplication(t, k, n)
    /\ pressed' = pressed \cup ({k.vk} \cap Letters)
    /\ ghosts' = (ghosts \ {k.vk}) \cap svc'.hit.keys
    /\ UNCHANGED <<preserved, lost>>

\* The key-up ends a chord with its last key, whatever else is going on.
Release(k) ==
    /\ k \in pressed /\ Happens
    /\ pressed' = pressed \ {k}
    /\ IF k \in svc.hit.keys
       THEN LET h == Chord_KeyUp(svc.hit, k)
            IN  svc' = [Commit(svc, IF h = NoChord THEN clock + 1 ELSE 0) EXCEPT !.hit = h]
       ELSE IF k \notin svc.front THEN UNCHANGED svc
       ELSE LET up == [svc EXCEPT !.front = @ \ {k}]
            IN  IF up.front # {} THEN svc' = up ELSE svc' \in CompletePending(up, clock + 1)
    /\ ghosts' = ghosts \cap svc'.hit.keys
    /\ UNCHANGED <<preserved, lost>>

LoseRelease(k) ==
    /\ k \in pressed /\ lost < MaxLost
    /\ pressed' = pressed \ {k}
    /\ ghosts' = ghosts \cup ({k} \cap svc.hit.keys)
    /\ lost' = lost + 1
    /\ UNCHANGED <<svc, preserved, clock>>

\* OnPreservedKey, which asks neither for the context nor for a window.
PreservedKey(sc) ==
    /\ sc \in preserved /\ Happens
    /\ CASE sc.fn = "settings" -> UNCHANGED svc
         [] sc.fn = "code" -> svc' \in OpenCodeInput(Flush(svc))
         [] sc.fn = "passthrough" -> svc' = SetPassthrough(Flush(svc), ~svc.passthrough)
         [] sc.fn = "rotate" -> svc' = RotateLayoutFromKey(svc)
    /\ ghosts' = ghosts \cap svc'.hit.keys
    /\ UNCHANGED <<preserved, pressed, lost>>

\* KES_OnSetFocus: the direct input follows what another process has set.
FocusOfKeys ==
    /\ Happens
    /\ \E on \in BOOLEAN : svc' = [Transition(svc, "focus") EXCEPT !.passthrough = on]
    /\ ghosts' = {}
    /\ UNCHANGED <<preserved, pressed, lost>>

\* TMES_OnSetFocus: the new context may have the keyboard switched off.
FocusOfDocument ==
    /\ Happens
    /\ \E off \in BOOLEAN : svc' = Transition([svc EXCEPT !.disabled = off], "focus")
    /\ ghosts' = {}
    /\ UNCHANGED <<preserved, pressed, lost>>

------------------------------------------------------------------------------

Init ==
    /\ svc \in [layout : DOMAIN Rotation, fullWidth : BOOLEAN, passthrough : {FALSE},
                disabled : {FALSE}, popup : {"none"}, comp : {0}, reading : {0}, hit : {NoChord}, front : {{}},
                last : {0}]
    /\ preserved \in {{sc \in Shortcuts : on /\ Preservable(sc)} : on \in BOOLEAN}
    /\ pressed = {} /\ ghosts = {} /\ clock = 0 /\ lost = 0

Next ==
    \/ \E k \in Strokes : Press(k)
    \/ \E k \in Letters : Release(k) \/ LoseRelease(k)
    \/ \E sc \in Shortcuts : PreservedKey(sc)
    \/ FocusOfKeys \/ FocusOfDocument

Spec == Init /\ [][Next]_vars

------------------------------------------------------------------------------
(* Properties *)

(* The two halves of the sink agree: whatever OnKeyDown would take, in any  *)
(* state, OnTestKeyDown claims.  A key that it does not claim never comes   *)
(* to OnKeyDown (text_service.c:1269).                                       *)
TestForeseesDown ==
    \A k \in Strokes : \A t \in FlushInTest(svc, k) :
        (\E r \in KeyDown(t, k, clock + 1, k.vk \in pressed) : r.eaten) => TestKeyDown(svc, k)

(* Nothing struck later reaches the application before the syllable that is *)
(* being composed: neither a shortcut, a boundary key or a preserved key,   *)
(* nor what the chord in front puts out or sends.                            *)
NothingOvertakes == svc.comp # 0 => svc.last < svc.comp

(* The keys of a syllable struck at once are counted right, and when all of *)
(* them are up nothing of it is left: a key stays behind only with a lost   *)
(* key-up, and until it is struck again (chord.c:42-52).                     *)
StruckAtOnceEnds ==
    /\ svc.hit.active = Cardinality(svc.hit.keys)
    /\ svc.hit.jamo # {} => svc.hit.keys # {}
    /\ svc.hit.keys \subseteq pressed \cup ghosts

(* The three together: what the key sink owes the keys.                      *)
KeysKeepTheirWay == TestForeseesDown /\ NothingOvertakes /\ StruckAtOnceEnds
==============================================================================

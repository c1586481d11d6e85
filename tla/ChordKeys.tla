------------------------------ MODULE ChordKeys ------------------------------
(***************************************************************************)
(* The chord recogniser (chord_layout.c) and its host in the key sink and   *)
(* the tick timer (text_service.c).  Keys pressed together form a chord;    *)
(* when all are up again its tap action runs, or its long-press action;     *)
(* a sustained hold (a layer, modifiers, a moving pointer) begins while     *)
(* they are down and ends when they are released.  kb is the recogniser's   *)
(* context, app what the target application believes is held down by the    *)
(* synthetic input.  A key-up may get lost; the key is healed when it is    *)
(* pressed again.                                                           *)
(***************************************************************************)
EXTENDS Integers, Sequences, FiniteSets

CONSTANTS
    Keys,        \* the keys of the layout, one bit each
    Chords,      \* the table: records [mask, layer, hold, act, mods, to, oneshot, steps]
    ComboTerm,   \* a larger chord is waited for this long
    HoldTerm,    \* from here on a press is a long one
    OnInterrupt, \* the hold policy: another key confirms a hold before HoldTerm
    MacroMax,    \* the time a macro may take in all
    MaxLost      \* bound on the key-ups that never arrive

ChordKeysAssumption ==
    /\ IsFiniteSet(Keys) /\ IsFiniteSet(Chords)
    /\ {ComboTerm, HoldTerm, MacroMax, MaxLost} \subseteq Nat
    /\ OnInterrupt \in BOOLEAN
    /\ \A c \in Chords : c.mask # {} /\ c.mask \subseteq Keys

VARIABLES
    kb,       \* ChordKbContext
    app,      \* the modifiers and the mouse button the application sees held
    pressed,  \* the keys that are physically down
    timer,    \* the tick timer is set
    lost

vars == <<kb, app, pressed, timer, lost>>

Base == "base"
None == "none"
Quiet == [steps |-> <<>>, mods |-> {}, wait |-> 0, ran |-> 0]

ChordKb_Init ==
    [role |-> [k \in Keys |-> "up"], mask |-> {}, pendKeys |-> 0, age |-> 0, closed |-> FALSE,
     holdKeys |-> 0, momentary |-> None, heldMod |-> {}, layer |-> Base,
     oneLayer |-> None, oneMod |-> {}, moving |-> {}, drag |-> FALSE, macro |-> Quiet]

In(role) == {k \in Keys : kb.role[k] = role}

------------------------------------------------------------------------------
(* Looking up *)

EffLayer(c) == IF c.momentary # None THEN c.momentary
               ELSE IF c.oneLayer # None THEN c.oneLayer ELSE c.layer

FindEntry(c, hold) ==
    {e \in Chords : e.mask = c.mask /\ e.layer = EffLayer(c) /\ e.hold = hold}

IsSustained(e) == e.act \in {"layer", "mod", "move"}

AnyChordCovers(c, mask) == \E e \in Chords : e.layer = EffLayer(c) /\ mask \subseteq e.mask

------------------------------------------------------------------------------
(* Actions.  A step yields the new context and the new view of the          *)
(* application, as a record [kb, app].                                      *)

Spent(c) == [c EXCEPT !.oneMod = {}, !.oneLayer = None]

MacroCancel(s) ==
    [kb  |-> [s.kb EXCEPT !.macro = Quiet],
     app |-> [s.app EXCEPT !.mods = @ \ s.kb.macro.mods]]

\* The steps up to the next wait or the end; a key with modifiers presses and
\* releases them around itself.
RECURSIVE MacroRun(_)
MacroRun(s) ==
    LET m == s.kb.macro
        st == Head(m.steps)
        rest == [s EXCEPT !.kb.macro.steps = Tail(@)]
    IN  IF m.ran > MacroMax \/ m.steps = <<>> THEN MacroCancel(s)
        ELSE CASE st.kind = "with" ->
                    MacroRun([rest EXCEPT !.kb.macro.mods = @ \cup st.mods,
                                          !.app.mods = @ \cup st.mods])
               [] st.kind = "endwith" ->
                    MacroRun([rest EXCEPT !.kb.macro.mods = {}, !.app.mods = @ \ m.mods])
               [] st.kind = "key"  -> MacroRun([rest EXCEPT !.app.mods = @ \ st.mods])
               [] st.kind = "wait" -> [rest EXCEPT !.kb.macro.wait = st.ms]

MacroStart(s, steps) ==
    MacroRun([MacroCancel(s) EXCEPT !.kb.macro = [Quiet EXCEPT !.steps = steps]])

\* ExecChord.  What a text or a symbol puts where is Delivery's matter.
ExecChord(s, e) ==
    LET spent == [s EXCEPT !.kb = Spent(@)] IN
    CASE e.act = "text" -> spent
      [] e.act = "key"  -> [spent EXCEPT !.app.mods = @ \ (e.mods \cup s.kb.oneMod)]
      [] e.act = "mod"  -> [s EXCEPT !.kb.oneMod = @ \cup e.mods]
      [] e.act = "layer" -> [s EXCEPT !.kb.oneLayer = e.to]
      [] e.act = "toggle" ->
            [s EXCEPT !.kb.layer = IF @ = e.to THEN Base ELSE e.to, !.kb.oneLayer = None]
      [] e.act = "move" -> spent
      [] e.act = "drag" ->
            [spent EXCEPT !.kb.drag = ~@, !.app.button = ~s.kb.drag]
      [] e.act = "cancel" ->
            [MacroCancel(spent) EXCEPT !.kb.moving = {}, !.kb.drag = FALSE,
                                       !.app.button = @ /\ ~s.kb.drag]
      [] e.act = "macro" -> MacroStart(spent, e.steps)

NoPending(c) == [c EXCEPT !.mask = {}, !.pendKeys = 0, !.closed = FALSE]

\* Every key of the chord is up, or a closed chord gives way to the next one.
CompletePending(s) ==
    LET holds == {e \in FindEntry(s.kb, TRUE) : ~IsSustained(e)}
        taps  == FindEntry(s.kb, FALSE)
        use   == IF holds # {} /\ (s.kb.age >= HoldTerm \/ taps = {}) THEN holds ELSE taps
        done  == IF use = {} THEN [s EXCEPT !.kb.oneLayer = None]
                 ELSE ExecChord(s, CHOOSE e \in use : TRUE)
    IN  [done EXCEPT !.kb = NoPending(@)]

\* The keys of the chord become the keys of the hold.
ConfirmSustainedHold(s, e) ==
    LET c == s.kb
        mine == {k \in Keys : c.role[k] = "pend"}
        held == [s EXCEPT !.kb.role = [k \in Keys |-> IF k \in mine THEN "hold" ELSE c.role[k]],
                          !.kb.holdKeys = c.pendKeys, !.kb.mask = {}, !.kb.pendKeys = 0,
                          !.kb.closed = FALSE]
    IN  CASE e.act = "move"  -> [held EXCEPT !.kb.moving = @ \cup mine]
          [] e.act = "layer" -> IF e.oneshot THEN [held EXCEPT !.kb.oneLayer = e.to]
                                ELSE [held EXCEPT !.kb.momentary = e.to]
          [] e.act = "mod"   -> IF e.oneshot THEN [held EXCEPT !.kb.oneMod = @ \cup e.mods]
                                ELSE [held EXCEPT !.kb.heldMod = @ \cup e.mods,
                                                  !.app.mods = @ \cup e.mods]

PendingSustainedHold(c) ==
    IF c.mask = {} \/ c.closed THEN {} ELSE {e \in FindEntry(c, TRUE) : IsSustained(e)}

------------------------------------------------------------------------------
(* The key sink *)

\* A wrong healing: the key is only marked as up.
HealMark(c, k) == [c EXCEPT !.role[k] = "up"]

\* A key that is pressed again although it is down here: its key-up was lost.
Heal(c, k) ==
    [c EXCEPT !.role[k] = "up",
              !.pendKeys = IF c.role[k] = "pend" /\ @ > 0 THEN @ - 1 ELSE @,
              !.holdKeys = IF c.role[k] = "hold" /\ @ > 0 THEN @ - 1 ELSE @]

\* A chord whose first key is up is finished before another key begins the next.
FinishClosed(s) ==
    IF s.kb.closed /\ s.kb.mask # {}
    THEN CompletePending([s EXCEPT !.kb.role =
            [k \in Keys |-> IF @[k] = "pend" THEN "spent" ELSE @[k]]])
    ELSE s

ConfirmBefore(s, k) ==
    LET c == s.kb
        es == {e \in FindEntry(c, TRUE) : c.mask # {} /\ IsSustained(e)}
        wait == \/ c.age <= ComboTerm /\ AnyChordCovers(c, c.mask \cup {k})
                \/ ~OnInterrupt /\ c.age < HoldTerm
    IN  IF es = {} \/ wait THEN s ELSE ConfirmSustainedHold(s, CHOOSE e \in es : TRUE)

Begin(s, k) ==
    [s EXCEPT !.kb.role[k] = "pend", !.kb.age = IF s.kb.pendKeys = 0 THEN 0 ELSE @,
              !.kb.pendKeys = @ + 1, !.kb.mask = @ \cup {k}]

KeyDown(s, k) ==
    LET healed == IF s.kb.role[k] # "up" THEN [s EXCEPT !.kb = Heal(@, k)] ELSE s
        quiet  == IF s.kb.macro # Quiet THEN MacroCancel(healed) ELSE healed
    IN  Begin(ConfirmBefore(FinishClosed(quiet), k), k)

KeyUp(s, k) ==
    LET c == s.kb
        up == [s EXCEPT !.kb.role[k] = "up"]
        left == IF c.holdKeys > 0 THEN c.holdKeys - 1 ELSE 0
        closed == [up EXCEPT !.kb.closed = TRUE, !.kb.pendKeys = IF @ > 0 THEN @ - 1 ELSE 0]
    IN  CASE c.role[k] = "hold" ->
                [up EXCEPT !.kb.moving = @ \ {k}, !.kb.holdKeys = left,
                           !.kb.momentary = IF left = 0 THEN None ELSE @,
                           !.kb.heldMod = IF left = 0 THEN {} ELSE @,
                           !.app.mods = IF left = 0 THEN @ \ c.heldMod ELSE @]
          [] c.role[k] = "pend" ->
                IF closed.kb.pendKeys = 0 THEN CompletePending(closed) ELSE closed
          [] OTHER -> up

\* A wrong timer: it is set for a pending hold only.
ForHoldsOnly(c) == PendingSustainedHold(c) # {}

\* ChordKb_NextTickMs is not 0.
NeedsTick(c) == c.macro # Quiet \/ c.moving # {} \/ PendingSustainedHold(c) # {}

Becomes(s) == kb' = s.kb /\ app' = s.app /\ timer' = NeedsTick(s.kb)

Now == [kb |-> kb, app |-> app]

Press(k) ==
    /\ k \notin pressed
    /\ pressed' = pressed \cup {k}
    /\ Becomes(KeyDown(Now, k))
    /\ UNCHANGED lost

Release(k) ==
    /\ k \in pressed
    /\ pressed' = pressed \ {k}
    /\ IF kb.role[k] = "up" THEN UNCHANGED <<kb, app, timer>> ELSE Becomes(KeyUp(Now, k))
    /\ UNCHANGED lost

\* The key-up goes to another window or is swallowed by a dialog.
LoseRelease(k) ==
    /\ k \in pressed /\ lost < MaxLost
    /\ pressed' = pressed \ {k}
    /\ lost' = lost + 1
    /\ UNCHANGED <<kb, app, timer>>

------------------------------------------------------------------------------
(* Time and the boundaries *)

\* Time is counted only as far as it decides something.
Bound == IF ComboTerm > HoldTerm THEN ComboTerm + 1 ELSE HoldTerm + 1

Passes ==
    /\ kb' = [kb EXCEPT !.age = IF @ < Bound THEN @ + 1 ELSE @,
                        !.macro.wait = IF @ > 0 THEN @ - 1 ELSE 0,
                        !.macro.ran = IF kb.macro # Quiet /\ @ <= MacroMax THEN @ + 1 ELSE @]
    /\ kb' # kb
    /\ UNCHANGED <<app, pressed, timer, lost>>

\* ChordTickProc: the macro goes on when its wait is over, the hold begins when
\* both terms are over; then the timer is set anew.
ChordTick ==
    /\ timer
    /\ LET macro == IF kb.macro # Quiet /\ kb.macro.wait = 0 THEN MacroRun(Now) ELSE Now
           es == PendingSustainedHold(macro.kb)
           due == kb.age > ComboTerm /\ kb.age >= HoldTerm
       IN  Becomes(IF es # {} /\ due
                   THEN ConfirmSustainedHold(macro, CHOOSE e \in es : TRUE) ELSE macro)
    /\ UNCHANGED <<pressed, lost>>

\* A wrong fold: the modifiers of a running macro are forgotten.
ReleaseHeld(s) ==
    [kb |-> [ChordKb_Init EXCEPT !.layer = s.kb.layer],
     app |-> [mods |-> s.app.mods \ s.kb.heldMod, button |-> FALSE]]

ReleaseAll(s) ==
    [kb |-> [ChordKb_Init EXCEPT !.layer = s.kb.layer],
     app |-> [mods |-> s.app.mods \ (s.kb.heldMod \cup s.kb.macro.mods),
              button |-> s.app.button /\ ~s.kb.drag]]

\* Jamotong_FoldInput: the focus, the layout or the open state changes.
FoldInput ==
    /\ kb' = ReleaseAll(Now).kb /\ app' = ReleaseAll(Now).app
    /\ timer' = FALSE
    /\ UNCHANGED <<pressed, lost>>

------------------------------------------------------------------------------

Init ==
    /\ kb = ChordKb_Init
    /\ app = [mods |-> {}, button |-> FALSE]
    /\ pressed = {} /\ timer = FALSE /\ lost = 0

Next ==
    \/ \E k \in Keys : Press(k) \/ Release(k) \/ LoseRelease(k)
    \/ Passes \/ ChordTick \/ FoldInput

Spec == Init /\ [][Next]_vars

\* Time passes and the thread that set the timer pumps its messages.
FairSpec == Spec /\ WF_vars(Passes) /\ WF_vars(ChordTick)

------------------------------------------------------------------------------
(* Properties *)

(* The counters the recogniser decides by agree with the keys it tracks,    *)
(* lost key-ups and the healing included: a chord completes with its last   *)
(* key, and a hold never outlives all its keys (ChordKb_KeyDown/KeyUp).      *)
KeysAreCounted ==
    /\ kb.pendKeys = Cardinality(In("pend"))
    /\ kb.holdKeys <= Cardinality(In("hold"))
    /\ (kb.mask = {}) = (kb.pendKeys = 0)

(* Nothing stays held in the application by itself: a modifier it sees down *)
(* belongs to a hold or to a running macro, and so does the mouse button to *)
(* a drag (W1-09: no synthetic Ctrl or Alt is left behind).                  *)
HeldIsOwned ==
    /\ app.mods \subseteq kb.heldMod \cup kb.macro.mods
    /\ app.button = kb.drag

(* A macro comes to its end, with its modifiers released, though no key is  *)
(* pressed any more: the timer carries it over its waits.                    *)
MacroEnds == (kb.macro # Quiet) ~> (kb.macro = Quiet)

(* "모든 hold 글쇠 떨어짐 → 임시 레이어/모디파이어 복귀" (chord_layout.c:386): what *)
(* a hold key keeps down is let go when all of them are up, not before.      *)
HoldsLastWhileHeld ==
    LET goes == kb.heldMod \ kb'.heldMod # {}
        held == {k \in Keys : kb'.role[k] = "hold"}
        fold == kb'.role = ChordKb_Init.role /\ pressed' = pressed
    IN  goes => held = {} \/ fold
==============================================================================

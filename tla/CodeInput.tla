------------------------------ MODULE CodeInput ------------------------------
(***************************************************************************)
(* Typing a character by its number (code_input.c, OpenCodeInput and the   *)
(* key route of text_service.c, the element gate of ui_element.c).  The    *)
(* window, the digits and the element are globals of the process; every    *)
(* input thread has a service of its own.  Three shapes: a window of ours, *)
(* a line a helper process draws, or an element the host draws itself.     *)
(***************************************************************************)
EXTENDS Naturals, Sequences, FiniteSets, SequencesExt

CONSTANTS Threads,     \* input threads, each with one service
          Digits,      \* the digits that are typed, of 0..15
          MaxDigits,   \* 6
          Programs,    \* kinds of programs: [appContainer, ownWindow, helper, draws]
          MaxKeys      \* bound: keys pressed

CodeInputAssumption ==
  /\ Digits \subseteq 0..15 /\ MaxDigits \in Nat /\ MaxKeys \in Nat
  /\ Programs \subseteq [appContainer : BOOLEAN, ownWindow : BOOLEAN, helper : BOOLEAN, draws : BOOLEAN]

VARIABLES program,     \* the program
          service,     \* service[t]: the thread's service is active
          focusTid,    \* the thread that has the keyboard
          win,         \* g_hwnd: "none", "hidden", "shown"
          ownerTid,    \* g_ownerTid, or "none"
          hex,         \* g_hex
          wlActive,    \* g_wlActive
          drawn,       \* drawn[t]: uiCode.active of the thread's service
          uio,         \* g_uio: the service the elements go to, or "none"
          codeBegan,   \* g_codeBegan
          lastAnswer,  \* what the host said of the element when it was begun
          open,        \* the elements the host of each service has begun and not ended
          typed,       \* the digits a thread typed since it last opened the input
          last,        \* what the last key did
          keys         \* bound
codeVars == <<program, service, focusTid, win, ownerTid, hex, wlActive, drawn, uio,
              codeBegan, lastAnswer, open, typed, last, keys>>

CodeInit == /\ program \in Programs
            /\ service = [t \in Threads |-> FALSE] /\ focusTid \in Threads
            /\ win = "none" /\ ownerTid = "none" /\ hex = <<>> /\ wlActive = FALSE
            /\ drawn = [t \in Threads |-> FALSE]
            /\ uio = "none" /\ codeBegan = FALSE /\ lastAnswer = TRUE
            /\ open = [t \in Threads |-> 0]
            /\ typed = [t \in Threads |-> <<>>]
            /\ last = [key |-> "none"] /\ keys = 0

-----------------------------------------------------------------------------
Value(ds) == FoldLeft(LAMBDA v, d : 16 * v + d, 0, ds)
MaxCodepoint == 1114111
Surrogate(cp) == cp \in 55296..57343
(* A mutant of the operator below: half of a pair is a character *)
WithHalves(ds) == IF Len(ds) >= 2 /\ Value(ds) \in 32..MaxCodepoint THEN Value(ds) ELSE 0
(* Two digits at least; no control character, no half of a pair *)
CurCodepoint(ds) ==
  IF Len(ds) >= 2 /\ Value(ds) \in 32..MaxCodepoint /\ ~Surrogate(Value(ds)) THEN Value(ds) ELSE 0
(* What goes into the document: one unit, or a pair *)
Units(cp) == IF cp <= 65535 THEN <<cp>>
             ELSE <<55296 + (cp - 65536) \div 1024, 56320 + ((cp - 65536) % 1024)>>

IsVisible == wlActive \/ win = "shown"

(* The element goes to the service that was attached last; while it is begun *)
(* its first answer stands.  It ends where it was begun, if that service is  *)
(* still the one the elements go to.                                         *)
BeginsCode == uio # "none" /\ ~codeBegan
Answer == IF codeBegan THEN lastAnswer ELSE uio = "none" \/ ~program.draws
EndCode == /\ open' = IF codeBegan /\ uio # "none" THEN [open EXCEPT ![uio] = @ - 1] ELSE open
           /\ codeBegan' = FALSE

Hide == /\ wlActive' = FALSE /\ win' = (IF win = "shown" THEN "hidden" ELSE win)
        /\ EndCode /\ hex' = <<>>

(* A window of ours: nothing more happens when the host draws the element    *)
(* (a window that shows already then stays, with its digits); a window that   *)
(* was made before stays its maker's                                          *)
CodeInput_Show(t) ==
  /\ wlActive' = FALSE
  /\ lastAnswer' = Answer
  /\ codeBegan' = (codeBegan \/ BeginsCode)
  /\ open' = IF BeginsCode THEN [open EXCEPT ![uio] = @ + 1] ELSE open
  /\ IF ~Answer THEN UNCHANGED <<win, hex, ownerTid>>
     ELSE hex' = <<>> /\ win' = "shown" /\ ownerTid' = IF win = "none" THEN t ELSE ownerTid
(* No window comes up, and the element is ended again *)
ShowFails == win = "none" /\ Answer /\ EndCode /\ wlActive' = FALSE /\ hex' = <<>>

(* OpenCodeInput: the window, unless such programs do not get one; else the  *)
(* line of the helper, which must come to be drawn                           *)
Detour == program.appContainer /\ ~program.ownWindow
WindowLess(t) ==
  /\ \E draws \in {FALSE, program.helper} :
       wlActive' = draws /\ drawn' = [drawn EXCEPT ![t] = draws]
  /\ EndCode /\ hex' = <<>>
Open(t) ==
  /\ focusTid = t /\ service[t] /\ keys < MaxKeys /\ keys' = keys + 1
  /\ typed' = [typed EXCEPT ![t] = IF IsVisible /\ ~Detour /\ ~Answer THEN @ ELSE <<>>]
  /\ \/ ~Detour /\ CodeInput_Show(t) /\ UNCHANGED drawn
     \/ ~program.appContainer /\ ShowFails /\ UNCHANGED <<win, ownerTid, lastAnswer, drawn>>
     \/ /\ program.appContainer /\ (Detour \/ (win = "none" /\ Answer))
        /\ WindowLess(t) /\ UNCHANGED <<win, ownerTid, lastAnswer>>
  /\ last' = [key |-> "open"]
  /\ UNCHANGED <<program, service, focusTid, uio>>

(* CodeInput_HandleKey refuses the keys of a thread that does not own the    *)
(* window; what it does with the others, and the number it gives back        *)
Refused(t) == ownerTid \notin {"none", t}
HandleKey(t, k) ==
  IF Refused(t) \/ ~IsVisible THEN UNCHANGED <<hex, wlActive, win, codeBegan, open>>
  ELSE CASE k.kind \in {"enter", "esc"} -> Hide
         [] k.kind = "back" -> /\ hex' = IF hex = <<>> THEN hex ELSE Front(hex)
                               /\ UNCHANGED <<wlActive, win, codeBegan, open>>
         [] OTHER -> /\ hex' = IF k.kind = "digit" /\ Len(hex) < MaxDigits
                               THEN Append(hex, k.digit) ELSE hex
                     /\ UNCHANGED <<wlActive, win, codeBegan, open>>
Given(t, k) == IF k.kind = "enter" /\ ~Refused(t) THEN CurCodepoint(hex) ELSE 0
Follow(ds, k) == CASE k.kind = "digit" /\ Len(ds) < MaxDigits -> Append(ds, k.digit)
                   [] k.kind = "back" /\ ds # <<>> -> Front(ds)
                   [] OTHER -> ds

(* While the input shows every key goes to it and none to the program,       *)
(* whatever HandleKey answers                                                *)
AllKeys == {[kind |-> "digit", digit |-> d] : d \in Digits}
             \cup {[kind |-> n, digit |-> 0] : n \in {"enter", "esc", "back", "other"}}
Key(t, k) ==
  /\ focusTid = t /\ service[t] /\ keys < MaxKeys /\ keys' = keys + 1
  /\ IsVisible
  /\ HandleKey(t, k)
  /\ typed' = [typed EXCEPT ![t] = Follow(@, k)]
  /\ last' = [key |-> k.kind, by |-> t, refused |-> Refused(t), eaten |-> TRUE,
              units |-> IF Given(t, k) = 0 THEN <<>> ELSE Units(Given(t, k))]
  /\ drawn' \in IF ~drawn[t] THEN {drawn}
                ELSE IF Given(t, k) # 0 \/ k.kind = "esc" \/ ~(wlActive' \/ win' = "shown")
                THEN {[drawn EXCEPT ![t] = FALSE]}
                ELSE {[drawn EXCEPT ![t] = b] : b \in BOOLEAN}
  /\ UNCHANGED <<program, service, focusTid, ownerTid, uio, lastAnswer>>

(* The keyboard goes to another thread: both fold their input *)
FocusThread(t) ==
  /\ focusTid # t /\ focusTid' = t
  /\ Hide
  /\ drawn' = [s \in Threads |-> FALSE]
  /\ last' = [key |-> "none"]
  /\ UNCHANGED <<program, service, ownerTid, uio, lastAnswer, typed, keys>>

(* UiElem_Attach forgets what another service has begun *)
Activate(t) == /\ ~service[t] /\ service' = [service EXCEPT ![t] = TRUE]
               /\ uio' = t /\ codeBegan' = FALSE
               /\ UNCHANGED <<program, focusTid, win, ownerTid, hex, wlActive, drawn, lastAnswer,
                              open, typed, last, keys>>
(* The window is given up, and destroyed only by the thread that made it *)
Deactivate(t) == /\ service[t] /\ service' = [service EXCEPT ![t] = FALSE]
                 /\ wlActive' = FALSE /\ hex' = <<>> /\ EndCode
                 /\ win' = "none"
                 /\ drawn' = [drawn EXCEPT ![t] = FALSE]
                 /\ uio' = IF uio = t THEN "none" ELSE uio
                 /\ last' = [key |-> "none"]
                 /\ UNCHANGED <<program, focusTid, ownerTid, lastAnswer, typed, keys>>

CodeNext == \E t \in Threads : \/ Activate(t) \/ Deactivate(t) \/ FocusThread(t) \/ Open(t)
                               \/ \E k \in AllKeys : Key(t, k)
CodeSpec == CodeInit /\ [][CodeNext]_codeVars

-----------------------------------------------------------------------------
(* Properties *)

Decoded(us) == IF Len(us) = 1 THEN us[1] ELSE 65536 + (us[1] - 55296) * 1024 + us[2] - 56320

(* Enter writes the one character whose number the thread typed since it    *)
(* opened the input: two to six digits, nothing left from a time before or   *)
(* from another thread, never a control character or half a pair             *)
(* (CodeInput_HandleKey, CodeInput_Hide, CurCodepoint, KES_OnKeyDown)         *)
WritesWhatWasTyped ==
  last.key = "enter" /\ last.units # <<>> =>
    LET cp == Decoded(last.units)
    IN  /\ cp = Value(typed[last.by]) /\ Len(typed[last.by]) \in 2..MaxDigits
        /\ cp \in 32..MaxCodepoint /\ ~Surrogate(cp)

(* A key that the input refuses because it came on another thread is the     *)
(* program's: `on another thread this key is the application's'              *)
(* (CodeInput_HandleKey), but KES_OnKeyDown takes it all the same             *)
RefusedIsPassed == last.key \notin {"none", "open"} => (last.refused => ~last.eaten)

(* What the host was told to draw it is told to end: ui_element says that    *)
(* EndUIElement is a duty, but the second service forgets the first's         *)
EveryElementEnds == \A t \in Threads : open[t] > 0 => codeBegan /\ uio = t
==============================================================================

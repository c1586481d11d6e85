------------------------------ MODULE UiHelper ------------------------------
(***************************************************************************)
(* The helper that draws for hosts whose own windows do not appear          *)
(* (ui_client.c, ui_server.c, the UiCand... and UiCode... functions of      *)
(* text_service.c, code_input.c).  The input method in an application       *)
(* writes what to draw into a pipe; a thread of the helper reads it into    *)
(* variables and posts to the thread of the window, which draws them.       *)
(* Nothing comes back: the keys stay with the application, and a click on   *)
(* a row presses that row's digit.                                          *)
(***************************************************************************)
EXTENDS Integers, Sequences, FiniteSets

CONSTANTS
    Apps,       \* the processes of AppContainer hosts
    Count,      \* candidates in a list
    PerPage,    \* rows of a page
    MaxDeaths,  \* bound on the processes that end
    MaxKeys     \* bound on the keys, the clicks and the changes of focus

NoApp == "nobody"

UiHelperAssumption ==
    /\ Apps # {} /\ NoApp \notin Apps /\ Count \in Nat \ {0} /\ PerPage \in Nat \ {0}
    /\ MaxDeaths \in Nat /\ MaxKeys \in Nat

VARIABLES
    helper, disk,  \* the version that runs, or "off"; the version installed
    served,        \* the client of the only pipe instance, or NoApp
    wire,          \* what it wrote and the helper has not read
    shared,        \* g_lines, g_count, g_sel: [of, count, sel]
    posted,        \* the messages posted to the window
    win,           \* what is on the screen: [shown, of, sel]
    handle,        \* handle[a], g_pipe: "none", "open" or "broken"
    cooling,       \* cooling[a]: g_retryAfter is not reached
    ui,            \* ui[a]: uiCand, or the code input with uiCode.active as drawn
    focus,
    digits,        \* the digits of clicks that are not handled yet
    deaths, keys

helperVars == <<helper, disk, served, wire, shared, posted, win, handle, cooling, ui,
                focus, digits, deaths, keys>>
client == <<handle, cooling, served, wire>>
screen == <<shared, posted, win>>
system == <<helper, disk>>

Nothing == [kind |-> "none", sel |-> 0, drawn |-> FALSE]
Blank == [of |-> <<NoApp, "none">>, count |-> 0, sel |-> 0]
Dark == [shown |-> FALSE, of |-> <<NoApp, "none">>, sel |-> 0]

PageStart(sel) == (sel \div PerPage) * PerPage

------------------------------------------------------------------------------
(* The client *)

\* EnsureConnected of a client without a pipe.
CanConnect(a) == ~cooling[a] /\ helper # "off" /\ served = NoApp

\* WriteAll: whether it succeeds, a broken pipe being tried once again.
Reaches(a) == handle[a] = "open" \/ CanConnect(a)

Write(a, msg) ==
    IF Reaches(a)
    THEN /\ handle' = [handle EXCEPT ![a] = "open"] /\ served' = a
         /\ wire' = Append(wire, msg) /\ UNCHANGED cooling
    ELSE /\ handle' = [handle EXCEPT ![a] = "none"]
         /\ cooling' = [cooling EXCEPT ![a] = TRUE] /\ UNCHANGED <<served, wire>>

UiShow(a, kind, count) == Write(a, [msg |-> "show", of |-> <<a, kind>>, count |-> count, sel |-> 0])
Update(a, sel) == Write(a, [msg |-> "update", sel |-> sel])

\* UiClient_Hide: nothing to do when there never was a pipe.
HideWindow(a) == IF handle[a] = "none" THEN UNCHANGED client ELSE Write(a, [msg |-> "hide"])

\* UiClient_Available: a broken pipe still counts as one.
Available(a) == handle[a] # "none" \/ CanConnect(a)

\* The three seconds are over.
CoolDown(a) ==
    /\ cooling[a] /\ cooling' = [cooling EXCEPT ![a] = FALSE]
    /\ UNCHANGED <<system, screen, handle, served, wire, ui, focus, digits, deaths, keys>>

------------------------------------------------------------------------------
(* The input method in an application *)

Becomes(a, u) == ui' = [ui EXCEPT ![a] = u]
Acts == keys < MaxKeys /\ keys' = keys + 1
Rest == UNCHANGED <<system, screen, focus, deaths>>

\* UiCandShow; when it fails the caller goes on with the cycle (Hanja.tla).
UiCandShow(a) ==
    /\ focus = a /\ ui[a] = Nothing /\ Acts /\ Rest /\ UNCHANGED digits
    /\ IF Available(a) THEN UiShow(a, "list", Count) ELSE UNCHANGED client
    /\ Becomes(a, IF Available(a) /\ Reaches(a)
                  THEN [kind |-> "list", sel |-> 0, drawn |-> TRUE] ELSE Nothing)

UiCandHide(a) == HideWindow(a) /\ Becomes(a, Nothing)

\* A key that moves the selection: the arrows and the page keys.
Moved(sel, key) ==
    LET page == sel \div PerPage
    IN  CASE key = "up" -> IF sel > 0 THEN sel - 1 ELSE sel
          [] key = "down" -> IF sel + 1 < Count THEN sel + 1 ELSE sel
          [] key = "prior" -> IF page > 0 THEN (page - 1) * PerPage ELSE 0
          [] key = "next" -> IF (page + 1) * PerPage < Count THEN (page + 1) * PerPage ELSE sel

MoveKey(a) ==
    \E key \in {"up", "down", "prior", "next"} :
        /\ Becomes(a, [ui[a] EXCEPT !.sel = Moved(@, key)])
        /\ Update(a, Moved(ui[a].sel, key))

\* UiCandHandleKey: a digit of the page, Enter or Space choose; Escape and any
\* other key close the list, the other key being the application's.
UiCandHandleKey(a) ==
    /\ focus = a /\ ui[a].kind = "list" /\ Acts /\ Rest /\ UNCHANGED digits
    /\ MoveKey(a) \/ UiCandHide(a)

\* The digit of a click: it is a key like any other, of whoever has the focus.
DigitOfClick ==
    /\ digits # <<>> /\ digits' = Tail(digits) /\ Rest /\ UNCHANGED keys
    /\ LET a == focus
       IN  CASE ui[a].kind = "list" -> UiCandHide(a)
             [] ui[a].kind = "code" /\ ui[a].drawn ->
                    /\ UiShow(a, "code", 1)
                    /\ Becomes(a, [ui[a] EXCEPT !.drawn = Reaches(a)])
             [] OTHER -> UNCHANGED <<client, ui>>

\* OpenCodeInput: the line is drawn by the helper, or the input does not open.
OpenCodeInput(a) ==
    /\ focus = a /\ ui[a] = Nothing /\ Acts /\ Rest /\ UNCHANGED digits
    /\ IF Available(a) THEN UiShow(a, "code", 1) ELSE UNCHANGED client
    /\ Becomes(a, IF Available(a) /\ Reaches(a)
                  THEN [kind |-> "code", sel |-> 0, drawn |-> TRUE] ELSE Nothing)

\* UiCodeDraw again after each key that stays in the input.
CodeKey(a) ==
    /\ focus = a /\ ui[a].kind = "code" /\ Acts /\ Rest /\ UNCHANGED digits
    /\ IF ui[a].drawn THEN UiShow(a, "code", 1) /\ Becomes(a, [ui[a] EXCEPT !.drawn = Reaches(a)])
                      ELSE UNCHANGED <<client, ui>>

\* Enter and Escape.
CodeEnd(a) ==
    /\ focus = a /\ ui[a].kind = "code" /\ Acts /\ Rest /\ UNCHANGED digits
    /\ IF ui[a].drawn THEN HideWindow(a) ELSE UNCHANGED client
    /\ Becomes(a, Nothing)

\* A wrong dismissal: the list is forgotten, the helper is not told.
ForgetIt(a) == Becomes(a, Nothing) /\ UNCHANGED client

\* DismissTransientUi: what the helper drew is taken away with the focus.
DismissTransientUi(a) == IF ui[a].drawn THEN UiCandHide(a) ELSE Becomes(a, Nothing) /\ UNCHANGED client

FocusTo(b) ==
    /\ b # focus /\ focus' = b /\ Acts
    /\ DismissTransientUi(focus)
    /\ UNCHANGED <<system, screen, digits, deaths>>

------------------------------------------------------------------------------
(* The helper *)

Posts(msg) == posted' = Append(posted, msg)

\* ApplyMessage, in the thread of the pipe.
ApplyMessage(m) ==
    CASE m.msg = "hide" -> shared' = [shared EXCEPT !.count = 0] /\ Posts("hide")
      [] m.msg = "update" ->
            shared' = [shared EXCEPT !.sel = IF m.sel < shared.count THEN m.sel ELSE @] /\ Posts("update")
      [] m.msg = "show" ->
            shared' = [of |-> m.of, count |-> m.count, sel |-> m.sel] /\ Posts("show")

ReadPipe ==
    /\ helper # "off" /\ wire # <<>>
    /\ ApplyMessage(Head(wire)) /\ wire' = Tail(wire)
    /\ UNCHANGED <<system, served, win, handle, cooling, ui, focus, digits, deaths, keys>>

\* A wrong loop: the next client is awaited with the list of the last on screen.
LeaveTheList == UNCHANGED <<shared, posted>>

\* What the pipe thread does when its client is gone.
ClearTheList == shared' = [shared EXCEPT !.count = 0] /\ Posts("hide")

ClientGone ==
    /\ helper # "off" /\ served # NoApp /\ wire = <<>> /\ handle[served] # "open"
    /\ ClearTheList /\ served' = NoApp
    /\ UNCHANGED <<system, wire, win, handle, cooling, ui, focus, digits, deaths, keys>>

\* PlaceWindow: nothing to place when the list is gone by now.
PlaceWindow ==
    win' = IF shared.count <= 0 THEN win
           ELSE [shown |-> TRUE, of |-> shared.of, sel |-> shared.sel]

SrvWndProc ==
    /\ helper # "off" /\ posted # <<>> /\ posted' = Tail(posted)
    /\ IF Head(posted) = "hide" THEN win' = Dark ELSE PlaceWindow
    /\ UNCHANGED <<system, client, shared, ui, focus, digits, deaths, keys>>

\* WM_LBUTTONDOWN: the row's digit, out of what is in the variables now.
Click ==
    /\ win.shown /\ Acts
    /\ \E row \in 1 .. Count :
          /\ row <= shared.count - PageStart(shared.sel) /\ row <= PerPage
          /\ digits' = Append(digits, row)
    /\ UNCHANGED <<system, client, screen, ui, focus, deaths>>

\* The process ends: its window goes, its end of the pipe breaks.
HelperEnds ==
    /\ helper' = "off"
    /\ handle' = [a \in Apps |-> IF handle[a] = "open" THEN "broken" ELSE handle[a]]
    /\ served' = NoApp /\ wire' = <<>> /\ shared' = Blank /\ posted' = <<>> /\ win' = Dark

\* STALE_TIMER_ID: a newer version is installed and nothing is drawn.
StaleTimer ==
    /\ helper # "off" /\ helper # disk /\ shared.count = 0
    /\ HelperEnds
    /\ UNCHANGED <<disk, cooling, ui, focus, digits, deaths, keys>>

HelperDies ==
    /\ helper # "off" /\ deaths < MaxDeaths /\ deaths' = deaths + 1
    /\ HelperEnds
    /\ UNCHANGED <<disk, cooling, ui, focus, digits, keys>>

\* EnsureUiHelperRunning and UiServer_Run: the mutex lets one of them run.
EnsureUiHelperRunning ==
    /\ helper = "off" /\ helper' = disk
    /\ UNCHANGED <<disk, client, screen, ui, focus, digits, deaths, keys>>

Install ==
    /\ disk = "old" /\ disk' = "new"
    /\ UNCHANGED <<helper, client, screen, ui, focus, digits, deaths, keys>>

\* An application ends, and may be started again.
AppDies(a) ==
    /\ deaths < MaxDeaths /\ deaths' = deaths + 1
    /\ handle' = [handle EXCEPT ![a] = "none"] /\ cooling' = [cooling EXCEPT ![a] = FALSE]
    /\ Becomes(a, Nothing)
    /\ UNCHANGED <<system, served, wire, screen, focus, digits, keys>>

------------------------------------------------------------------------------

HelperInit ==
    /\ helper = "old" /\ disk = "old" /\ served = NoApp /\ wire = <<>>
    /\ shared = Blank /\ posted = <<>> /\ win = Dark
    /\ handle = [a \in Apps |-> "none"] /\ cooling = [a \in Apps |-> FALSE]
    /\ ui = [a \in Apps |-> Nothing] /\ focus \in Apps
    /\ digits = <<>> /\ deaths = 0 /\ keys = 0

HelperNext ==
    \/ \E a \in Apps :
          \/ CoolDown(a) \/ UiCandShow(a) \/ UiCandHandleKey(a)
          \/ OpenCodeInput(a) \/ CodeKey(a) \/ CodeEnd(a) \/ FocusTo(a) \/ AppDies(a)
    \/ DigitOfClick \/ ReadPipe \/ ClientGone \/ SrvWndProc \/ Click
    \/ StaleTimer \/ HelperDies \/ EnsureUiHelperRunning \/ Install

HelperSpec == HelperInit /\ [][HelperNext]_helperVars

(* The two threads of the helper go on while it lives. *)
HelperFairness ==
    WF_helperVars(ReadPipe) /\ WF_helperVars(ClientGone) /\ WF_helperVars(SrvWndProc)
FairHelperSpec == HelperSpec /\ HelperFairness

------------------------------------------------------------------------------
(* Properties *)

(* When the helper has caught up, what is on the screen is what an           *)
(* application asks for now, with its selection: no list outlives a choice,  *)
(* a change of focus or the process that asked, and no message of the        *)
(* earlier list overtakes a later one (ApplyMessage, PlaceWindow).           *)
ScreenIsAskedFor ==
    (wire = <<>> /\ posted = <<>> /\ win.shown
       /\ (served # NoApp => handle[served] = "open"))
    => \E a \in Apps :
          win.of = <<a, ui[a].kind>> /\ ui[a].drawn /\ win.sel = ui[a].sel

(* A list nobody asks for any more leaves the screen (PipeThread clears it   *)
(* when its client is gone).                                                 *)
ListsGo ==
    (win.shown /\ \A a \in Apps : ui[a] = Nothing)
        ~> (~win.shown \/ \E a \in Apps : ui[a] # Nothing)

(* "창 없이 키만 먹는 상태로는 두지 않는다" (text_service.c:1440): the code input   *)
(* takes the keys of an application only while its line is drawn.            *)
KeysAreTakenOnlyWhileDrawn == \A a \in Apps : ui[a].kind = "code" => ui[a].drawn
==============================================================================

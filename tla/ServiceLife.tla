----------------------------- MODULE ServiceLife -----------------------------
(***************************************************************************)
(* The life of the DLL and of the text services in one process: the class  *)
(* factory and the unload test (dllmain.c), creation, activation and       *)
(* deactivation of a service with the sinks it advises (text_service.c),   *)
(* its language bar item (langbar.c), its "Options" function               *)
(* (func_configure.c) and the thread of the settings window                *)
(* (settings_ui.c).  A sink advised with the manager, with a compartment   *)
(* or with a document holds a reference to the service; the item, the      *)
(* timers and the window hold none.  Every service has a thread of its own.*)
(***************************************************************************)
EXTENDS Integers, FiniteSets

CONSTANTS
    Services,   \* the service objects of the process
    Docs,       \* the documents whose contexts get an edit and a layout sink
    Threads,    \* bound on the settings threads of a behaviour
    MayMiss,    \* what the host may refuse, or the user have switched off, of an activation
    MaxRefs     \* bound on the factories, on the locks and further references together, and
                \* on the further references of one service

None == "none"

ServiceLifeAssumption ==
    /\ MaxRefs \in Nat \ {0} /\ None \notin Services \cup Docs \cup Threads
    /\ MayMiss \subseteq {"func", "open", "conv", "edit", "layout", "item"}

VARIABLES
    loaded,    \* the DLL is mapped
    dllRefs,   \* g_DllRefCount
    factory,   \* references to class factories
    locks,     \* LockServer
    life,      \* service -> "none", "live" or "freed"
    host,      \* service -> references of the host
    active,    \* services between Activate and Deactivate
    sinks,     \* service -> the sinks advised, as <<kind, where>>
    tes,       \* pTESContext: the document whose edit sink is known
    tls,       \* the document for which tlsCookie holds
    item,      \* service -> pService of its language bar item, which the shell may hold
    resend,    \* the owner of g_pendResendTimer
    chord,     \* the owner of g_chordTimer
    stray,     \* services in whose thread a timer still goes that neither of the two knows
    thread,    \* settings thread -> "none", "starting", "open" or "ended"
    hwnd,      \* g_hwndSettings
    real,      \* g_pRealConfig: the service whose configuration the window edits
    outlived   \* threads that no Shutdown ends: it missed them, or their service was inactive

dllVars == <<loaded, dllRefs, factory, locks>>
timerVars == <<resend, chord, stray>>
tipVars == <<life, host, active, sinks, tes, tls, item, timerVars>>
winVars == <<thread, hwnd, real, outlived>>
vars == <<dllVars, tipVars, winVars>>

Init ==
    /\ loaded = TRUE /\ dllRefs = 0 /\ factory = 0 /\ locks = 0
    /\ life = [o \in Services |-> "none"] /\ host = [o \in Services |-> 0]
    /\ active = {} /\ sinks = [o \in Services |-> {}]
    /\ tes = [o \in Services |-> None] /\ tls = [o \in Services |-> None]
    /\ item = [o \in Services |-> None] /\ resend = None /\ chord = None /\ stray = {}
    /\ thread = [t \in Threads |-> "none"] /\ hwnd = None /\ real = None /\ outlived = {}

------------------------------------------------------------------------------
(* The DLL *)

\* A factory counts once for itself and once for each reference (CF_AddRef counts both).
GetClassObject ==
    /\ loaded /\ factory < MaxRefs /\ factory' = factory + 1 /\ dllRefs' = dllRefs + 1
    /\ UNCHANGED <<loaded, locks, tipVars, winVars>>

ReleaseFactory ==
    /\ factory > 0 /\ factory' = factory - 1 /\ dllRefs' = dllRefs - 1
    /\ UNCHANGED <<loaded, locks, tipVars, winVars>>

\* The locks and the services with further references, which share one bound.
Further == locks + Cardinality({o \in Services : host[o] > 1})

LockServer(on) ==
    /\ IF on THEN factory > 0 /\ Further < MaxRefs ELSE locks > 0
    /\ locks' = IF on THEN locks + 1 ELSE locks - 1
    /\ dllRefs' = IF on THEN dllRefs + 1 ELSE dllRefs - 1
    /\ UNCHANGED <<loaded, factory, tipVars, winVars>>

HasPendingTimers == resend # None \/ chord # None

MayUnload == dllRefs = 0 /\ ~HasPendingTimers

DllCanUnloadNow ==
    /\ loaded /\ MayUnload /\ loaded' = FALSE
    /\ UNCHANGED <<dllRefs, factory, locks, tipVars, winVars>>

------------------------------------------------------------------------------
(* The service *)

Create(o) ==
    /\ loaded /\ factory > 0 /\ life[o] = "none"
    /\ life' = [life EXCEPT ![o] = "live"] /\ host' = [host EXCEPT ![o] = 1]
    /\ dllRefs' = dllRefs + 1
    /\ UNCHANGED <<loaded, factory, locks, active, sinks, tes, tls, item, timerVars, winVars>>

\* QueryInterface, or GetFunction of the function provider.
AddRef(o) ==
    /\ life[o] = "live" /\ host[o] \in 1..MaxRefs /\ Further < MaxRefs
    /\ host' = [host EXCEPT ![o] = @ + 1]
    /\ UNCHANGED <<dllVars, life, active, sinks, tes, tls, item, timerVars, winVars>>

\* The host keeps its last reference until it has deactivated the service.
Release(o) ==
    /\ host[o] > 0 /\ (host[o] = 1 => o \notin active)
    /\ host' = [host EXCEPT ![o] = @ - 1]
    /\ IF host[o] + Cardinality(sinks[o]) = 1
       THEN life' = [life EXCEPT ![o] = "freed"] /\ dllRefs' = dllRefs - 1
       ELSE UNCHANGED <<life, dllRefs>>
    /\ UNCHANGED <<loaded, factory, locks, active, sinks, tes, tls, item, timerVars, winVars>>

\* The edit and the layout sink of the context left, then of the one entered; each may
\* be refused.  The layout sink is known by tlsCookie, but taken back only together
\* with a known edit sink.
Unadvised(o, s) ==
    IF tes[o] = None THEN s
    ELSE s \ ({<<"edit", tes[o]>>} \cup (IF tls[o] = tes[o] THEN {<<"layout", tes[o]>>} ELSE {}))

AdviseTextEditSink(o, s, d, missing) ==
    LET left == Unadvised(o, s)
    IN  IF d = None
        THEN /\ sinks' = [sinks EXCEPT ![o] = left]
             /\ tes' = [tes EXCEPT ![o] = None]
             /\ tls' = [tls EXCEPT ![o] = IF tes[o] = None THEN @ ELSE None]
        ELSE /\ sinks' = [sinks EXCEPT ![o] = left \cup (({"edit", "layout"} \ missing) \X {d})]
             /\ tes' = [tes EXCEPT ![o] = IF "edit" \in missing THEN None ELSE d]
             /\ tls' = [tls EXCEPT ![o] = IF "layout" \in missing THEN None ELSE d]

\* The sinks that are not of a document: AdviseKeyEventSink, AdviseThreadMgrEventSink,
\* FuncConfig_Advise and Compart_Attach advise them.
OwnSinks == {"key", "thread", "func", "open", "conv"}

\* Without the key sink activation fails and is rolled back; the sinks of the function, the
\* compartments and the document and the language bar item may be missing.
ActivateCommon(o, d, missing) ==
    /\ life[o] = "live" /\ host[o] > 0 /\ o \notin active
    /\ active' = active \cup {o}
    /\ AdviseTextEditSink(o, sinks[o] \cup ((OwnSinks \ missing) \X {None}), d, missing)
    /\ item' = [item EXCEPT ![o] = IF "item" \in missing THEN None ELSE o]
    /\ UNCHANGED <<dllVars, life, host, timerVars, winVars>>

\* A timer replaced or taken back: the system forgets it only in the thread it was set in.
Replaced(old, o) == stray' = stray \cup ({old} \ {None, o})

\* Jamotong_ChordTimerCancel and FlushPendingKeyResend leave another service's timer alone.
Cancelled(owner, o) == IF owner = o THEN None ELSE owner

\* The input is folded in the end, which takes back the service's own chord timer.
TMES_OnSetFocus(o, d, missing) ==
    /\ o \in active
    /\ AdviseTextEditSink(o, sinks[o], d, missing)
    /\ chord' = Cancelled(chord, o)
    /\ UNCHANGED <<dllVars, life, host, active, item, resend, stray, winVars>>

\* A boundary key is eaten and waits (ScheduleKeyResend); SetTimer may fail, and the key
\* goes out at once.
EatKey(o) ==
    /\ o \in active
    /\ resend' \in {o, None} /\ Replaced(resend, o)
    /\ UNCHANGED <<dllVars, life, host, active, sinks, tes, tls, item, chord, winVars>>

ResendTimerProc ==
    /\ resend # None /\ resend' = None
    /\ UNCHANGED <<dllVars, life, host, active, sinks, tes, tls, item, chord, stray, winVars>>

\* A key of a chord layout leaves something to wait for, or not (ScheduleChordTick).
ScheduleChordTick(o) ==
    /\ o \in active
    /\ \/ chord' = Cancelled(chord, o) /\ UNCHANGED stray
       \/ chord' \in {o, None} /\ Replaced(chord, o)
    /\ UNCHANGED <<dllVars, life, host, active, sinks, tes, tls, item, resend, winVars>>

\* The callback reads its owner's configuration, and waits again if something is left.
ChordTickProc ==
    /\ chord # None /\ chord' \in {chord, None}
    /\ UNCHANGED <<dllVars, life, host, active, sinks, tes, tls, item, resend, stray, winVars>>

\* The last of the forgotten timers of a thread fires; its id is not known any more.
StrayFires(o) ==
    /\ o \in stray /\ stray' = stray \ {o}
    /\ UNCHANGED <<dllVars, life, host, active, sinks, tes, tls, item, resend, chord, winVars>>

\* A wrong rundown of the window: it stays open, to be closed by its user.
WindowKept == UNCHANGED winVars

\* SettingsUI_Shutdown: the window, whosever configuration it edits, is closed and its
\* thread ends; a thread that is only starting, or whose window is not the one that
\* g_hwndSettings knows, outlasts the wait.
Shutdown ==
    /\ thread' = [t \in Threads |-> IF t = hwnd THEN "ended" ELSE thread[t]]
    /\ hwnd' = None
    /\ outlived' = outlived \cup {t \in Threads \ {hwnd} : thread[t] \in {"starting", "open"}}
    /\ UNCHANGED real

Deactivated(o) ==
    /\ Shutdown
    /\ resend' = Cancelled(resend, o) /\ chord' = Cancelled(chord, o)
    /\ UNCHANGED stray
    /\ item' = [item EXCEPT ![o] = None]
    /\ AdviseTextEditSink(o, sinks[o] \ (OwnSinks \X {None}), None, {})

Deactivate(o) ==
    /\ o \in active /\ active' = active \ {o}
    /\ Deactivated(o)
    /\ UNCHANGED <<dllVars, life, host>>

ActivateRefused(o) ==
    /\ life[o] = "live" /\ host[o] > 0 /\ o \notin active
    /\ Deactivated(o)
    /\ UNCHANGED <<dllVars, life, host, active>>

------------------------------------------------------------------------------
(* The settings window *)

\* FC_Show, the language bar menu or the settings key.  An open window is brought to the
\* front, also when it edits another service's configuration.
Show(o) ==
    /\ life[o] = "live" /\ host[o] > 0 /\ loaded /\ hwnd = None
    /\ real' = o
    /\ \/ \E t \in Threads :
            thread[t] = "none" /\ thread' = [thread EXCEPT ![t] = "starting"]
       \/ UNCHANGED thread
    /\ outlived' = IF o \in active THEN outlived
                   ELSE outlived \cup {t \in Threads : thread'[t] \in {"starting", "open"}}
    /\ UNCHANGED <<dllVars, tipVars, hwnd>>

\* The thread copies the configuration, then makes its window.
SettingsThreadProc(t) ==
    /\ thread[t] = "starting"
    /\ \/ thread' = [thread EXCEPT ![t] = "open"] /\ hwnd' = t
       \/ thread' = [thread EXCEPT ![t] = "ended"] /\ hwnd' = None
    /\ UNCHANGED <<dllVars, tipVars, real, outlived>>

CloseWindow(t) ==
    /\ thread[t] = "open" /\ thread' = [thread EXCEPT ![t] = "ended"]
    /\ hwnd' = None
    /\ UNCHANGED <<dllVars, tipVars, real, outlived>>

Next ==
    \/ GetClassObject \/ ReleaseFactory \/ DllCanUnloadNow
    \/ ResendTimerProc \/ ChordTickProc
    \/ \E on \in BOOLEAN : LockServer(on)
    \/ \E o \in Services :
        \/ Create(o) \/ AddRef(o) \/ Release(o) \/ Deactivate(o) \/ ActivateRefused(o)
        \/ EatKey(o) \/ ScheduleChordTick(o) \/ StrayFires(o) \/ Show(o)
        \/ \E d \in Docs \cup {None}, missing \in SUBSET MayMiss :
            ActivateCommon(o, d, missing) \/ TMES_OnSetFocus(o, d, missing)
    \/ \E t \in Threads : SettingsThreadProc(t) \/ CloseWindow(t)

Spec == Init /\ [][Next]_vars

------------------------------------------------------------------------------
(* Properties *)

\* What calls back into the DLL has what it calls.  The item of the language bar, which the
\* shell may keep, names an active service or none (langbar.c), as do the two timers that
\* the globals know, and neither is pending in a DLL that is gone (dllmain.c:40).  A sink,
\* compartments included, is held by a live service only, and a service that is not active
\* has none left but a layout sink (text_service.c:2488-2537).  A settings thread edits the
\* configuration of an active service, unless it is one that no Shutdown could end
\* (text_service.c:2493).  The count of the DLL is exactly the factories, locks and services.
NoCallbackIntoTheVoid ==
    /\ \A o \in Services : item[o] # None => item[o] \in active
    /\ \A owner \in {resend, chord} : owner # None => owner \in active /\ loaded
    /\ \A o \in Services : sinks[o] # {} => life[o] = "live"
    /\ \A o \in Services \ active : \A sink \in sinks[o] : sink[1] = "layout"
    /\ \A t \in Threads \ outlived : thread[t] \in {"starting", "open"} => real \in active
    /\ active \subseteq {o \in Services : life[o] = "live"}
    /\ dllRefs = factory + locks + Cardinality({o \in Services : life[o] = "live"})
    /\ loaded \/ dllRefs = 0

\* text_service.c:2493: the settings thread is ended and joined before the configuration
\* it refers to is freed.
WindowHasItsService ==
    (\E t \in Threads : thread[t] \in {"starting", "open"}) => life[real] = "live" /\ loaded

\* text_service.c:1165: the DLL must not be unloaded while a timer is alive.
NoStrayIntoTheVoid == stray # {} => loaded
=============================================================================

------------------------------- MODULE MCLife --------------------------------
(***************************************************************************)
(* The parts that other threads and processes keep alive, each on a small  *)
(* instance: the service and its DLL, the helper that draws for sandboxed   *)
(* programs, the keys of a chord layout with their timer, and the removal.  *)
(* A behaviour keeps to one part.  The service, the helper and the removal  *)
(* have the variables of their modules, which rest elsewhere; the chord     *)
(* layout has v1, v2, ...                                                   *)
(***************************************************************************)
EXTENDS ServiceLife, UiHelper, Cleanup

CONSTANT Boards   \* the parts that are checked

VARIABLES board,  \* the part of this behaviour
          v1, v2, v3, v4, v5
partVars == <<v1, v2, v3, v4, v5>>
mcVars == <<vars, helperVars, removalVars, board, partVars>>

------------------------------------------------------------------------------
(* A chord layout of two keys with every kind of entry; the macro waits       *)
Entry(mask, layer, hold, act) ==
    [mask |-> mask, layer |-> layer, hold |-> hold, act |-> act, mods |-> {"ctrl"}, to |-> "num",
     oneshot |-> FALSE, steps |-> <<>>]
MCSteps == <<[kind |-> "with", mods |-> {"shift"}], [kind |-> "wait", ms |-> 1],
             [kind |-> "key", mods |-> {"alt"}], [kind |-> "endwith"]>>
MCChords ==
    {Entry({"a"}, "base", FALSE, "drag"), Entry({"a"}, "base", TRUE, "mod"),
     Entry({"b"}, "base", FALSE, "key"), Entry({"b"}, "base", TRUE, "layer"),
     [Entry({"a", "b"}, "base", FALSE, "macro") EXCEPT !.steps = MCSteps],
     Entry({"a", "b"}, "base", TRUE, "cancel"), Entry({"a"}, "num", FALSE, "mod"),
     Entry({"a"}, "num", TRUE, "move"), Entry({"a", "b"}, "num", FALSE, "toggle")}

------------------------------------------------------------------------------
(* The parts, each on the variables it needs *)

ServiceRest == UNCHANGED <<helperVars, removalVars, partVars>>
ServiceNext == Next /\ ServiceRest

HelperAtRest == HelperInit /\ focus = CHOOSE a \in Apps : TRUE
HelperRest == UNCHANGED <<vars, removalVars, partVars>>
HelperMoves == HelperNext /\ HelperRest

Chord == INSTANCE ChordKeys WITH
    Keys <- {"a", "b"}, Chords <- MCChords, ComboTerm <- 1, HoldTerm <- 2,
    OnInterrupt <- TRUE, MacroMax <- 3, MaxLost <- 1, kb <- v1, app <- v2, pressed <- v3,
    timer <- v4, lost <- v5
ChordAtRest == v1 = 0 /\ v2 = 0 /\ v3 = 0 /\ v4 = 0 /\ v5 = 0
ChordRest == UNCHANGED <<vars, helperVars, removalVars>>
ChordNext == Chord!Next /\ ChordRest

RemovalAtRest == RemovalInit /\ named /\ product /\ held = {}
RemovalIdles == UNCHANGED <<vars, helperVars, partVars>>
RemovalMoves == RemovalNext /\ RemovalIdles

------------------------------------------------------------------------------
ASSUME MCLifeAssumption ==
    /\ ServiceLifeAssumption
    /\ UiHelperAssumption
    /\ Chord!ChordKeysAssumption
    /\ CleanupAssumption

MCInit ==
    /\ board \in Boards /\ Init
    /\ IF board = "helper" THEN HelperInit ELSE HelperAtRest
    /\ IF board = "chord" THEN Chord!Init ELSE ChordAtRest
    /\ IF board = "cleanup" THEN RemovalInit ELSE RemovalAtRest
MCNext ==
    /\ UNCHANGED board
    /\ \/ board = "service" /\ ServiceNext
       \/ board = "helper" /\ HelperMoves
       \/ board = "chord" /\ ChordNext
       \/ board = "cleanup" /\ RemovalMoves
(* The helper's threads go on while it lives; time passes, and the thread of  *)
(* a timer pumps its messages; the user of the removal takes its steps, and   *)
(* restarts when told so                                                      *)
HelperStep(A) == board = "helper" /\ A /\ HelperRest /\ UNCHANGED board
ChordStep(A) == board = "chord" /\ A /\ ChordRest /\ UNCHANGED board
RemovalStep(A) == board = "cleanup" /\ A /\ RemovalIdles /\ UNCHANGED board
Fairness ==
    /\ WF_mcVars(HelperStep(ReadPipe)) /\ WF_mcVars(HelperStep(ClientGone))
    /\ WF_mcVars(HelperStep(SrvWndProc))
    /\ WF_mcVars(ChordStep(Chord!Passes)) /\ WF_mcVars(ChordStep(Chord!ChordTick))
    /\ SF_mcVars(RemovalStep(Open)) /\ SF_mcVars(RemovalStep(Remove))
    /\ SF_mcVars(RemovalStep(Products)) /\ SF_mcVars(RemovalStep(RemoveRest))
    /\ SF_mcVars(RemovalStep(LookAgain)) /\ SF_mcVars(RemovalStep(RestartAsTold))

MCSpec == MCInit /\ [][MCNext]_mcVars /\ Fairness

------------------------------------------------------------------------------
(* Properties: those of the service, of the helper and of the removal are     *)
(* checked as ServiceLife, UiHelper and Cleanup state them.                   *)

(* The counters of the keys agree with the keys, and nothing stays held in    *)
(* the application by itself                                                  *)
KeysAreCounted == board = "chord" => Chord!KeysAreCounted /\ Chord!HeldIsOwned

(* A list that nobody asks for leaves the screen (UiHelper!ListsGo), a macro  *)
(* comes to its end, and a user who goes on is rid of everything: what a part *)
(* has begun it ends                                                          *)
MacroRuns == board = "chord" /\ v1.macro # Chord!Quiet
ListStays == win.shown /\ \A a \in Apps : ui[a] = Nothing
Begun == MacroRuns \/ ListStays \/ (board = "cleanup" /\ ~Clean)
PartsEnd == Begun ~> ~Begun
==============================================================================

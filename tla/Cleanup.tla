------------------------------ MODULE Cleanup ------------------------------
(***************************************************************************)
(* jamotong-cleanup.exe (cleanup_tool.c): it lists what is left of every   *)
(* version, removes the products through the installer and then, after     *)
(* looking again, the rest; a file that a program still holds is deleted   *)
(* at the next restart, after which the tool is run again.  The machine is *)
(* the files, the registry keys and the installed product; the installer   *)
(* is external.                                                            *)
(***************************************************************************)
EXTENDS Integers, FiniteSets

CONSTANTS
    MaxFaults   \* bound on failures of the installer and of registry deletions

CleanupAssumption == MaxFaults \in Nat

InFolder == {"exe", "dll", "built", "theirs"}   \* in the install folder
OurFiles == {"exe", "dll", "built"}             \* by name or extension (OurFile)
ByMsi    == {"exe", "dll"}                      \* what the installer put there itself
Files    == InFolder \cup {"ime", "settings"}   \* System32\jamotong.ime; %APPDATA%\Jamotong
RegKeys  == {"clsid", "profile", "installDir", "immKey", "userList"}

VARIABLES
    named,     \* the install folder is called Jamotong, and lies where the tool looks
    product,   \* it was installed by an installer that still lists it
    onDisk,    \* the files there are
    held,      \* those that a running program holds
    atRestart, \* those to be deleted at the next restart
    registry,  \* the registry keys there are
    faults,
    pc,        \* "closed", "open", "products", "rest", "count", "ended"
    items,     \* what the last look found
    tick,      \* the box for the user's own data
    reboot, pending, failed,   \* g_reboot, g_pending, products that could not be removed
    message    \* what the window says at the end

machine == <<named, product, onDisk, held, atRestart, registry, faults>>
tool == <<pc, items, tick, reboot, pending, failed, message>>
removalVars == <<machine, tool>>

RemovalInit ==
    /\ named \in BOOLEAN /\ product \in BOOLEAN
    /\ onDisk = Files /\ held \in SUBSET {"exe", "dll", "ime"}
    /\ atRestart = {} /\ registry = RegKeys /\ faults = 0
    /\ pc = "closed" /\ items = {} /\ tick = FALSE
    /\ reboot = FALSE /\ pending = FALSE /\ failed = FALSE /\ message = "none"

------------------------------------------------------------------------------
(* Finding *)

\* A folder of another name is known only from the registry.
FolderKnown(ks) == named \/ "clsid" \in ks \/ "installDir" \in ks

\* A wrong look: the old input method is known by its registry key alone.
FoundByKeys(d, ks, p) ==
    ks \cup (IF p THEN {"product"} ELSE {}) \cup (d \cap {"settings"})
       \cup (IF d \cap InFolder # {} /\ FolderKnown(ks) THEN {"folder"} ELSE {})

Found(d, ks, p) ==
    ks
    \cup (IF p THEN {"product"} ELSE {})
    \cup (IF d \cap InFolder # {} /\ FolderKnown(ks) THEN {"folder"} ELSE {})
    \cup (d \cap {"ime", "settings"})

\* PendingRestart: any pending name with jamotong in it.
PendingSeen(later) == later \cap ((IF named THEN InFolder ELSE ByMsi) \cup {"ime"}) # {}

Look == items' = Found(onDisk, registry, product) /\ pending' = PendingSeen(atRestart)

Open == pc = "closed" /\ pc' = "open" /\ Look /\ message' = "none"
        /\ reboot' = FALSE /\ failed' = FALSE /\ tick' = FALSE /\ UNCHANGED machine

Rescan == pc \in {"open", "ended"} /\ Look /\ UNCHANGED <<machine, pc, tick, reboot, failed, message>>

Tick == pc \in {"open", "ended"} /\ tick' = ~tick
        /\ UNCHANGED <<machine, pc, items, reboot, pending, failed, message>>

Close == pc \in {"open", "ended"} /\ pc' = "closed"
         /\ UNCHANGED <<machine, items, tick, reboot, pending, failed, message>>

------------------------------------------------------------------------------
(* Removing *)

\* Remove all, confirmed: the manager and the helper are ended first.
Remove ==
    /\ pc \in {"open", "ended"} /\ (items \ {"settings"} # {} \/ (items # {} /\ tick))
    /\ pc' = "products" /\ reboot' = FALSE /\ failed' = FALSE /\ message' = "none"
    /\ held' = held \ {"exe"}
    /\ UNCHANGED <<named, product, onDisk, atRestart, registry, faults, items, tick, pending>>

\* The installer removes its own files and registrations; of a file in use it says that
\* a restart is needed.
Products ==
    /\ pc = "products" /\ pc' = "rest"
    /\ IF "product" \notin items \/ ~product
       THEN UNCHANGED <<product, onDisk, atRestart, registry, faults, reboot, failed>>
       ELSE \/ /\ product' = FALSE
               /\ onDisk' = onDisk \ (ByMsi \ held)
               /\ atRestart' = atRestart \cup (ByMsi \cap onDisk \cap held)
               /\ reboot' = (reboot \/ ByMsi \cap onDisk \cap held # {})
               /\ registry' = registry \ {"clsid", "profile", "installDir"}
               /\ UNCHANGED <<faults, failed>>
            \/ /\ faults < MaxFaults /\ faults' = faults + 1 /\ failed' = TRUE
               /\ UNCHANGED <<product, onDisk, atRestart, registry, reboot>>
    /\ UNCHANGED <<named, held, items, tick, pending, message>>

\* A wrong folder cleaning: always the whole tree.
WholeTree == InFolder

\* A folder not called Jamotong loses only our own files.
CleanFolder == IF named THEN InFolder ELSE OurFiles

\* What is left is looked for again and removed: files now or at the next restart.
RemoveRest ==
    /\ pc = "rest" /\ pc' = "count"
    /\ LET found == Found(onDisk, registry, product)
           files == onDisk \cap ((IF "folder" \in found THEN CleanFolder ELSE {})
                               \cup (found \cap {"ime"})
                               \cup (IF tick /\ "settings" \in found THEN {"settings"} ELSE {}))
       IN  /\ onDisk' = onDisk \ (files \ held)
           /\ atRestart' = atRestart \cup (files \cap held)
           /\ reboot' = (reboot \/ files \cap held # {})
           /\ \/ registry' = registry \ found /\ UNCHANGED faults
              \/ \E k \in registry \cap found :
                    faults < MaxFaults /\ faults' = faults + 1 /\ registry' = (registry \ found) \cup {k}
    /\ UNCHANGED <<named, product, held, items, tick, pending, failed, message>>

\* A wrong last word: only this run's own results count.
MessageOfThisRun(left) == IF reboot THEN "restart" ELSE IF failed THEN "failed" ELSE "done"

Message(left) ==
    IF reboot \/ PendingSeen(atRestart) \/ left THEN "restart" ELSE IF failed THEN "failed" ELSE "done"

LookAgain ==
    /\ pc = "count" /\ pc' = "ended" /\ Look
    /\ message' = Message(Found(onDisk, registry, product) \ {"settings"} # {})
    /\ UNCHANGED <<machine, tick, reboot, failed>>

------------------------------------------------------------------------------
(* The machine *)

\* A program lets go of a file.
LetGo(f) == f \in held /\ held' = held \ {f}
            /\ UNCHANGED <<named, product, onDisk, atRestart, registry, faults, tool>>

\* A restart, asked for or not, also in the middle of a removal.  Nothing loads the input
\* method any more when its registration is gone.
Restart ==
    /\ onDisk' = onDisk \ atRestart /\ atRestart' = {}
    /\ held' = IF "clsid" \in registry THEN held \cap onDisk' ELSE {}
    /\ pc' = "closed"
    /\ UNCHANGED <<named, product, registry, faults, items, tick, reboot, pending, failed, message>>

RemovalNext == Open \/ Rescan \/ Tick \/ Close \/ Remove \/ Products \/ RemoveRest \/ LookAgain \/ Restart
        \/ \E f \in Files : LetGo(f)

RemovalSpec == RemovalInit /\ [][RemovalNext]_removalVars

\* The user restarts when told so and runs the tool again, and is not cut off every time.
RestartAsTold == message = "restart" /\ pc = "ended" /\ Restart

RemovalFairness ==
    /\ SF_removalVars(Open) /\ SF_removalVars(Remove) /\ SF_removalVars(Products)
    /\ SF_removalVars(RemoveRest) /\ SF_removalVars(LookAgain) /\ SF_removalVars(RestartAsTold)

RemovalFairSpec == RemovalSpec /\ RemovalFairness

------------------------------------------------------------------------------

Traces == registry \cup (onDisk \cap (OurFiles \cup {"ime"})) \cup (IF product THEN {"product"} ELSE {})

\* "Done - nothing of Jamotong is left on this PC" is true of a folder where the tool
\* looks: what is in use, waits for a restart or could not be removed is never reported as
\* done.  (Of another folder the installer may forget files once its keys are gone.)
DoneMeansGone == pc = "ended" /\ message = "done" /\ (named \/ ~product) =>
    registry = {} /\ ~product /\ (named => Traces = {}) /\ "ime" \notin onDisk

\* The user's settings go only with the box ticked, other people's files in a folder of
\* another name never, neither now nor at a restart.
OnlyOursAreTaken ==
    /\ "settings" \in onDisk \ onDisk' => tick
    /\ "theirs" \in (atRestart' \cup (onDisk \ onDisk')) => named
OnlyOursGoes == [][OnlyOursAreTaken]_removalVars

\* A user who restarts when told so and runs the tool again gets rid of everything: the
\* file comment, "which finishes what is left".
Clean == named => Traces = {}
EventuallyClean == <>Clean
=============================================================================

---------------------------- MODULE Registration ----------------------------
(***************************************************************************)
(* Registration of the input method: jamotong_app.exe --register checks    *)
(* and locks the install folder (setup_cmd.c, install_acl.c), registers    *)
(* the 64-bit DLL itself and the 32-bit one through regsvr32, each in      *)
(* steps that may fail (dllmain.c, register.c), and undoes all of it when  *)
(* a part has failed.  The process may be killed at any step and is run    *)
(* again.  The registry and the services of TSF are external: a step       *)
(* succeeds or fails.                                                      *)
(***************************************************************************)
EXTENDS Integers

CONSTANTS
    NCats,     \* the number of categories registered
    Folders,   \* the folders from the drive's root down to the parent, as tried
    MaxRuns    \* bound on the runs of the program

RegistrationAssumption == NCats \in Nat \ {0} /\ MaxRuns \in Nat

Sides == {"x64", "x86"}

VARIABLES
    path,     \* the root and the ancestors: role -> the folder
    locked,   \* the install folder has the strict access list
    reg,      \* side -> what is registered: class key, profile, number of categories
    job,      \* side -> the registration under way
    pc,       \* where the program is
    op,       \* "register" or "unregister"
    rc,       \* its exit code
    before,   \* what was registered when it started (history)
    undone,   \* every undo step of this run succeeded (history)
    late,     \* a regsvr32 was given up on and may still run (history)
    runs

vars == <<path, locked, reg, job, pc, op, rc, before, undone, late, runs>>

Nothing == [clsid |-> "none", profile |-> FALSE, cats |-> 0]
Whole   == [clsid |-> "whole", profile |-> TRUE, cats |-> NCats]
NoJobs  == [s \in Sides |-> "none"]

Init ==
    /\ path \in [{"root", "ancestor"} -> Folders]
    /\ locked = FALSE
    /\ reg = [s \in Sides |-> Nothing] /\ before = reg
    /\ job = NoJobs
    /\ pc = "idle" /\ op = "register" /\ rc = 0
    /\ undone = TRUE /\ late = FALSE /\ runs = 0

------------------------------------------------------------------------------
(* The folder *)

\* A right that lets its holder put other contents at the path: renaming, deleting and
\* changing the access list; on the folder itself also adding.  The root cannot be renamed.
Bad(role) == {"control", "deleteChild"} \cup (IF role = "root" THEN {} ELSE {"delete"})

\* Entries that deny, that only children inherit or that stand for the creator do not count.
InstallAcl_FirstUnsafe(folder, role) ==
    {a \in folder.aces : /\ a.allow /\ ~a.inheritOnly /\ a.sid \notin {"trusted", "creatorOwner"}
                         /\ a.right \in Bad(role)}

FolderIsSafe(folder, role) ==
    /\ ~folder.link
    /\ folder.owner = "trusted"
    /\ InstallAcl_FirstUnsafe(folder, role) = {}

AncestorsAreSafe == \A role \in DOMAIN path : FolderIsSafe(path[role], role)

------------------------------------------------------------------------------
(* The DLL: one registration, step by step *)

\* RegisterRollback: some of the parts are removed; a removal that fails is ignored.
Parts == {"clsid", "profile", "cats"}

Removed(s, parts) == [reg EXCEPT ![s] =
    [clsid   |-> IF "clsid" \in parts THEN "none" ELSE @.clsid,
     profile |-> @.profile /\ "profile" \notin parts,
     cats    |-> IF "cats" \in parts THEN 0 ELSE @.cats]]

Rollback(parts, s) == \E failed \in SUBSET parts :
    reg' = Removed(s, parts \ failed) /\ undone' = (undone /\ failed = {})

MakeKey(s) ==
    /\ job[s] = "start"
    /\ \/ reg' = [reg EXCEPT ![s].clsid = IF @ = "none" THEN "key" ELSE @]
          /\ job' = [job EXCEPT ![s] = "key"]
       \/ UNCHANGED reg /\ job' = [job EXCEPT ![s] = "failed"]
    /\ UNCHANGED undone

WriteKey(s) ==
    /\ job[s] = "key"
    /\ \/ reg' = [reg EXCEPT ![s].clsid = "whole"] /\ UNCHANGED undone
          /\ job' = [job EXCEPT ![s] = "profile"]
       \/ Rollback({"clsid"}, s) /\ job' = [job EXCEPT ![s] = "failed"]

RegisterProfiles(s) ==
    /\ job[s] = "profile"
    /\ \/ reg' = [reg EXCEPT ![s].profile = TRUE] /\ UNCHANGED undone
          /\ job' = [job EXCEPT ![s] = "cats"]
       \/ Rollback({"clsid", "profile"}, s) /\ job' = [job EXCEPT ![s] = "failed"]

\* A wrong end of a registration: that the categories fail is not noticed.
CatsUnnoticed(s) == UNCHANGED <<reg, undone>> /\ job' = [job EXCEPT ![s] = "done"]

CatsFail(s) == Rollback(Parts, s) /\ job' = [job EXCEPT ![s] = "failed"]

\* One category after another, the first failure ends it.
RegisterCategories(s) ==
    /\ job[s] = "cats"
    /\ \/ /\ UNCHANGED undone
          /\ IF reg[s].cats < NCats
             THEN reg' = [reg EXCEPT ![s].cats = @ + 1] /\ UNCHANGED job
             ELSE UNCHANGED reg /\ job' = [job EXCEPT ![s] = "done"]
       \/ CatsFail(s)

JobStep(s) ==
    /\ MakeKey(s) \/ WriteKey(s) \/ RegisterProfiles(s) \/ RegisterCategories(s)
    /\ UNCHANGED <<path, locked, pc, op, rc, before, late, runs>>

------------------------------------------------------------------------------
(* The program *)

Keep == UNCHANGED <<path, runs, before, op>>

HelperEnded == job["x86"] \in {"none", "done", "failed"}

\* The next run starts when a regsvr32 that an earlier one has left behind has ended.
Start(o) ==
    /\ pc = "idle" /\ HelperEnded /\ runs < MaxRuns /\ runs' = runs + 1
    /\ op' = o /\ rc' = 0 /\ before' = reg /\ undone' = TRUE
    /\ pc' = IF o = "register" THEN "check" ELSE "undo64"
    /\ job' = NoJobs
    /\ UNCHANGED <<path, locked, reg, late>>

\* Not elevated, an ancestor others can change, or a folder that cannot be locked.
Refuse(code) == pc' = "done" /\ rc' = code /\ UNCHANGED <<reg, job, undone>>

Check ==
    /\ pc = "check"
    /\ \/ Refuse(7) /\ UNCHANGED locked
       \/ ~AncestorsAreSafe /\ Refuse(8) /\ UNCHANGED locked
       \/ AncestorsAreSafe /\ Refuse(8) /\ locked' \in {locked, TRUE}
       \/ /\ AncestorsAreSafe
          /\ locked' = TRUE /\ pc' = "reg64" /\ job' = [job EXCEPT !["x64"] = "start"]
          /\ UNCHANGED <<reg, undone, rc>>
    /\ Keep /\ UNCHANGED late

\* The DLL does not load (2), or it has run to its end; then regsvr32 is started, or not (5).
Register64 ==
    /\ pc = "reg64" /\ job["x64"] \in {"start", "done", "failed"}
    /\ rc' = CASE job["x64"] = "start" -> 2 [] job["x64"] = "failed" -> 3 [] OTHER -> 0
    /\ pc' = "reg32"
    /\ \E started \in BOOLEAN :
        job' = [x64 |-> IF job["x64"] = "done" THEN "done" ELSE "failed",
                x86 |-> IF started THEN "start" ELSE "failed"]
    /\ Keep /\ UNCHANGED <<locked, reg, undone, late>>

\* regsvr32 has ended, or the wait of two minutes has: its exit code then is that of a
\* process still running, a failure.
Register32 ==
    /\ pc = "reg32"
    /\ \/ job["x86"] \in {"done", "failed"} /\ UNCHANGED late
       \/ job["x86"] \notin {"done", "failed"} /\ late' = TRUE
    /\ rc' = IF rc = 0 /\ job["x86"] # "done" THEN 6 ELSE rc
    /\ pc' = IF rc' = 0 THEN "build" ELSE "undo64"
    /\ Keep /\ UNCHANGED <<locked, reg, job, undone>>

\* DllUnregisterServer, after a failed registration and for --unregister: everything is
\* tried on both sides.  Without a class key it reports success, and the result of the
\* categories is not looked at.  A regsvr32 that is late goes on beside it.
Undo(s) == \E failed \in SUBSET Parts :
    /\ reg' = Removed(s, Parts \ failed) /\ undone' = (undone /\ failed = {})
    /\ rc' = IF rc = 0 /\ reg[s].clsid # "none" /\ failed \cap {"clsid", "profile"} # {}
             THEN 3 ELSE rc

Undo64 == pc = "undo64" /\ pc' = "undo32" /\ Undo("x64") /\ Keep /\ UNCHANGED <<locked, job, late>>

Undo32 == pc = "undo32" /\ pc' = "done" /\ Undo("x86") /\ Keep /\ UNCHANGED <<locked, job, late>>

BuildLayouts == pc = "build" /\ pc' = "done" /\ Keep /\ UNCHANGED <<locked, reg, job, rc, undone, late>>

\* The installer sees the exit code.
Exit ==
    /\ pc = "done" /\ HelperEnded
    /\ pc' = "idle" /\ job' = NoJobs /\ late' = FALSE
    /\ Keep /\ UNCHANGED <<locked, reg, rc, undone>>

\* The power goes; or the program is killed, and a regsvr32 it waits for goes on.
Crash ==
    /\ pc \notin {"idle", "done"}
    /\ pc' = "idle" /\ late' = FALSE
    /\ job' \in {NoJobs, [NoJobs EXCEPT !["x86"] = job["x86"]]}
    /\ Keep /\ UNCHANGED <<locked, reg, rc, undone>>

Next ==
    \/ \E o \in {"register", "unregister"} : Start(o)
    \/ \E s \in Sides : JobStep(s)
    \/ Check \/ Register64 \/ Register32 \/ Undo64 \/ Undo32 \/ BuildLayouts \/ Exit \/ Crash

Spec == Init /\ [][Next]_vars

------------------------------------------------------------------------------

\* When --register says it is done, both sides are registered completely, in a locked
\* folder nobody else can move away; when it says it failed, nothing of a registration is
\* left, whatever an earlier run that was killed had left, unless an undo step failed
\* itself or regsvr32 was still running; when it refused, nothing has changed.
NoHalfRegistration ==
    pc = "done" /\ op = "register" =>
        /\ rc = 0 => \A s \in Sides : reg[s] = Whole
        /\ rc = 0 => locked /\ AncestorsAreSafe
        /\ rc \in {7, 8} => reg = before
        /\ rc \notin {0, 7, 8} /\ undone /\ ~late => \A s \in Sides : reg[s] = Nothing

\* dllmain.c:179: a registration that is left, for lack of rights say, is not reported as removed.
UnregisterTellsWhatIsLeft ==
    pc = "done" /\ op = "unregister" /\ rc = 0 => \A s \in Sides : reg[s] = Nothing
=============================================================================

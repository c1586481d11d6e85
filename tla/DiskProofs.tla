------------------------------ MODULE DiskProofs ------------------------------
(***************************************************************************)
(* Proofs about the parts that live on disk, with processes that die or    *)
(* are killed between any two steps: the registration, for any folders,    *)
(* number of categories and runs of the program; as instances on           *)
(* variables of their own, the settings file for any processes of the two  *)
(* versions, built layouts for any formats, the dictionaries that a layout *)
(* opens for any folders and changes, and the files of the layout manager  *)
(* for any files; and the list of layouts with the window that edits it,   *)
(* for any layouts and configurations.                                     *)
(***************************************************************************)
EXTENDS Registration, Settings, FiniteSetTheorems, SequenceTheorems, TLAPS,
        WellFoundedInduction, NaturalsInduction

CONSTANTS Procs, Newer, KeepMax, MaxSaves, MaxEdits,   \* of ConfigFile
          Formats, Kinds, MaxDeaths,                   \* of LayoutBuild
          Pieces, Shelves, FileKinds, MaxChanges, MaxOpen,   \* of SeqOpen
          Papers, MayFail, MaxFaults                   \* of ManagerFiles

VARIABLES file, temps, cfg, at, kept, basis, saves, edits,
          source, built, program, builder, entry, died,
          onDisk, lazy, sl, openFiles, eaten, changes,
          text, curFile, work, installed, exported, trying, told, faults, turns

Saving   == INSTANCE ConfigFile WITH pc <- at
Building == INSTANCE LayoutBuild
Opening  == INSTANCE SeqOpen WITH Parts <- Pieces, Places <- Shelves, disk <- onDisk
Managing == INSTANCE ManagerFiles WITH Files <- Papers, steps <- turns

Ended == {"done", "failed"}
Jobs == {"none", "start", "key", "profile", "cats"} \cup Ended
Registered == [clsid : {"none", "key", "whole"}, profile : BOOLEAN, cats : 0..NCats]

TypeOK ==
    /\ locked \in BOOLEAN /\ undone \in BOOLEAN /\ late \in BOOLEAN
    /\ reg \in [Sides -> Registered] /\ job \in [Sides -> Jobs]
    /\ pc \in {"idle", "check", "reg64", "reg32", "build", "undo64", "undo32", "done"}
    /\ op \in {"register", "unregister"} /\ rc \in Nat

\* What the steps that a registration has behind it have left.
Reached(s) ==
    /\ job[s] = "key" => reg[s].clsid # "none"
    /\ job[s] \in {"profile", "cats"} => reg[s].clsid = "whole"
    /\ job[s] = "cats" => reg[s].profile
    /\ job[s] = "done" => reg[s] = Whole

\* While the program registers: the folder is safe, and what a job has reached is there.
Registering ==
    /\ op = "register" /\ locked /\ AncestorsAreSafe
    /\ \A s \in Sides : Reached(s)

Quiet == \A s \in Sides : job[s] = "none"

Checked == op = "register" /\ Quiet /\ reg = before

(* Where the program is, and what holds there.  After a failure the 64-bit   *)
(* job has ended, and the other one too, unless it was given up on; a side   *)
(* that was undone stays so.                                                 *)
Phases ==
    /\ pc = "idle" => job["x64"] = "none"
    /\ pc = "check" => Checked
    /\ pc = "reg64" => Registering /\ job["x86"] = "none" /\ job["x64"] # "none"
    /\ pc = "reg32" => /\ Registering /\ job["x64"] \in Ended /\ rc \in {0, 2, 3}
                       /\ rc = 0 => job["x64"] = "done"
    /\ pc = "build" => Registering /\ rc = 0 /\ \A s \in Sides : job[s] = "done"
    /\ op = "unregister" => pc \in {"idle", "undo64", "undo32", "done"} /\ Quiet
    /\ pc \in {"undo64", "undo32"} /\ op = "register" => rc \in {2, 3, 6}

Failing ==
    op = "register" /\ (pc \in {"undo64", "undo32"} \/ (pc = "done" /\ rc \notin {0, 7, 8})) =>
        /\ job["x64"] \in Ended /\ (late \/ job["x86"] \in Ended)
        /\ pc \in {"undo32", "done"} /\ undone => reg["x64"] = Nothing
        /\ pc = "done" /\ undone /\ ~late => reg["x86"] = Nothing

Finished ==
    pc = "done" /\ op = "register" =>
        /\ rc = 0 => Registering /\ \A s \in Sides : job[s] = "done"
        /\ rc \in {7, 8} => Checked

RegInv == TypeOK /\ Phases /\ Failing /\ Finished

-----------------------------------------------------------------------------
\* One step of a registration: only that side changes, and what it reached is there.
LEMMA JobEffect ==
    ASSUME RegistrationAssumption, TypeOK, NEW s \in Sides, JobStep(s)
    PROVE  /\ job[s] \notin Ended \cup {"none"} /\ job'[s] # "none"
           /\ \A o \in Sides \ {s} : job'[o] = job[o] /\ reg'[o] = reg[o]
           /\ undone' => undone
           /\ UNCHANGED <<path, locked, pc, op, rc, before, late, runs>>
           /\ TypeOK' /\ (Reached(s) => Reached(s)')
<1>1. UNCHANGED <<path, locked, pc, op, rc, before, late, runs>>
    BY DEF JobStep
<1>2. NCats \in Nat \ {0} /\ reg[s] \in Registered /\ job[s] \in Jobs
    BY DEF RegistrationAssumption, TypeOK
<1> DEFINE Other == \A o \in Sides \ {s} : job'[o] = job[o] /\ reg'[o] = reg[o]
           Types == reg' \in [Sides -> Registered] /\ job' \in [Sides -> Jobs] /\ undone' \in BOOLEAN
<1>3. ASSUME NEW parts \in SUBSET Parts, Rollback(parts, s), job' = [job EXCEPT ![s] = "failed"]
      PROVE  Other /\ Types /\ (undone' => undone) /\ job'[s] = "failed" /\ Reached(s)'
    <2>1. PICK remains \in SUBSET parts :
            reg' = Removed(s, parts \ remains) /\ undone' = (undone /\ remains = {})
        BY <1>3 DEF Rollback
    <2> DEFINE left == [clsid |-> IF "clsid" \in parts \ remains THEN "none" ELSE reg[s].clsid,
                        profile |-> reg[s].profile /\ "profile" \notin parts \ remains,
                        cats |-> IF "cats" \in parts \ remains THEN 0 ELSE reg[s].cats]
    <2>2. reg' = [reg EXCEPT ![s] = left]
        BY <2>1 DEF Removed
    <2>3. left \in Registered
        BY <1>2 DEF Registered
    <2> HIDE DEF left
    <2>4. Types /\ Other /\ job'[s] = "failed"
        BY <1>3, <2>1, <2>2, <2>3 DEF TypeOK, Jobs, Ended
    <2>5. Reached(s)'
        BY <2>4 DEF Reached
    <2> QED BY <2>1, <2>4, <2>5
<1>4. ASSUME NEW r \in Registered, reg' = [reg EXCEPT ![s] = r],
             NEW j \in Jobs, job' = [job EXCEPT ![s] = j], UNCHANGED undone
      PROVE  Other /\ Types /\ (undone' => undone) /\ job'[s] = j /\ reg'[s] = r
    BY <1>4 DEF TypeOK
<1>5. reg = [reg EXCEPT ![s] = reg[s]] /\ job = [job EXCEPT ![s] = job[s]]
    BY DEF TypeOK
<1> DEFINE Goal == /\ job[s] \notin Ended \cup {"none"} /\ job'[s] # "none"
                   /\ Other /\ Types /\ (undone' => undone) /\ (Reached(s) => Reached(s)')
<1> HIDE DEF Other, Types
<1>6. ASSUME MakeKey(s) PROVE Goal
    <2>0. job[s] = "start" /\ UNCHANGED undone
        BY <1>6 DEF MakeKey
    <2>1. CASE UNCHANGED reg /\ job' = [job EXCEPT ![s] = "failed"]
        <3>1. reg' = [reg EXCEPT ![s] = reg[s]]
            BY <1>5, <2>1
        <3>2. Other /\ Types /\ (undone' => undone) /\ job'[s] = "failed"
            BY <1>2, <1>4, <2>0, <2>1, <3>1 DEF Jobs, Ended
        <3> QED BY <2>0, <3>2 DEF Reached, Ended
    <2>2. CASE reg' = [reg EXCEPT ![s].clsid = IF @ = "none" THEN "key" ELSE @]
               /\ job' = [job EXCEPT ![s] = "key"]
        <3> DEFINE r == [reg[s] EXCEPT !.clsid = IF @ = "none" THEN "key" ELSE @]
        <3>1. r \in Registered /\ r.clsid # "none" /\ reg' = [reg EXCEPT ![s] = r]
            BY <1>2, <2>2 DEF Registered
        <3> HIDE DEF r
        <3>2. Other /\ Types /\ (undone' => undone) /\ job'[s] = "key" /\ reg'[s] = r
            BY <1>4, <2>0, <2>2, <3>1 DEF Jobs
        <3> QED BY <2>0, <3>1, <3>2 DEF Reached, Ended
    <2> QED BY <1>6, <2>1, <2>2 DEF MakeKey
<1>7. ASSUME WriteKey(s) PROVE Goal
    <2>0. job[s] = "key"
        BY <1>7 DEF WriteKey
    <2>1. CASE Rollback({"clsid"}, s) /\ job' = [job EXCEPT ![s] = "failed"]
        <3>1. Other /\ Types /\ (undone' => undone) /\ job'[s] = "failed" /\ Reached(s)'
            BY <1>3, <2>1 DEF Parts
        <3> QED BY <2>0, <3>1 DEF Ended
    <2>2. CASE reg' = [reg EXCEPT ![s].clsid = "whole"] /\ UNCHANGED undone
               /\ job' = [job EXCEPT ![s] = "profile"]
        <3> DEFINE r == [reg[s] EXCEPT !.clsid = "whole"]
        <3>1. r \in Registered /\ r.clsid = "whole" /\ reg' = [reg EXCEPT ![s] = r]
            BY <1>2, <2>2 DEF Registered
        <3> HIDE DEF r
        <3>2. Other /\ Types /\ (undone' => undone) /\ job'[s] = "profile" /\ reg'[s] = r
            BY <1>4, <2>2, <3>1 DEF Jobs
        <3> QED BY <2>0, <3>1, <3>2 DEF Reached, Ended
    <2> QED BY <1>7, <2>1, <2>2 DEF WriteKey
<1>8. ASSUME RegisterProfiles(s) PROVE Goal
    <2>0. job[s] = "profile"
        BY <1>8 DEF RegisterProfiles
    <2>1. CASE Rollback({"clsid", "profile"}, s) /\ job' = [job EXCEPT ![s] = "failed"]
        <3>1. Other /\ Types /\ (undone' => undone) /\ job'[s] = "failed" /\ Reached(s)'
            BY <1>3, <2>1 DEF Parts
        <3> QED BY <2>0, <3>1 DEF Ended
    <2>2. CASE reg' = [reg EXCEPT ![s].profile = TRUE] /\ UNCHANGED undone
               /\ job' = [job EXCEPT ![s] = "cats"]
        <3> DEFINE r == [reg[s] EXCEPT !.profile = TRUE]
        <3>1. r \in Registered /\ r.clsid = reg[s].clsid /\ r.profile /\ reg' = [reg EXCEPT ![s] = r]
            BY <1>2, <2>2 DEF Registered
        <3> HIDE DEF r
        <3>2. Other /\ Types /\ (undone' => undone) /\ job'[s] = "cats" /\ reg'[s] = r
            BY <1>4, <2>2, <3>1 DEF Jobs
        <3> QED BY <2>0, <3>1, <3>2 DEF Reached, Ended
    <2> QED BY <1>8, <2>1, <2>2 DEF RegisterProfiles
<1>9. ASSUME RegisterCategories(s) PROVE Goal
    <2>0. job[s] = "cats"
        BY <1>9 DEF RegisterCategories
    <2>1. CASE CatsFail(s)
        <3>1. Other /\ Types /\ (undone' => undone) /\ job'[s] = "failed" /\ Reached(s)'
            BY <1>3, <2>1 DEF CatsFail
        <3> QED BY <2>0, <3>1 DEF Ended
    <2>2. CASE UNCHANGED <<undone, job>> /\ reg[s].cats < NCats /\ reg' = [reg EXCEPT ![s].cats = @ + 1]
        <3> DEFINE r == [reg[s] EXCEPT !.cats = @ + 1]
        <3>1. /\ r \in Registered /\ r.clsid = reg[s].clsid /\ r.profile = reg[s].profile
              /\ reg' = [reg EXCEPT ![s] = r]
            BY <1>2, <2>2 DEF Registered
        <3> HIDE DEF r
        <3>2. Other /\ Types /\ (undone' => undone) /\ job'[s] = "cats" /\ reg'[s] = r
            BY <1>2, <1>4, <1>5, <2>0, <2>2, <3>1
        <3> QED BY <2>0, <3>1, <3>2 DEF Reached, Ended
    <2>3. CASE UNCHANGED <<undone, reg>> /\ ~(reg[s].cats < NCats) /\ job' = [job EXCEPT ![s] = "done"]
        <3>1. Other /\ Types /\ (undone' => undone) /\ job'[s] = "done" /\ reg'[s] = reg[s]
            BY <1>2, <1>4, <1>5, <2>3 DEF Jobs, Ended
        <3>2. reg[s].cats = NCats
            BY <1>2, <2>3 DEF Registered
        <3>3. reg[s].clsid = "whole" /\ reg[s].profile => reg[s] = Whole
            BY <1>2, <3>2 DEF Registered, Whole
        <3> QED BY <2>0, <3>1, <3>3 DEF Reached, Ended
    <2> QED BY <1>9, <2>1, <2>2, <2>3 DEF RegisterCategories
<1>10. Goal
    BY <1>6, <1>7, <1>8, <1>9 DEF JobStep
<1>11. TypeOK'
    BY <1>1, <1>10 DEF TypeOK, Types
<1> QED BY <1>1, <1>10, <1>11 DEF Other

-----------------------------------------------------------------------------
(* The actions of the program, one by one *)

LEMMA StartKeeps ==
    ASSUME RegInv, NEW o \in {"register", "unregister"}, Start(o) PROVE RegInv'
<1>1. /\ pc = "idle" /\ op' = o /\ rc' = 0 /\ before' = reg /\ undone' = TRUE
      /\ pc' = IF o = "register" THEN "check" ELSE "undo64"
      /\ job' = NoJobs /\ UNCHANGED <<path, locked, reg, late>>
    BY DEF Start
<1>2. TypeOK'
    BY <1>1 DEF RegInv, TypeOK, NoJobs, Jobs
<1>3. Quiet'
    BY <1>1 DEF Quiet, NoJobs
<1>4. Phases' /\ Failing' /\ Finished'
    BY <1>1, <1>3 DEF Phases, Failing, Finished, Checked
<1> QED BY <1>2, <1>4 DEF RegInv

\* A refusal leaves what was registered; else the folder is safe and the 64-bit job starts.
LEMMA CheckKeeps == ASSUME RegInv, Check PROVE RegInv'
<1>1. pc = "check" /\ Checked /\ TypeOK /\ UNCHANGED <<path, runs, before, op, late>>
    BY DEF RegInv, Phases, Check, Keep
<1>2. ASSUME NEW code \in {7, 8}, Refuse(code), locked' \in BOOLEAN PROVE RegInv'
    <2>1. pc' = "done" /\ rc' = code /\ UNCHANGED <<reg, job, undone>>
        BY <1>2 DEF Refuse
    <2>2. TypeOK'
        BY <1>1, <1>2, <2>1 DEF TypeOK
    <2>3. Checked'
        BY <1>1, <2>1 DEF Checked, Quiet
    <2>4. op' = "register" /\ rc' \notin {0, 2, 3, 6} /\ rc' \in {7, 8}
        BY <1>2, <2>1, <2>3 DEF Checked
    <2> QED BY <2>1, <2>2, <2>3, <2>4 DEF RegInv, Phases, Failing, Finished
<1>3. ASSUME AncestorsAreSafe, locked' = TRUE, pc' = "reg64", job' = [job EXCEPT !["x64"] = "start"],
             UNCHANGED <<reg, undone, rc>>
      PROVE  RegInv'
    <2>1. TypeOK'
        BY <1>1, <1>3 DEF TypeOK, Jobs
    <2>2. job'["x64"] = "start" /\ job'["x86"] = "none" /\ op' = "register"
        BY <1>1, <1>3 DEF TypeOK, Checked, Quiet, Sides
    <2>3. AncestorsAreSafe'
        BY <1>1, <1>3 DEF AncestorsAreSafe
    <2>4. Registering'
        BY <1>3, <2>2, <2>3 DEF Registering, Reached, Sides
    <2> QED BY <1>3, <2>1, <2>2, <2>4 DEF RegInv, Phases, Failing, Finished
<1>4. locked \in BOOLEAN
    BY <1>1 DEF TypeOK
<1> QED BY <1>2, <1>3, <1>4 DEF Check

LEMMA Register64Keeps == ASSUME RegInv, Register64 PROVE RegInv'
<1>1. /\ pc = "reg64" /\ Registering /\ TypeOK /\ pc' = "reg32"
      /\ UNCHANGED <<path, locked, reg, undone, late, op, before>>
    BY DEF RegInv, Phases, Register64, Keep
<1>2. PICK started \in BOOLEAN :
        job' = [x64 |-> IF job["x64"] = "done" THEN "done" ELSE "failed",
                x86 |-> IF started THEN "start" ELSE "failed"]
    BY DEF Register64
<1>3. /\ job' \in [Sides -> Jobs] /\ job'["x86"] \in {"start", "failed"}
      /\ job'["x64"] = IF job["x64"] = "done" THEN "done" ELSE "failed"
    BY <1>2 DEF Sides, Jobs, Ended
<1>4. rc' \in {0, 2, 3} /\ (rc' = 0 => job["x64"] = "done")
    BY DEF Register64
<1>5. TypeOK'
    BY <1>1, <1>3, <1>4 DEF TypeOK
<1>6. Registering'
    BY <1>1, <1>3 DEF Registering, Reached, Sides, AncestorsAreSafe
<1>7. op' = "register"
    BY <1>1 DEF Registering
<1> QED BY <1>1, <1>3, <1>4, <1>5, <1>6, <1>7 DEF RegInv, Phases, Failing, Finished, Ended

LEMMA Register32Keeps == ASSUME RegInv, Register32 PROVE RegInv'
<1>1. /\ pc = "reg32" /\ Registering /\ TypeOK /\ job["x64"] \in Ended
      /\ rc \in {0, 2, 3} /\ (rc = 0 => job["x64"] = "done")
      /\ UNCHANGED <<path, locked, reg, job, undone, op, before>>
    BY DEF RegInv, Phases, Register32, Keep
<1>2. /\ rc' = IF rc = 0 /\ job["x86"] # "done" THEN 6 ELSE rc
      /\ pc' = IF rc' = 0 THEN "build" ELSE "undo64"
      /\ late' \in BOOLEAN /\ (late' \/ job["x86"] \in Ended)
    BY <1>1 DEF Register32, TypeOK, Ended
<1>3. TypeOK'
    BY <1>1, <1>2 DEF TypeOK
<1>4. Registering' /\ op' = "register"
    BY <1>1 DEF Registering, Reached, AncestorsAreSafe
<1>5. rc' \in {0, 2, 3, 6} /\ (rc' = 0 => \A s \in Sides : job'[s] = "done")
    BY <1>1, <1>2 DEF Sides
<1> QED BY <1>1, <1>2, <1>3, <1>4, <1>5 DEF RegInv, Phases, Failing, Finished

\* An undo touches one side, and if every step of it succeeds nothing is left there.
LEMMA UndoEffect ==
    ASSUME RegistrationAssumption, TypeOK, NEW s \in Sides, Undo(s)
    PROVE  /\ reg' \in [Sides -> Registered] /\ undone' \in BOOLEAN /\ rc' \in Nat
           /\ rc # 0 => rc' = rc
           /\ undone' => undone /\ reg'[s] = Nothing
           /\ \A o \in Sides \ {s} : reg'[o] = reg[o]
<1>1. PICK remains \in SUBSET Parts :
        /\ reg' = Removed(s, Parts \ remains) /\ undone' = (undone /\ remains = {})
        /\ rc' = IF rc = 0 /\ reg[s].clsid # "none" /\ remains \cap {"clsid", "profile"} # {}
                 THEN 3 ELSE rc
    BY DEF Undo
<1> DEFINE left == [clsid |-> IF "clsid" \in Parts \ remains THEN "none" ELSE reg[s].clsid,
                    profile |-> reg[s].profile /\ "profile" \notin Parts \ remains,
                    cats |-> IF "cats" \in Parts \ remains THEN 0 ELSE reg[s].cats]
<1>2. reg' = [reg EXCEPT ![s] = left]
    BY <1>1 DEF Removed
<1>3. left \in Registered
    BY DEF Registered, TypeOK, RegistrationAssumption
<1>4. remains = {} => left = Nothing
    BY DEF Parts, Nothing
<1> HIDE DEF left
<1> QED BY <1>1, <1>2, <1>3, <1>4 DEF TypeOK

LEMMA Undo64Keeps == ASSUME RegistrationAssumption, RegInv, Undo64 PROVE RegInv'
<1>1. /\ pc = "undo64" /\ pc' = "undo32" /\ TypeOK /\ Undo("x64") /\ "x64" \in Sides
      /\ UNCHANGED <<path, locked, job, late, op, before>>
    BY DEF RegInv, Undo64, Keep, Sides
<1>2. /\ reg' \in [Sides -> Registered] /\ undone' \in BOOLEAN /\ rc' \in Nat
      /\ rc # 0 => rc' = rc
      /\ undone' => reg'["x64"] = Nothing
    BY <1>1, UndoEffect
<1>3. TypeOK'
    BY <1>1, <1>2 DEF TypeOK
<1>4. CASE op = "register"
    <2>1. rc' \in {2, 3, 6} /\ job["x64"] \in Ended /\ (late \/ job["x86"] \in Ended)
        BY <1>1, <1>2, <1>4 DEF RegInv, Phases, Failing
    <2> QED BY <1>1, <1>2, <1>3, <1>4, <2>1 DEF RegInv, Phases, Failing, Finished
<1>5. CASE op = "unregister"
    <2>1. Quiet'
        BY <1>1, <1>5 DEF RegInv, Phases, Quiet
    <2> QED BY <1>1, <1>3, <1>5, <2>1 DEF RegInv, Phases, Failing, Finished
<1> QED BY <1>1, <1>4, <1>5 DEF TypeOK

LEMMA Undo32Keeps == ASSUME RegistrationAssumption, RegInv, Undo32 PROVE RegInv'
<1>1. /\ pc = "undo32" /\ pc' = "done" /\ TypeOK /\ Undo("x86") /\ "x86" \in Sides
      /\ UNCHANGED <<path, locked, job, late, op, before>>
    BY DEF RegInv, Undo32, Keep, Sides
<1>2. /\ reg' \in [Sides -> Registered] /\ undone' \in BOOLEAN /\ rc' \in Nat
      /\ rc # 0 => rc' = rc
      /\ undone' => undone /\ reg'["x86"] = Nothing
      /\ reg'["x64"] = reg["x64"]
    <2>1. "x64" \in Sides \ {"x86"}
        BY DEF Sides
    <2> QED BY <1>1, <2>1, UndoEffect
<1>3. TypeOK'
    BY <1>1, <1>2 DEF TypeOK
<1>4. CASE op = "register"
    <2>1. /\ rc' \in {2, 3, 6} /\ job["x64"] \in Ended /\ (late \/ job["x86"] \in Ended)
          /\ undone => reg["x64"] = Nothing
        BY <1>1, <1>2, <1>4 DEF RegInv, Phases, Failing
    <2> QED BY <1>1, <1>2, <1>3, <1>4, <2>1 DEF RegInv, Phases, Failing, Finished
<1>5. CASE op = "unregister"
    <2>1. Quiet'
        BY <1>1, <1>5 DEF RegInv, Phases, Quiet
    <2> QED BY <1>1, <1>3, <1>5, <2>1 DEF RegInv, Phases, Failing, Finished
<1> QED BY <1>1, <1>4, <1>5 DEF TypeOK

LEMMA BuildKeeps == ASSUME RegInv, BuildLayouts PROVE RegInv'
<1>1. /\ pc = "build" /\ pc' = "done" /\ TypeOK /\ Registering /\ rc = 0
      /\ \A s \in Sides : job[s] = "done"
      /\ UNCHANGED <<path, locked, reg, job, rc, undone, late, op, before>>
    BY DEF RegInv, Phases, BuildLayouts, Keep
<1>2. TypeOK'
    BY <1>1 DEF TypeOK
<1>3. Registering' /\ op' = "register"
    BY <1>1 DEF Registering, Reached, AncestorsAreSafe
<1> QED BY <1>1, <1>2, <1>3 DEF RegInv, Phases, Failing, Finished

\* The end of a run, or a kill: no job is left, but perhaps regsvr32 with its own.
LEMMA EndKeeps == ASSUME RegInv, Exit \/ Crash PROVE RegInv'
<1>1. /\ pc' = "idle" /\ late' = FALSE /\ TypeOK
      /\ job' = NoJobs \/ job' = [NoJobs EXCEPT !["x86"] = job["x86"]]
      /\ UNCHANGED <<path, before, op, locked, reg, rc, undone>>
    BY DEF RegInv, Exit, Crash, Keep
<1>2. "x64" \in Sides /\ "x86" \in Sides /\ NoJobs = [s \in Sides |-> "none"]
    BY DEF Sides, NoJobs
<1>3. TypeOK' /\ job'["x64"] = "none" /\ job'["x86"] \in {"none", job["x86"]}
    BY <1>1, <1>2 DEF TypeOK, Jobs
<1>4. op' = "unregister" => Quiet'
    <2>1. op = "unregister" => Quiet
        BY DEF RegInv, Phases
    <2> QED BY <1>1, <1>2, <1>3, <2>1 DEF Quiet, Sides
<1> QED BY <1>1, <1>3, <1>4 DEF RegInv, Phases, Failing, Finished

\* A job goes on while the program waits for it, beside an undo when it was given up on, or
\* after the program was killed.
LEMMA JobKeeps ==
    ASSUME RegistrationAssumption, RegInv, NEW s \in Sides, JobStep(s) PROVE RegInv'
<1>1. /\ job[s] \notin Ended \cup {"none"} /\ job'[s] # "none"
      /\ \A o \in Sides \ {s} : job'[o] = job[o] /\ reg'[o] = reg[o]
      /\ undone' => undone
      /\ UNCHANGED <<path, locked, pc, op, rc, before, late, runs>>
      /\ TypeOK' /\ (Reached(s) => Reached(s)')
    BY JobEffect DEF RegInv
<1>2. ~Quiet /\ op = "register" /\ pc # "check"
    BY <1>1 DEF RegInv, Phases, Quiet, Checked, TypeOK
<1>3. Registering => Registering'
    <2>1. ASSUME NEW o \in Sides, Reached(o) PROVE Reached(o)'
        BY <1>1, <2>1 DEF Reached
    <2> QED BY <1>1, <2>1 DEF Registering, AncestorsAreSafe
<1>4. pc # "build" /\ ~(\A o \in Sides : job[o] = "done")
    BY <1>1 DEF RegInv, Phases, Ended
<1>5. CASE pc = "reg64"
    <2>1. s = "x64"
        BY <1>1, <1>5 DEF RegInv, Phases, Sides
    <2>2. job'["x86"] = "none" /\ job'["x64"] # "none" /\ Registering
        BY <1>1, <1>5, <2>1 DEF RegInv, Phases, Sides
    <2> QED BY <1>1, <1>2, <1>3, <1>5, <2>2 DEF RegInv, Phases, Failing, Finished
<1>6. CASE pc = "reg32"
    <2>1. s = "x86" /\ Registering /\ rc \in {0, 2, 3} /\ (rc = 0 => job["x64"] = "done")
        BY <1>1, <1>6 DEF RegInv, Phases, Sides
    <2>2. job'["x64"] = job["x64"] /\ job["x64"] \in Ended
        BY <1>1, <1>6, <2>1 DEF RegInv, Phases, Sides
    <2> QED BY <1>1, <1>2, <1>3, <1>6, <2>1, <2>2 DEF RegInv, Phases, Failing, Finished
<1>7. CASE pc \in {"undo64", "undo32", "done"}
    <2>1. /\ pc = "done" => rc \notin {0, 7, 8}
          /\ pc # "done" => rc \in {2, 3, 6}
        BY <1>2, <1>4, <1>7 DEF RegInv, Phases, Finished, Checked
    <2>2. /\ job["x64"] \in Ended /\ (late \/ job["x86"] \in Ended)
          /\ pc \in {"undo32", "done"} /\ undone => reg["x64"] = Nothing
        BY <1>2, <1>7, <2>1 DEF RegInv, Failing
    <2>3. s = "x86" /\ late
        BY <1>1, <2>2 DEF Sides
    <2>4. job'["x64"] = job["x64"] /\ reg'["x64"] = reg["x64"]
        BY <1>1, <2>3 DEF Sides
    <2> QED BY <1>1, <1>2, <1>7, <2>1, <2>2, <2>3, <2>4 DEF RegInv, Phases, Failing, Finished
\* A killed program has left its regsvr32 behind.
<1>8. CASE pc = "idle"
    <2>1. "x64" \in Sides \ {s} /\ job["x64"] = "none"
        BY <1>1, <1>8 DEF RegInv, Phases, Sides
    <2>2. job'["x64"] = "none"
        BY <1>1, <2>1
    <2> QED BY <1>1, <1>2, <1>8, <2>2 DEF RegInv, Phases, Failing, Finished
<1> QED BY <1>2, <1>4, <1>5, <1>6, <1>7, <1>8 DEF RegInv, TypeOK

-----------------------------------------------------------------------------
\* Whatever fails, is killed or is given up on in whatever runs of the program: a success
\* means both sides whole in a safe folder, a failure nothing left unless an undo step
\* failed or regsvr32 still ran, a refusal nothing changed.
THEOREM NoRunLeavesAHalf ==
    ASSUME RegistrationAssumption PROVE Spec => []NoHalfRegistration
<1>1. Init => RegInv
    <2> SUFFICES ASSUME Init PROVE RegInv
        OBVIOUS
    <2>1. TypeOK
        <3>1. Nothing \in Registered
            BY DEF Nothing, Registered, RegistrationAssumption
        <3> QED BY <3>1 DEF Init, TypeOK, Jobs, NoJobs
    <2>2. pc = "idle" /\ op = "register" /\ job["x64"] = "none"
        BY DEF Init, NoJobs, Sides
    <2> QED BY <2>1, <2>2 DEF RegInv, Phases, Failing, Finished
<1>2. RegInv /\ [Next]_vars => RegInv'
    <2> SUFFICES ASSUME RegInv, [Next]_vars PROVE RegInv'
        OBVIOUS
    <2>1. CASE UNCHANGED vars
        BY <2>1 DEF vars, RegInv, TypeOK, Phases, Failing, Finished, Registering, Reached, Quiet,
                    Checked, AncestorsAreSafe
    <2>2. CASE Next
        BY <2>2, StartKeeps, JobKeeps, CheckKeeps, Register64Keeps, Register32Keeps, Undo64Keeps,
           Undo32Keeps, BuildKeeps, EndKeeps DEF Next
    <2> QED BY <2>1, <2>2
<1>3. RegInv => NoHalfRegistration
    BY DEF RegInv, Failing, Finished, Registering, Reached, Checked, NoHalfRegistration, Sides
<1> QED BY <1>1, <1>2, <1>3, PTL DEF Spec

-----------------------------------------------------------------------------
(* The settings file *)

\* Who is about to move its temporary file over the settings file finds it, complete: the
\* name is its own, so no other process has emptied or moved it.
FileInv ==
    /\ DOMAIN file = Saving!Sections
    /\ DOMAIN at = Procs
    /\ \A p \in Procs : at[p] = "commit" => p \in DOMAIN temps /\ DOMAIN temps[p] = Saving!Sections

\* A step of a process at its own temporary file leaves the others' as they are.
LEMMA OthersKeepTheirs ==
    ASSUME NEW p \in Procs, FileInv, NEW stage, at' = [at EXCEPT ![p] = stage],
           DOMAIN file' = Saving!Sections,
           \A q \in Procs \ {p} : q \in DOMAIN temps => q \in DOMAIN temps' /\ temps'[q] = temps[q],
           stage = "commit" => p \in DOMAIN temps' /\ DOMAIN temps'[p] = Saving!Sections
    PROVE  FileInv'
BY DEF FileInv

LEMMA SavingKeeps == FileInv /\ [Saving!Next]_Saving!vars => FileInv'
<1> SUFFICES ASSUME FileInv, [Saving!Next]_Saving!vars PROVE FileInv'
    OBVIOUS
<1>1. CASE UNCHANGED Saving!vars
    BY <1>1 DEF FileInv, Saving!vars
<1> SUFFICES ASSUME NEW p \in Procs,
        \/ Saving!Load(p) \/ Saving!ReadUnknown(p) \/ Saving!AtomicOpen(p) \/ Saving!WriteFirst(p)
        \/ Saving!WriteRest(p) \/ Saving!AtomicCommit(p)
        \/ \E k \in Saving!Written(p), v \in Saving!Values : Saving!Edit(p, k, v)
    PROVE FileInv'
    BY <1>1 DEF Saving!Next
<1>2. ASSUME NEW content, Saving!PutTemp(p, content)
      PROVE  /\ p \in DOMAIN temps' /\ temps'[p] = content
             /\ \A q \in Procs \ {p} : q \in DOMAIN temps => q \in DOMAIN temps' /\ temps'[q] = temps[q]
    BY <1>2 DEF Saving!PutTemp
<1>3. CASE Saving!Load(p)
    BY <1>3, OthersKeepTheirs DEF Saving!Load, FileInv
<1>4. CASE Saving!ReadUnknown(p)
    BY <1>4, OthersKeepTheirs DEF Saving!ReadUnknown, FileInv
<1>5. CASE Saving!AtomicOpen(p)
    <2>1. CASE at' = [at EXCEPT ![p] = "first"] /\ Saving!PutTemp(Saving!TempName(p), <<>>)
        BY <1>2, <1>5, <2>1, OthersKeepTheirs DEF Saving!AtomicOpen, Saving!TempName, FileInv
    <2>2. CASE at' = [at EXCEPT ![p] = "idle"] /\ UNCHANGED temps
        BY <1>5, <2>2, OthersKeepTheirs DEF Saving!AtomicOpen, FileInv
    <2> QED BY <1>5, <2>1, <2>2 DEF Saving!AtomicOpen
<1>6. CASE Saving!WriteFirst(p)
    BY <1>2, <1>6, OthersKeepTheirs DEF Saving!WriteFirst, Saving!TempName, FileInv
<1>7. CASE Saving!WriteRest(p)
    <2>1. DOMAIN Saving!Saved(p, Saving!Sections) = Saving!Sections
        BY DEF Saving!Saved
    <2> QED BY <1>2, <1>7, <2>1, OthersKeepTheirs DEF Saving!WriteRest, Saving!TempName, FileInv
<1>8. CASE Saving!AtomicCommit(p)
    <2>1. p \in DOMAIN temps /\ DOMAIN temps[p] = Saving!Sections
        BY <1>8 DEF Saving!AtomicCommit, FileInv
    <2>2. /\ file' \in {file, temps[p]} /\ temps' = [n \in DOMAIN temps \ {p} |-> temps[n]]
          /\ at' = [at EXCEPT ![p] = "idle"]
        BY <1>8, <2>1 DEF Saving!AtomicCommit, Saving!TempName, Saving!DropTemp
    <2> QED BY <2>1, <2>2, OthersKeepTheirs DEF FileInv
<1>9. ASSUME NEW k \in Saving!Written(p), NEW v \in Saving!Values, Saving!Edit(p, k, v)
      PROVE  FileInv'
    BY <1>9 DEF Saving!Edit, FileInv
<1> QED BY <1>3, <1>4, <1>5, <1>6, <1>7, <1>8, <1>9

\* For any number of processes of either version, saving at the same time, failing or dying
\* in a save: the settings file is a complete one at every moment.
THEOREM SettingsFileIsWhole == Saving!Spec => []Saving!FileIsWhole
<1>1. Saving!Init => FileInv
    BY DEF Saving!Init, Saving!NoLines, FileInv
<1>2. FileInv => Saving!FileIsWhole
    BY DEF FileInv, Saving!FileIsWhole
<1> QED BY <1>1, <1>2, SavingKeeps, PTL DEF Saving!Spec

-----------------------------------------------------------------------------
(* Built layouts *)

Listing(e) == e = Building!NotListed \/ e \in [listed : {TRUE}, kind : {e.kind}, body : {e.body}]

\* The builder writes to a build that nobody can read, until it closes it; and what is
\* listed and read is of one kind.
BuildInv ==
    /\ Formats # {} => program \in Formats
    /\ DOMAIN built = Formats /\ DOMAIN entry = Formats
    /\ \/ builder = Building!Idle
       \/ /\ builder = [at |-> builder.at, by |-> builder.by, text |-> builder.text]
          /\ builder.at \in {"loaded", "writing"}
    /\ builder.at = "writing" /\ builder.by \in Formats => ~Building!Readable(built[builder.by])
    /\ \A f \in Formats : Listing(entry[f])
    /\ Building!BodyFitsItsKind

\* The oldest format is one of them.
LEMMA OldestFormat ==
    ASSUME Formats \subseteq Nat, Formats # {}
    PROVE  (CHOOSE f \in Formats : \A g \in Formats : f <= g) \in Formats
<1>1. PICK x \in Formats : \A y \in Formats : <<y, x>> \notin OpToRel(<, Nat)
    BY NatLessThanWellFounded, WFMin
<1>2. \A y \in Formats : x <= y
    <2> SUFFICES ASSUME NEW y \in Formats, y < x PROVE FALSE
        BY SMT
    <2>1. x \in Nat /\ y \in Nat
        OBVIOUS
    <2>2. <<y, x>> \in OpToRel(<, Nat)
        BY <2>1 DEF OpToRel
    <2> QED BY <1>1, <2>2, Zenon
<1> QED BY <1>2

LEMMA BuildStarts == Building!LayoutBuildAssumption /\ Building!Init => BuildInv
<1> SUFFICES ASSUME Building!LayoutBuildAssumption, Building!Init PROVE BuildInv
    OBVIOUS
<1>1. Formats # {} => program \in Formats
    BY OldestFormat DEF Building!LayoutBuildAssumption, Building!Init
<1> QED BY <1>1 DEF Building!Init, BuildInv, Listing, Building!NotListed, Building!Idle,
                    Building!BodyFitsItsKind

LEMMA BuildingKeeps == BuildInv /\ [Building!Next]_Building!vars => BuildInv'
<1> SUFFICES ASSUME BuildInv, [Building!Next]_Building!vars PROVE BuildInv'
    OBVIOUS
<1> USE DEF Building!BodyFitsItsKind
<1>1. CASE UNCHANGED Building!vars
    BY <1>1 DEF BuildInv, Building!vars, Building!Readable, Listing
<1>2. CASE Building!StartBuild
    <2>1. /\ DOMAIN built' = Formats /\ UNCHANGED <<source, program, entry, died>>
          /\ builder' \in {[at |-> "loaded", by |-> program, text |-> source], Building!Idle}
        BY <1>2 DEF Building!StartBuild, Building!PruneOldBuilds
    <2>2. builder'.at # "writing"
        BY <2>1 DEF Building!Idle
    <2> QED BY <2>1, <2>2 DEF BuildInv
<1>3. CASE Building!OpenOutput
    <2>1. /\ builder = [at |-> "loaded", by |-> builder.by, text |-> builder.text]
          /\ builder' = [at |-> "writing", by |-> builder.by, text |-> builder.text]
        BY <1>3 DEF Building!OpenOutput, BuildInv, Building!Idle
    <2>2. builder.by \in Formats => built'[builder.by].whole = FALSE
        BY <1>3 DEF Building!OpenOutput, BuildInv
    <2> QED BY <1>3, <2>1, <2>2 DEF Building!OpenOutput, BuildInv, Listing, Building!Readable
<1>4. CASE Building!CloseOutput
    BY <1>4 DEF Building!CloseOutput, BuildInv, Listing, Building!Idle
<1>5. CASE Building!Die
    BY <1>5 DEF Building!Die, BuildInv, Listing, Building!Idle
<1>6. CASE Building!Edit
    BY <1>6 DEF Building!Edit, BuildInv, Listing, Building!Readable
<1>7. CASE Building!Upgrade
    BY <1>7 DEF Building!Upgrade, BuildInv, Listing, Building!Readable
<1>8. ASSUME NEW f \in Formats, NEW e, Listing(e), e.listed => \A b \in e.body : b.kind = e.kind,
             entry' = [entry EXCEPT ![f] = e], UNCHANGED <<source, built, program, builder, died>>
      PROVE  BuildInv'
    <2>1. DOMAIN entry' = Formats /\ \A g \in Formats : entry'[g] = IF g = f THEN e ELSE entry[g]
        BY <1>8 DEF BuildInv
    <2>2. \A g \in Formats : Listing(entry'[g])
        BY <1>8, <2>1 DEF BuildInv
    <2>3. Building!BodyFitsItsKind'
        BY <1>8, <2>1 DEF BuildInv
    <2> QED BY <1>8, <2>1, <2>2, <2>3 DEF BuildInv, Building!Readable, Listing
<1>9. ASSUME NEW f \in Formats, Building!ListLayout(f) PROVE BuildInv'
    <2> DEFINE e == IF Building!Readable(built[f])
                    THEN [listed |-> TRUE, kind |-> built[f].text.kind, body |-> {}]
                    ELSE Building!NotListed
    <2>1. Listing(e) /\ (e.listed => e.body = {})
        BY DEF Listing, Building!NotListed
    <2>2. entry' = [entry EXCEPT ![f] = e] /\ UNCHANGED <<source, built, program, builder, died>>
        BY <1>9 DEF Building!ListLayout
    <2> HIDE DEF e
    <2> QED BY <1>8, <2>1, <2>2
<1>10. ASSUME NEW f \in Formats, Building!LoadDeferredBody(f) PROVE BuildInv'
    <2>1. entry[f] \in [listed : {TRUE}, kind : {entry[f].kind}, body : {entry[f].body}]
        <3>1. entry[f].listed /\ ~Building!NotListed.listed
            BY <1>10 DEF Building!LoadDeferredBody, Building!NotListed
        <3>2. Listing(entry[f])
            BY DEF BuildInv
        <3> QED BY <3>1, <3>2 DEF Listing
    <2> DEFINE e == [entry[f] EXCEPT !.body = {built[f].text}]
    <2>2. e \in [listed : {TRUE}, kind : {entry[f].kind}, body : {{built[f].text}}]
        BY <2>1
    <2>3. entry' = [entry EXCEPT ![f] = e]
          /\ UNCHANGED <<source, built, program, builder, died>>
        BY <1>10 DEF Building!LoadDeferredBody
    <2>4. Listing(e) /\ \A b \in e.body : b.kind = e.kind
        BY <1>10, <2>2 DEF Listing, Building!LoadDeferredBody, Building!SameKind
    <2> HIDE DEF e
    <2> QED BY <1>8, <2>2, <2>3, <2>4
<1> QED BY <1>1, <1>2, <1>3, <1>4, <1>5, <1>6, <1>7, <1>9, <1>10 DEF Building!Next

\* For any formats and kinds, edits of the source, upgrades and builders that die: a body
\* that joins the list later is of the kind the list dispatches on.
THEOREM BodiesFitTheirKind ==
    ASSUME Building!LayoutBuildAssumption PROVE Building!Spec => []Building!BodyFitsItsKind
<1>1. Building!Init => BuildInv
    BY BuildStarts
<1>2. BuildInv => Building!BodyFitsItsKind
    BY DEF BuildInv
<1> QED BY <1>1, <1>2, BuildingKeeps, PTL DEF Building!Spec

\* And no step takes away the build that programs of the version before still read, except
\* by writing that very file again.
THEOREM OldBuildsAreKept ==
    ASSUME Building!LayoutBuildAssumption
    PROVE  Building!Spec => [][Building!OldProgramsKeepTheirBuild]_Building!vars
<1>1. Building!Init => BuildInv
    BY BuildStarts
<1>2. BuildInv /\ [Building!Next]_Building!vars => [Building!OldProgramsKeepTheirBuild]_Building!vars
    <2> SUFFICES ASSUME BuildInv, Building!Next, NEW f \in Formats,
                        Building!Readable(built[f]), ~Building!Readable(built'[f]), f + 1 >= program
                 PROVE  builder.at = "loaded"
        BY DEF Building!OldProgramsKeepTheirBuild
    <2>1. f \in Nat /\ program \in Nat
        BY DEF Building!LayoutBuildAssumption, BuildInv
    <2>2. CASE Building!StartBuild
        BY <2>1, <2>2 DEF Building!StartBuild, Building!PruneOldBuilds
    <2>3. CASE Building!OpenOutput
        BY <2>3 DEF Building!OpenOutput
    <2>4. CASE Building!CloseOutput
        <3>1. f # builder.by
            BY <2>4 DEF Building!CloseOutput, BuildInv
        <3> QED BY <2>4, <3>1 DEF Building!CloseOutput, BuildInv, Building!Readable
    <2>5. CASE UNCHANGED built
        BY <2>5 DEF Building!Readable
    <2> QED BY <2>2, <2>3, <2>4, <2>5 DEF Building!Next, Building!Die, Building!Edit, Building!Upgrade,
                                         Building!ListLayout, Building!LoadDeferredBody
<1> QED BY <1>1, <1>2, BuildingKeeps, PTL DEF Building!Spec

-----------------------------------------------------------------------------
(* Lists of layouts: no layout is lost, doubled or made up.                 *)

\* A set of numbers that is not empty has a least one, and Min names it.
LEMMA MinIsLeast ==
    ASSUME NEW S \in SUBSET Nat, S # {}
    PROVE  Min(S) \in S /\ \A y \in S : Min(S) <= y
<1>1. PICK x \in S : \A y \in S : <<y, x>> \notin OpToRel(<, Nat)
    BY NatLessThanWellFounded, WFMin
<1>2. \A y \in S : x <= y
    <2> SUFFICES ASSUME NEW y \in S, y < x PROVE FALSE
        BY SMT
    <2>1. x \in Nat /\ y \in Nat
        OBVIOUS
    <2>2. <<y, x>> \in OpToRel(<, Nat)
        BY <2>1 DEF OpToRel
    <2> QED BY <1>1, <2>2, Zenon
<1> QED BY <1>1, <1>2 DEF Min

\* Different places have different ranks, and every rank up to their number is taken.
LEMMA Ranks ==
    ASSUME NEW P \in SUBSET Nat, IsFiniteSet(P)
    PROVE  /\ Cardinality(P) \in Nat
           /\ \A i \in P : Rank(P, i) \in 1 .. Cardinality(P)
           /\ \A i, j \in P : Rank(P, i) = Rank(P, j) => i = j
           /\ \A n \in 1 .. Cardinality(P) : Nth(P, n) \in P /\ Rank(P, Nth(P, n)) = n
           /\ \A i \in P : Nth(P, Rank(P, i)) = i
<1> DEFINE Upto(i) == {j \in P : j <= i}
<1> DEFINE r == [i \in P |-> Rank(P, i)]
<1>1. Cardinality(P) \in Nat
    BY FS_CardinalityType
<1>2. \A i \in P : IsFiniteSet(Upto(i)) /\ Cardinality(Upto(i)) \in 1 .. Cardinality(P)
    <2> SUFFICES ASSUME NEW i \in P
                 PROVE  IsFiniteSet(Upto(i)) /\ Cardinality(Upto(i)) \in 1 .. Cardinality(P)
        OBVIOUS
    <2>1. Upto(i) \in SUBSET P /\ Upto(i) # {}
        OBVIOUS
    <2> HIDE DEF Upto
    <2>2. IsFiniteSet(Upto(i)) /\ Cardinality(Upto(i)) <= Cardinality(P)
        BY <2>1, FS_Subset
    <2>3. Cardinality(Upto(i)) \in Nat /\ Cardinality(Upto(i)) # 0
        BY <2>1, <2>2, FS_CardinalityType, FS_EmptySet
    <2> QED BY <1>1, <2>2, <2>3
<1>3. \A i \in P : Rank(P, i) = Cardinality(Upto(i))
    BY DEF Rank
<1>4. \A i, j \in P : i < j => Rank(P, i) # Rank(P, j)
    <2> SUFFICES ASSUME NEW i \in P, NEW j \in P, i < j, Cardinality(Upto(i)) = Cardinality(Upto(j))
                 PROVE  FALSE
        BY <1>3
    <2>0. P \subseteq Nat /\ i \in Nat /\ j \in Nat /\ ~ j <= i /\ j <= j
        OBVIOUS
    <2>1. j \in Upto(j) /\ j \notin Upto(i)
        BY <2>0
    <2>2. \A k \in P : k <= i => k <= j
        BY <2>0
    <2>3. Upto(i) \in SUBSET Upto(j)
        BY <2>2
    <2> HIDE DEF Upto
    <2> QED BY <2>1, <2>3, <1>2, FS_Subset
<1>5. \A i, j \in P : Rank(P, i) = Rank(P, j) => i = j
    <2> TAKE i \in P, j \in P
    <2>1. i < j \/ j < i \/ i = j
        BY SMT
    <2> QED BY <1>4, <2>1
<1>6. r \in Injection(P, 1 .. Cardinality(P))
    BY <1>2, <1>3, <1>5 DEF Injection, IsInjective
<1>7. IsFiniteSet(1 .. Cardinality(P)) /\ Cardinality(1 .. Cardinality(P)) = Cardinality(P)
    <2>1. 1 \in Int /\ Cardinality(P) \in Int
        BY <1>1
    <2> QED BY <2>1, <1>1, FS_Interval
<1>8. r \in Surjection(P, 1 .. Cardinality(P))
    BY <1>6, <1>7, FS_Injection
<1>9. \A n \in 1 .. Cardinality(P) : \E i \in P : Rank(P, i) = n
    BY <1>8 DEF Surjection
<1>10. \A n \in 1 .. Cardinality(P) : Nth(P, n) \in P /\ Rank(P, Nth(P, n)) = n
    BY <1>9 DEF Nth
<1> HIDE DEF r, Upto
<1>11. \A i \in P : Rank(P, i) \in 1 .. Cardinality(P)
    BY <1>2, <1>3
<1>12. \A i \in P : Nth(P, Rank(P, i)) = i
    BY <1>5, <1>10, <1>11
<1> QED BY <1>1, <1>5, <1>10, <1>11, <1>12

Entries ==
    [name : Names, res : Names \X Nat, on : BOOLEAN, body : {"own", "later", "read", "bad"}]
Switches == [name : Names \union {Imported[i].name : i \in DOMAIN Imported}, on : BOOLEAN]

SameLayout(d, e) == d.name = e.name /\ d.res = e.res /\ d.body = e.body

\* The entries of one list are those of another, switches aside, each once.
Reordered(list, other) ==
    \E p \in [DOMAIN other -> DOMAIN list] :
        /\ IsInjective(p)
        /\ \A i \in DOMAIN list : \E k \in DOMAIN other : p[k] = i
        /\ \A k \in DOMAIN other : SameLayout(other[k], list[p[k]])

\* No two entries of a list share a block.
OneOwner(list) == \A i, j \in DOMAIN list : list[i].res = list[j].res => i = j

\* Places in a sequence.
LEMMA Places ==
    ASSUME NEW S, NEW s \in Seq(S), NEW P \in SUBSET DOMAIN s
    PROVE  P \in SUBSET Nat /\ IsFiniteSet(P)
<1>1. DOMAIN s = 1 .. Len(s) /\ Len(s) \in Nat
    OBVIOUS
<1>2. IsFiniteSet(1 .. Len(s))
    <2>1. 1 \in Int /\ Len(s) \in Int
        BY <1>1
    <2> QED BY <2>1, FS_Interval
<1>3. P \in SUBSET (1 .. Len(s))
    BY <1>1
<1>4. IsFiniteSet(P)
    BY <1>2, <1>3, FS_Subset
<1> QED BY <1>3, <1>4

\* The lines that find a layout find different ones.
LEMMA TakenOnce ==
    ASSUME NEW list \in Seq(Entries), NEW lines \in Seq(Switches)
    PROVE  /\ \A i \in Taking(list, lines) :
                 /\ Taken(list, lines, i) \in DOMAIN list
                 /\ list[Taken(list, lines, i)].name = lines[i].name
           /\ \A i, j \in Taking(list, lines) :
                 Taken(list, lines, i) = Taken(list, lines, j) => i = j
<1> DEFINE A(i) == Named(list, lines[i].name)
           B(i) == Named(lines, lines[i].name)
<1>1. \A i : A(i) \in SUBSET DOMAIN list /\ B(i) \in SUBSET DOMAIN lines
    BY DEF Named
<1>2. \A i : A(i) \in SUBSET Nat /\ IsFiniteSet(A(i)) /\ B(i) \in SUBSET Nat /\ IsFiniteSet(B(i))
    BY <1>1, Places
<1>3. \A i \in Taking(list, lines) : i \in DOMAIN lines /\ i \in B(i)
    BY DEF Taking, Named
<1>4. \A i \in Taking(list, lines) : Turn(lines, i) \in 1 .. Cardinality(A(i))
    <2> TAKE i \in Taking(list, lines)
    <2>1. Turn(lines, i) = Rank(B(i), i) /\ Turn(lines, i) <= Cardinality(A(i))
        BY DEF Turn, Taking
    <2>2. Rank(B(i), i) \in 1 .. Cardinality(B(i)) /\ Cardinality(B(i)) \in Nat /\ Cardinality(A(i)) \in Nat
        <3> HIDE DEF A, B
        <3> QED BY <1>2, <1>3, Ranks
    <2> QED BY <2>1, <2>2
<1>5. \A i \in Taking(list, lines) :
          /\ Taken(list, lines, i) \in A(i)
          /\ Rank(A(i), Taken(list, lines, i)) = Turn(lines, i)
    <2> TAKE i \in Taking(list, lines)
    <2>1. Taken(list, lines, i) = Nth(A(i), Turn(lines, i))
        BY DEF Taken
    <2> HIDE DEF A
    <2> QED BY <2>1, <1>2, <1>4, Ranks
<1>6. \A i \in Taking(list, lines) :
          Taken(list, lines, i) \in DOMAIN list /\ list[Taken(list, lines, i)].name = lines[i].name
    BY <1>5 DEF Named
<1>7. \A i, j \in Taking(list, lines) : Taken(list, lines, i) = Taken(list, lines, j) => i = j
    <2> SUFFICES ASSUME NEW i \in Taking(list, lines), NEW j \in Taking(list, lines),
                        Taken(list, lines, i) = Taken(list, lines, j)
                 PROVE  i = j
        OBVIOUS
    <2>1. lines[i].name = lines[j].name
        BY <1>6
    <2>2. A(i) = A(j) /\ B(i) = B(j)
        BY <2>1
    <2>3. Turn(lines, i) = Turn(lines, j)
        BY <1>5, <2>2
    <2>4. Rank(B(i), i) = Rank(B(i), j)
        BY <2>1, <2>3 DEF Turn
    <2>5. i \in B(i) /\ j \in B(i)
        BY <1>3, <2>2
    <2> HIDE DEF A, B
    <2> QED BY <2>4, <2>5, <1>2, Ranks
<1> QED BY <1>6, <1>7

\* The merge reorders a list and sets switches.
LEMMA MergeReorders ==
    ASSUME NEW list \in Seq(Entries), NEW lines \in Seq(Switches)
    PROVE  /\ Merge(list, lines) \in Seq(Entries)
           /\ Reordered(list, Merge(list, lines))
           /\ \A k \in 1 .. Cardinality(Taking(list, lines)) :
                 /\ k \in DOMAIN Merge(list, lines)
                 /\ Merge(list, lines)[k].name = lines[Nth(Taking(list, lines), k)].name
                 /\ Merge(list, lines)[k].on = lines[Nth(Taking(list, lines), k)].on
<1> DEFINE taking == Taking(list, lines)
           took == {Taken(list, lines, i) : i \in taking}
           rest == DOMAIN list \ took
           a == Cardinality(taking)
           b == Cardinality(rest)
           switched(i) == [list[Taken(list, lines, i)] EXCEPT !.on = lines[i].on]
           first == [k \in 1 .. a |-> switched(Nth(taking, k))]
           last == [k \in 1 .. b |-> list[Nth(rest, k)]]
           m == first \o last
           p == [k \in 1 .. a + b |->
                    IF k <= a THEN Taken(list, lines, Nth(taking, k)) ELSE Nth(rest, k - a)]
<1>1. Merge(list, lines) = m
    BY DEF Merge
<1>2. taking \in SUBSET Nat /\ IsFiniteSet(taking) /\ rest \in SUBSET Nat /\ IsFiniteSet(rest)
    <2>1. taking \in SUBSET DOMAIN lines /\ rest \in SUBSET DOMAIN list
        BY DEF Taking
    <2> QED BY <2>1, Places
<1>3. a \in Nat /\ b \in Nat
    BY <1>2, Ranks
<1>4. \A k \in 1 .. a : Nth(taking, k) \in taking
    BY <1>2, Ranks
<1>5. \A k \in 1 .. b : Nth(rest, k) \in rest
    <2> HIDE DEF rest
    <2> QED BY <1>2, Ranks
<1>6. \A i \in taking : Taken(list, lines, i) \in took /\ Taken(list, lines, i) \in DOMAIN list
    BY TakenOnce
<1>7. \A i \in taking : lines[i].on \in BOOLEAN
    <2> TAKE i \in taking
    <2>1. i \in DOMAIN lines
        BY DEF Taking
    <2>2. lines[i] \in Switches
        BY <2>1
    <2> QED BY <2>2 DEF Switches
<1>8. \A i \in DOMAIN list : list[i] \in Entries
    OBVIOUS
<1>9. \A i \in taking :
          /\ switched(i) \in Entries /\ SameLayout(switched(i), list[Taken(list, lines, i)])
          /\ switched(i).on = lines[i].on
    <2> TAKE i \in taking
    <2>1. list[Taken(list, lines, i)] \in Entries /\ lines[i].on \in BOOLEAN
        BY <1>6, <1>7, <1>8
    <2> QED BY <2>1 DEF Entries, SameLayout
<1> HIDE DEF switched
<1>10. first \in Seq(Entries) /\ Len(first) = a
    BY <1>3, <1>4, <1>9
<1>11. last \in Seq(Entries) /\ Len(last) = b
    BY <1>3, <1>5, <1>8
<1>12. m \in Seq(Entries) /\ DOMAIN m = 1 .. a + b
    <2> HIDE DEF first, last, a, b
    <2>1. m \in Seq(Entries) /\ Len(m) = a + b
        BY <1>10, <1>11, ConcatProperties
    <2> QED BY <2>1
<1>13. \A k \in 1 .. a : m[k] = switched(Nth(taking, k)) /\ p[k] = Taken(list, lines, Nth(taking, k))
    <2> TAKE k \in 1 .. a
    <2>1. m[k] = first[k]
        <3> HIDE DEF first, last
        <3> QED BY <1>3, <1>10, <1>11
    <2> QED BY <1>3, <2>1
<1>14. \A k \in 1 .. a + b : ~ k <= a => /\ k - a \in 1 .. b
                                         /\ m[k] = list[Nth(rest, k - a)]
                                         /\ p[k] = Nth(rest, k - a)
    <2> SUFFICES ASSUME NEW k \in 1 .. a + b, ~ k <= a
                 PROVE  /\ k - a \in 1 .. b
                        /\ m[k] = list[Nth(rest, k - a)]
                        /\ p[k] = Nth(rest, k - a)
        OBVIOUS
    <2>1. k - a \in 1 .. b
        BY <1>3
    <2>2. m[k] = last[k - a]
        <3> HIDE DEF first, last, a, b
        <3> QED BY <1>3, <1>10, <1>11, ConcatProperties
    <2> QED BY <1>3, <2>1, <2>2
<1> HIDE DEF m, first, last
<1>15. \A k \in 1 .. a + b : p[k] \in DOMAIN list /\ SameLayout(m[k], list[p[k]])
    <2> TAKE k \in 1 .. a + b
    <2>1. CASE k <= a
        <3>1. k \in 1 .. a
            BY <1>3, <2>1
        <3> HIDE DEF p, taking
        <3> QED BY <3>1, <1>4, <1>6, <1>9, <1>13
    <2>2. CASE ~ k <= a
        <3>1. Nth(rest, k - a) \in DOMAIN list /\ m[k] = list[p[k]] /\ p[k] = Nth(rest, k - a)
            BY <2>2, <1>5, <1>14
        <3> QED BY <3>1 DEF SameLayout
    <2> QED BY <2>1, <2>2
<1>16. p \in [DOMAIN m -> DOMAIN list]
    BY <1>12, <1>15
<1>17. \A k \in 1 .. a : p[k] \in took
    BY <1>4, <1>6, <1>13
<1>18. \A k \in 1 .. a + b : ~ k <= a => p[k] \notin took
    BY <1>5, <1>14
<1>19. IsInjective(p)
    <2> SUFFICES ASSUME NEW k \in 1 .. a + b, NEW l \in 1 .. a + b, p[k] = p[l]
                 PROVE  k = l
        BY DEF IsInjective
    <2>1. (k <= a) <=> (l <= a)
        <3> HIDE DEF p, took
        <3>1. k <= a => k \in 1 .. a
            BY <1>3
        <3>2. l <= a => l \in 1 .. a
            BY <1>3
        <3> QED BY <3>1, <3>2, <1>17, <1>18
    <2>2. CASE k <= a
        <3>1. k \in 1 .. a /\ l \in 1 .. a
            BY <1>3, <2>1, <2>2
        <3>2. Nth(taking, k) = Nth(taking, l)
            <4> HIDE DEF p, taking
            <4>1. Taken(list, lines, Nth(taking, k)) = Taken(list, lines, Nth(taking, l))
                BY <3>1, <1>13
            <4> QED BY <4>1, <3>1, <1>4, TakenOnce DEF taking
        <3>3. Rank(taking, Nth(taking, k)) = k /\ Rank(taking, Nth(taking, l)) = l
            BY <3>1, <1>2, Ranks
        <3> QED BY <3>2, <3>3
    <2>3. CASE ~ k <= a
        <3>1. k - a \in 1 .. b /\ l - a \in 1 .. b /\ Nth(rest, k - a) = Nth(rest, l - a)
            <4> HIDE DEF p, rest
            <4> QED BY <1>14, <2>1, <2>3
        <3>2. Rank(rest, Nth(rest, k - a)) = k - a /\ Rank(rest, Nth(rest, l - a)) = l - a
            <4> HIDE DEF rest
            <4> QED BY <3>1, <1>2, Ranks
        <3>3. k - a = l - a
            BY <3>1, <3>2
        <3> QED BY <3>3, <1>3
    <2> QED BY <2>2, <2>3
<1>20. \A i \in DOMAIN list : \E k \in DOMAIN m : p[k] = i
    <2> TAKE i \in DOMAIN list
    <2>1. CASE i \in took
        <3>1. PICK t \in taking : i = Taken(list, lines, t)
            BY <2>1
        <3>2. Rank(taking, t) \in 1 .. a /\ Nth(taking, Rank(taking, t)) = t
            BY <3>1, <1>2, Ranks
        <3>3. Rank(taking, t) \in 1 .. a + b
            BY <3>2, <1>3
        <3>4. p[Rank(taking, t)] = i
            <4> HIDE DEF p
            <4> QED BY <1>13, <3>1, <3>2
        <3> QED BY <3>3, <3>4, <1>12
    <2>2. CASE i \notin took
        <3>1. Rank(rest, i) \in 1 .. b /\ Nth(rest, Rank(rest, i)) = i
            <4>1. i \in rest
                BY <2>2
            <4> HIDE DEF rest
            <4> QED BY <4>1, <1>2, Ranks
        <3> DEFINE k == a + Rank(rest, i)
        <3>2. k \in 1 .. a + b /\ ~ k <= a /\ k - a = Rank(rest, i)
            BY <3>1, <1>3
        <3>3. p[k] = i
            <4> HIDE DEF p, k
            <4> QED BY <3>1, <3>2, <1>14
        <3> QED BY <3>2, <3>3, <1>12
    <2> QED BY <2>1, <2>2
<1> HIDE DEF p
<1>21. Reordered(list, m)
    BY <1>12, <1>15, <1>16, <1>19, <1>20 DEF Reordered
<1>22. \A k \in 1 .. a : /\ k \in DOMAIN m
                         /\ m[k].name = lines[Nth(taking, k)].name
                         /\ m[k].on = lines[Nth(taking, k)].on
    <2> TAKE k \in 1 .. a
    <2>1. k \in DOMAIN m
        BY <1>3, <1>12
    <2>2. Nth(taking, k) \in taking /\ m[k] = switched(Nth(taking, k))
        BY <1>4, <1>13
    <2> HIDE DEF taking
    <2>3. SameLayout(m[k], list[Taken(list, lines, Nth(taking, k))]) /\ m[k].on = lines[Nth(taking, k)].on
        BY <2>2, <1>9
    <2>4. list[Taken(list, lines, Nth(taking, k))].name = lines[Nth(taking, k)].name
        BY <2>2, TakenOnce DEF taking
    <2> QED BY <2>1, <2>3, <2>4 DEF SameLayout
<1> QED BY <1>1, <1>12, <1>21, <1>22

\* Reordering keeps the blocks, and each with its one owner.
LEMMA ReorderedKeeps ==
    ASSUME NEW list \in Seq(Entries), NEW other \in Seq(Entries), Reordered(list, other)
    PROVE  /\ Blocks(other) = Blocks(list)
           /\ OneOwner(list) => OneOwner(other)
           /\ list # <<>> => other # <<>>
           /\ \A k \in DOMAIN other : \E i \in DOMAIN list : SameLayout(other[k], list[i])
<1>1. PICK p \in [DOMAIN other -> DOMAIN list] :
          /\ IsInjective(p)
          /\ \A i \in DOMAIN list : \E k \in DOMAIN other : p[k] = i
          /\ \A k \in DOMAIN other : SameLayout(other[k], list[p[k]])
    BY DEF Reordered
<1>2. \A k \in DOMAIN other : p[k] \in DOMAIN list /\ other[k].res = list[p[k]].res
    BY <1>1 DEF SameLayout
<1>3. Blocks(other) = Blocks(list)
    <2>1. \A k \in DOMAIN other : other[k].res \in Blocks(list)
        BY <1>2 DEF Blocks
    <2>2. \A i \in DOMAIN list : list[i].res \in Blocks(other)
        BY <1>1, <1>2 DEF Blocks
    <2> QED BY <2>1, <2>2 DEF Blocks
<1>4. OneOwner(list) => OneOwner(other)
    <2> SUFFICES ASSUME OneOwner(list), NEW k \in DOMAIN other, NEW l \in DOMAIN other,
                        other[k].res = other[l].res
                 PROVE  k = l
        BY DEF OneOwner
    <2>1. p[k] = p[l]
        BY <1>2 DEF OneOwner
    <2> QED BY <2>1, <1>1 DEF IsInjective
<1>5. list # <<>> => other # <<>>
    <2> SUFFICES ASSUME list # <<>>, other = <<>> PROVE FALSE
        OBVIOUS
    <2>1. 1 \in DOMAIN list
        BY SMT
    <2>2. DOMAIN other = {}
        BY SMT
    <2> QED BY <2>1, <2>2, <1>1
<1>6. \A k \in DOMAIN other : \E i \in DOMAIN list : SameLayout(other[k], list[i])
    BY <1>1, <1>2
<1> QED BY <1>3, <1>4, <1>5, <1>6

\* A set becomes a sequence of its elements, each once.
LEMMA Sequenced ==
    ASSUME NEW S, IsFiniteSet(S)
    PROVE  /\ SetToSeq(S) \in [1 .. Cardinality(S) -> S]
           /\ IsInjective(SetToSeq(S))
           /\ Cardinality(S) \in Nat
<1>1. ExistsBijection(1 .. Cardinality(S), S) /\ Cardinality(S) \in Nat
    BY FS_CardinalityType
<1>2. PICK f \in [1 .. Cardinality(S) -> S] : IsInjective(f)
    BY <1>1 DEF ExistsBijection, Bijection, Injection
<1> QED BY <1>1, <1>2 DEF SetToSeq

\* A fresh list has no name twice.
LEMMA AvailableOnce ==
    ASSUME SettingsAssumption, NEW files \in [Files -> Names \union {NoFile}]
    PROVE  /\ Available(files) \in Seq(Names)
           /\ Available(files) # <<>>
           /\ \A i, j \in DOMAIN Available(files) :
                 Available(files)[i] = Available(files)[j] => i = j
<1> DEFINE found == {files[f] : f \in Files} \ ({NoFile} \union ToSet(BuiltIn))
           more == SetToSeq(found)
           a == Len(BuiltIn)
           b == Len(more)
<1>1. BuiltIn \in Seq(Names) /\ BuiltIn # <<>> /\ IsInjective(BuiltIn) /\ IsFiniteSet(Addable \union Bundle)
    BY DEF SettingsAssumption
<1>2. found \in SUBSET (Addable \union Bundle)
    BY DEF Names
<1>3. found \in SUBSET Names /\ \A n \in found : n \notin ToSet(BuiltIn)
    OBVIOUS
<1> HIDE DEF found
<1>4. IsFiniteSet(found)
    BY <1>1, <1>2, FS_Subset
<1>5. more \in [1 .. Cardinality(found) -> found] /\ IsInjective(more) /\ Cardinality(found) \in Nat
    BY <1>4, Sequenced
<1> HIDE DEF more
<1>6. more \in Seq(found) /\ more \in Seq(Names)
    BY <1>3, <1>5
<1>7. Available(files) = BuiltIn \o more
    BY DEF Available, found, more
<1>8. a \in Nat /\ b \in Nat /\ DOMAIN BuiltIn = 1 .. a /\ DOMAIN more = 1 .. b
    BY <1>1, <1>6
<1> HIDE DEF a, b
<1> DEFINE s == BuiltIn \o more
<1>9. /\ s \in Seq(Names) /\ Len(s) = a + b
      /\ \A i \in 1 .. a + b : s[i] = IF i <= a THEN BuiltIn[i] ELSE more[i - a]
    BY <1>1, <1>6, ConcatProperties DEF a, b
<1> HIDE DEF s
<1>10. DOMAIN s = 1 .. a + b
    BY <1>9
<1>11. s # <<>>
    <2>1. a # 0
        BY <1>1 DEF a
    <2>2. 1 \in DOMAIN s
        BY <1>8, <1>10, <2>1
    <2> QED BY <2>2
<1>12. \A i \in 1 .. a : BuiltIn[i] \in ToSet(BuiltIn)
    BY <1>8 DEF ToSet
<1>13. \A i \in 1 .. b : more[i] \notin ToSet(BuiltIn)
    BY <1>3, <1>5, <1>8
<1>14. \A i, j \in DOMAIN s : s[i] = s[j] => i = j
    <2> SUFFICES ASSUME NEW i \in 1 .. a + b, NEW j \in 1 .. a + b, s[i] = s[j]
                 PROVE  i = j
        BY <1>10
    <2>1. i <= a <=> j <= a
        BY <1>8, <1>9, <1>12, <1>13
    <2>2. CASE i <= a
        <3>1. i \in DOMAIN BuiltIn /\ j \in DOMAIN BuiltIn /\ BuiltIn[i] = BuiltIn[j]
            BY <1>8, <1>9, <2>1, <2>2
        <3> QED BY <3>1, <1>1 DEF IsInjective
    <2>3. CASE ~ i <= a
        <3>1. i - a \in DOMAIN more /\ j - a \in DOMAIN more /\ more[i - a] = more[j - a]
            BY <1>8, <1>9, <2>1, <2>3
        <3>2. i - a = j - a
            BY <3>1, <1>5 DEF IsInjective
        <3> QED BY <3>2, <1>8
    <2> QED BY <2>2, <2>3
<1> QED BY <1>7, <1>9, <1>11, <1>14 DEF s

\* A block for a name is one that was not taken.
LEMMA NewBlockIsNew ==
    ASSUME NEW name \in Names, NEW taken, MaxCopies \in Nat,
           \E n \in 1 .. MaxCopies : <<name, n>> \notin taken
    PROVE  /\ NewBlock(name, taken) \in Names \X Nat
           /\ NewBlock(name, taken)[1] = name
           /\ NewBlock(name, taken) \notin taken
<1> DEFINE free == {n \in 1 .. MaxCopies : <<name, n>> \notin taken}
<1>1. free \in SUBSET Nat /\ free # {}
    BY SMT
<1>2. \A n \in free : n \in Nat /\ <<name, n>> \notin taken
    BY SMT
<1>3. NewBlock(name, taken) = <<name, Min(free)>>
    BY DEF NewBlock
<1> HIDE DEF free
<1>4. Min(free) \in free
    BY <1>1, MinIsLeast
<1>5. Min(free) \in Nat /\ <<name, Min(free)>> \notin taken
    BY <1>2, <1>4
<1> QED BY <1>3, <1>5

\* The list of a fresh start: new blocks, each with one owner, and no tables read yet.
LEMMA DefaultsAreNew ==
    ASSUME SettingsAssumption, NEW files \in [Files -> Names \union {NoFile}], NEW taken,
           \A name \in ToSet(Available(files)) :
               \E n \in 1 .. MaxCopies : <<name, n>> \notin taken
    PROVE  /\ Defaults(files, taken) \in Seq(Entries)
           /\ Defaults(files, taken) # <<>>
           /\ OneOwner(Defaults(files, taken))
           /\ Blocks(Defaults(files, taken)) \intersect taken = {}
           /\ \A i \in DOMAIN Defaults(files, taken) :
                 Defaults(files, taken)[i].body \in {"own", "later"}
<1> DEFINE names == Available(files)
           d == Defaults(files, taken)
<1>1. /\ names \in Seq(Names) /\ names # <<>>
      /\ \A i, j \in DOMAIN names : names[i] = names[j] => i = j
    BY AvailableOnce
<1>2. d = [i \in DOMAIN names |->
              [name |-> names[i], res |-> NewBlock(names[i], taken), on |-> names[i] \in DefaultOn,
               body |-> IF names[i] \in ToSet(BuiltIn) THEN "own" ELSE "later"]]
    BY DEF Defaults
<1> HIDE DEF names, d
<1>3. \A i \in DOMAIN names : names[i] \in Names /\ names[i] \in ToSet(names)
    BY <1>1 DEF ToSet
<1>4. \A i \in DOMAIN names :
          /\ NewBlock(names[i], taken) \in Names \X Nat
          /\ NewBlock(names[i], taken)[1] = names[i]
          /\ NewBlock(names[i], taken) \notin taken
    BY <1>3, NewBlockIsNew DEF SettingsAssumption, names
<1>5. DOMAIN d = DOMAIN names /\ DOMAIN names = 1 .. Len(names) /\ Len(names) \in Nat
    BY <1>1, <1>2
<1>6. \A i \in DOMAIN names : /\ d[i] \in Entries /\ d[i].res = NewBlock(names[i], taken)
                              /\ d[i].body \in {"own", "later"}
    BY <1>2, <1>3, <1>4 DEF Entries
<1>7. d \in Seq(Entries)
    <2>1. d \in [1 .. Len(names) -> Entries]
        BY <1>2, <1>5, <1>6
    <2> QED BY <2>1, <1>5
<1>8. d # <<>>
    <2>1. 1 \in DOMAIN names
        BY <1>1
    <2> QED BY <2>1, <1>5
<1>9. OneOwner(d)
    BY <1>1, <1>4, <1>5, <1>6 DEF OneOwner
<1>10. Blocks(d) \intersect taken = {}
    BY <1>4, <1>5, <1>6 DEF Blocks
<1> QED BY <1>5, <1>6, <1>7, <1>8, <1>9, <1>10 DEF d

\* The layout a start begins with is one of the list.
LEMMA FirstOnIsOne ==
    ASSUME NEW list \in Seq(Entries), list # <<>>
    PROVE  FirstOn(list) \in DOMAIN list
<1>1. DOMAIN list = 1 .. Len(list) /\ Len(list) \in Nat /\ Len(list) # 0
    BY SMT
<1>2. CASE AnyOn(list)
    <2> DEFINE ons == {i \in DOMAIN list : list[i].on}
    <2>1. ons \in SUBSET Nat /\ ons # {}
        BY <1>1, <1>2 DEF AnyOn
    <2>2. Min(ons) \in ons
        <3> HIDE DEF ons
        <3> QED BY <2>1, MinIsLeast
    <2> QED BY <1>2, <2>2 DEF FirstOn
<1>3. CASE ~ AnyOn(list)
    BY <1>1, <1>3 DEF FirstOn
<1> QED BY <1>2, <1>3

\* What a start loads: the blocks are new and the tables not read.
LEMMA LoadedIsNew ==
    ASSUME SettingsAssumption, NEW files \in [Files -> Names \union {NoFile}],
           NEW lines \in Seq(Switches)
    PROVE  /\ Loaded(files, lines) \in Seq(Entries)
           /\ Loaded(files, lines) # <<>>
           /\ OneOwner(Loaded(files, lines))
           /\ \A i \in DOMAIN Loaded(files, lines) : Loaded(files, lines)[i].body # "read"
<1> DEFINE d == Defaults(files, {})
<1>1. \A name \in ToSet(Available(files)) : \E n \in 1 .. MaxCopies : <<name, n>> \notin {}
    <2>1. 1 \in 1 .. MaxCopies
        BY DEF SettingsAssumption
    <2> QED BY <2>1
<1>2. /\ d \in Seq(Entries) /\ d # <<>> /\ OneOwner(d)
      /\ \A i \in DOMAIN d : d[i].body \in {"own", "later"}
    BY <1>1, DefaultsAreNew
<1> HIDE DEF d
<1>3. Loaded(files, lines) = Merge(d, lines)
    BY DEF Loaded, d
<1>4. Merge(d, lines) \in Seq(Entries) /\ Reordered(d, Merge(d, lines))
    BY <1>2, MergeReorders
<1>5. /\ OneOwner(Merge(d, lines)) /\ Merge(d, lines) # <<>>
      /\ \A k \in DOMAIN Merge(d, lines) : \E i \in DOMAIN d : SameLayout(Merge(d, lines)[k], d[i])
    BY <1>2, <1>4, ReorderedKeeps
<1>6. \A k \in DOMAIN Merge(d, lines) : Merge(d, lines)[k].body # "read"
    BY <1>2, <1>5 DEF SameLayout
<1> QED BY <1>3, <1>4, <1>5, <1>6

-----------------------------------------------------------------------------
(* Who owns the blocks.                                                     *)

Configs == [list : Seq(Entries), cur : Nat]

\* What a copy says of the tables of a layout is what the other list says or said before the
\* file was read, and the tables it has are those of the other list.
Older(list, of) ==
    /\ \A i \in DOMAIN list, j \in DOMAIN of :
          list[i].res = of[j].res => list[i].body \in {of[j].body, "later"}
    /\ \A i \in DOMAIN list : list[i].body \in {"read", "bad"} => list[i].res \in Blocks(of)

SettingsTypes ==
    /\ live \in Configs /\ temp \in Configs /\ saved \in Configs
    /\ ini \in Seq(Switches)
    /\ store \in [Files -> Names \union {NoFile}]
    /\ baked \in [Files -> Names \union {NoFile}]
    /\ pending \in Seq([name : Names, res : Names \X Nat])
    /\ staged \in SUBSET Bundle
    /\ steps \in Nat

ReadBlocks(list) == {list[i].res : i \in {j \in DOMAIN list : list[j].body = "read"}}

\* The window may go back to a list of the blocks the text service has.
RevertIsSafe ==
    /\ saved.list # <<>>
    /\ OneOwner(saved.list)
    /\ Older(saved.list, live.list)
    /\ Blocks(saved.list) = Blocks(live.list)

OwnersInv ==
    /\ SettingsTypes
    /\ heap = Blocks(live.list) \union Blocks(temp.list)
    /\ bodies = ReadBlocks(live.list)
    /\ live.list # <<>> /\ live.cur \in DOMAIN live.list
    /\ OneOwner(live.list)
    /\ OneOwner(temp.list)
    /\ Older(temp.list, live.list)
    /\ window = "closed" => temp = Empty
    /\ window # "closed" => temp.list # <<>>
    /\ window = "open" => RevertIsSafe
    /\ window = "bake" => staged = {}

LEMMA OwnersAccounted == OwnersInv => BlocksAccountedFor
<1> SUFFICES ASSUME OwnersInv PROVE BlocksAccountedFor
    OBVIOUS
<1>1. ReadBlocks(live.list) = {e.res : e \in {d \in ToSet(live.list) : d.body = "read"}}
    BY DEF ReadBlocks, ToSet
<1> QED BY <1>1 DEF OwnersInv, BlocksAccountedFor, RevertIsSafe

LEMMA EmptyIsFine ==
    /\ Empty \in Configs /\ Empty.list = <<>> /\ OneOwner(Empty.list)
    /\ Blocks(Empty.list) = {} /\ \A of : Older(Empty.list, of)
<1>1. Empty.list = <<>> /\ Empty.cur = 1 /\ Empty \in Configs
    BY DEF Empty, Configs
<1>2. DOMAIN Empty.list = {}
    BY <1>1
<1> QED BY <1>1, <1>2 DEF OneOwner, Blocks, Older

\* A service that starts reads the tables of none of its layouts yet.
LEMMA ServiceStarts ==
    ASSUME SettingsAssumption, NEW files \in [Files -> Names \union {NoFile}],
           NEW lines \in Seq(Switches), NEW list, list = Loaded(files, lines)
    PROVE  /\ [list |-> list, cur |-> FirstOn(list)] \in Configs
           /\ list # <<>> /\ FirstOn(list) \in DOMAIN list
           /\ OneOwner(list) /\ ReadBlocks(list) = {}
<1>1. list \in Seq(Entries) /\ list # <<>> /\ OneOwner(list) /\ \A i \in DOMAIN list : list[i].body # "read"
    BY LoadedIsNew
<1>2. FirstOn(list) \in DOMAIN list
    BY <1>1, FirstOnIsOne
<1>3. FirstOn(list) \in Nat
    BY <1>1, <1>2
<1> QED BY <1>1, <1>2, <1>3 DEF Configs, ReadBlocks

LEMMA OwnersStart == ASSUME SettingsAssumption, SettingsInit PROVE OwnersInv
<1> DEFINE none == [f \in Files |-> NoFile]
           list == Loaded(none, <<>>)
<1>1. none \in [Files -> Names \union {NoFile}] /\ <<>> \in Seq(Switches)
    OBVIOUS
<1> HIDE DEF none
<1>2. /\ [list |-> list, cur |-> FirstOn(list)] \in Configs
      /\ list # <<>> /\ FirstOn(list) \in DOMAIN list
      /\ OneOwner(list) /\ ReadBlocks(list) = {}
    BY <1>1, ServiceStarts
<1>3. /\ live = [list |-> list, cur |-> FirstOn(list)] /\ heap = Blocks(list) /\ bodies = {}
      /\ temp = Empty /\ saved = Empty /\ window = "closed" /\ pending = <<>> /\ staged = {}
      /\ store = none /\ baked = none /\ ini = <<>> /\ steps = 0
    BY DEF SettingsInit, none
<1> HIDE DEF list
<1>4. live.list = list /\ live.cur = FirstOn(list)
    BY <1>3
<1>5. SettingsTypes
    BY <1>1, <1>2, <1>3, EmptyIsFine DEF SettingsTypes
<1> QED BY <1>2, <1>3, <1>4, <1>5, EmptyIsFine DEF OwnersInv

LEMMA RestartOwns == ASSUME SettingsAssumption, OwnersInv, Restart, steps' \in Nat PROVE OwnersInv'
<1> DEFINE list == Loaded(baked, ini)
<1>1. baked \in [Files -> Names \union {NoFile}] /\ ini \in Seq(Switches)
    BY DEF OwnersInv, SettingsTypes
<1>2. /\ [list |-> list, cur |-> FirstOn(list)] \in Configs
      /\ list # <<>> /\ FirstOn(list) \in DOMAIN list
      /\ OneOwner(list) /\ ReadBlocks(list) = {}
    BY <1>1, ServiceStarts
<1>3. /\ live' = [list |-> list, cur |-> FirstOn(list)] /\ heap' = Blocks(list) /\ bodies' = {}
      /\ temp' = Empty /\ saved' = Empty /\ window' = "closed" /\ pending' = <<>> /\ staged' = {}
      /\ store' = store /\ baked' = baked /\ ini' = ini
    BY DEF Restart, StartService, disk
<1> HIDE DEF list
<1>4. live'.list = list /\ live'.cur = FirstOn(list)
    BY <1>3
<1>5. SettingsTypes'
    BY <1>2, <1>3, EmptyIsFine DEF SettingsTypes, OwnersInv
<1> QED BY <1>2, <1>3, <1>4, <1>5, EmptyIsFine DEF OwnersInv

LEMMA RotateOwns == ASSUME OwnersInv, Rotate, steps' = steps PROVE OwnersInv'
<1> DEFINE n == Len(live.list)
           after(k) == ((live.cur - 1 + k) % n) + 1
           ons == {k \in 1 .. n : live.list[after(k)].on}
<1>1. /\ live \in Configs /\ live.list \in Seq(Entries) /\ live.list # <<>>
      /\ live.cur \in DOMAIN live.list
    BY DEF OwnersInv, SettingsTypes, Configs
<1>2. n \in Nat \ {0} /\ DOMAIN live.list = 1 .. n /\ live.cur \in 1 .. n
    BY <1>1
<1>3. ons # {} /\ live' = [live EXCEPT !.cur = after(Min(ons))]
    BY DEF Rotate
<1>4. Min(ons) \in 1 .. n
    <2>1. ons \in SUBSET Nat /\ ons \subseteq 1 .. n
        OBVIOUS
    <2> HIDE DEF ons
    <2> QED BY <2>1, <1>3, MinIsLeast
<1>5. after(Min(ons)) \in 1 .. n
    <2> HIDE DEF ons, n
    <2>1. live.cur - 1 + Min(ons) \in Int
        BY <1>2, <1>4
    <2>2. (live.cur - 1 + Min(ons)) % n \in 0 .. n - 1
        BY <2>1, <1>2
    <2> QED BY <2>2, <1>2
<1>6. live' \in Configs /\ live'.list = live.list /\ live'.cur \in DOMAIN live'.list
    <2> HIDE DEF after, ons, n
    <2>1. after(Min(ons)) \in Nat
        BY <1>2, <1>5
    <2> QED BY <2>1, <1>1, <1>2, <1>3, <1>5 DEF Configs
<1>7. UNCHANGED <<temp, saved, window, heap, bodies, pending, staged, store, baked, ini>>
    BY DEF Rotate, disk
<1> QED BY <1>6, <1>7 DEF OwnersInv, SettingsTypes, RevertIsSafe

\* Reading the tables of a layout of the service leaves the copies as old as they were.
LEMMA UseCurrentOwns == ASSUME OwnersInv, UseCurrent, steps' = steps PROVE OwnersInv'
<1>1. /\ live \in Configs /\ live.list \in Seq(Entries) /\ live.list # <<>>
      /\ live.cur \in DOMAIN live.list /\ OneOwner(live.list) /\ bodies = ReadBlocks(live.list)
    BY DEF OwnersInv, SettingsTypes, Configs
<1>2. PICK body \in {"read", "bad"} :
          /\ live' = [live EXCEPT !.list[live.cur].body = body]
          /\ bodies' = bodies \union {live.list[i].res : i \in {j \in {live.cur} : body = "read"}}
    BY DEF UseCurrent
<1>3. live.list[live.cur].body = "later"
    BY DEF UseCurrent
<1>4. UNCHANGED <<temp, saved, window, heap, pending, staged, store, baked, ini>>
    BY DEF UseCurrent, disk
<1> DEFINE new == [live.list EXCEPT ![live.cur].body = body]
<1>5. live' = [live EXCEPT !.list = new] /\ live'.list = new /\ live'.cur = live.cur
    BY <1>1, <1>2 DEF Configs
<1>6. DOMAIN new = DOMAIN live.list
    OBVIOUS
<1>7. \A i \in DOMAIN live.list :
          /\ new[i] = IF i = live.cur THEN [live.list[i] EXCEPT !.body = body] ELSE live.list[i]
          /\ live.list[i] \in Entries
    BY <1>1
<1>8. \A i \in DOMAIN live.list :
          /\ new[i] \in Entries /\ new[i].res = live.list[i].res
          /\ new[i].body = IF i = live.cur THEN body ELSE live.list[i].body
    BY <1>7 DEF Entries
<1>9. new \in Seq(Entries)
    <2>1. DOMAIN live.list = 1 .. Len(live.list) /\ Len(live.list) \in Nat
        BY <1>1
    <2>2. new \in [1 .. Len(live.list) -> Entries]
        BY <2>1, <1>8
    <2> HIDE DEF new
    <2> QED BY <2>1, <2>2
<1> HIDE DEF new
<1>10. live' \in Configs
    BY <1>1, <1>5, <1>9 DEF Configs
<1>11. Blocks(new) = Blocks(live.list)
    BY <1>6, <1>8 DEF Blocks
<1>12. OneOwner(new)
    BY <1>1, <1>6, <1>8 DEF OneOwner
<1>13. bodies' = ReadBlocks(new)
    BY <1>1, <1>2, <1>3, <1>6, <1>8 DEF ReadBlocks
<1>14. ASSUME NEW list, Older(list, live.list) PROVE Older(list, new)
    BY <1>14, <1>3, <1>6, <1>8, <1>11 DEF Older
<1>15. new # <<>> /\ live.cur \in DOMAIN new
    BY <1>1, <1>6
<1>16. RevertIsSafe => RevertIsSafe'
    BY <1>4, <1>5, <1>11, <1>14 DEF RevertIsSafe
<1>17. SettingsTypes'
    BY <1>4, <1>10 DEF OwnersInv, SettingsTypes
<1> QED BY <1>4, <1>5, <1>11, <1>12, <1>13, <1>14, <1>15, <1>16, <1>17 DEF OwnersInv

LEMMA ShowOwns == ASSUME OwnersInv, Show, steps' \in Nat PROVE OwnersInv'
<1>1. /\ window = "closed" /\ window' = "open" /\ temp' = live /\ saved' = live
      /\ pending' = <<>> /\ staged' = {}
      /\ UNCHANGED <<live, heap, bodies, store, baked, ini>>
    BY DEF Show, disk
<1>2. temp = Empty
    BY <1>1 DEF OwnersInv
<1>3. Blocks(temp.list) = {}
    BY <1>2, EmptyIsFine
<1>4. Older(live.list, live.list)
    BY DEF OwnersInv, OneOwner, Older, Blocks
<1>5. SettingsTypes'
    BY <1>1 DEF OwnersInv, SettingsTypes
<1>6. heap' = Blocks(temp'.list)
    BY <1>1, <1>3 DEF OwnersInv
<1> QED BY <1>1, <1>4, <1>5, <1>6 DEF OwnersInv, RevertIsSafe

\* A list with the layouts of another is as old.
LEMMA ReorderedIsAsOld ==
    ASSUME NEW list \in Seq(Entries), NEW other \in Seq(Entries), NEW of,
           Reordered(list, other), Older(list, of)
    PROVE  Older(other, of)
<1>1. \A k \in DOMAIN other : \E i \in DOMAIN list : SameLayout(other[k], list[i])
    BY ReorderedKeeps
<1> QED BY <1>1 DEF SameLayout, Older

\* An edit that reorders the copy.
LEMMA ReorderOwns ==
    ASSUME OwnersInv, window = "open", steps' \in Nat,
           NEW list \in Seq(Entries), NEW cur \in Nat, Reordered(temp.list, list),
           temp' = [list |-> list, cur |-> cur], staged' \in SUBSET Bundle,
           UNCHANGED <<live, saved, window, heap, bodies, pending, store, baked, ini>>
    PROVE  OwnersInv'
<1>1. temp.list \in Seq(Entries) /\ temp.list # <<>> /\ OneOwner(temp.list) /\ Older(temp.list, live.list)
    BY DEF OwnersInv, SettingsTypes, Configs
<1>2. /\ Blocks(list) = Blocks(temp.list) /\ OneOwner(list) /\ list # <<>> /\ Older(list, live.list)
    BY <1>1, ReorderedKeeps, ReorderedIsAsOld
<1>3. temp' \in Configs /\ temp'.list = list
    BY DEF Configs
<1>4. SettingsTypes'
    BY <1>3 DEF OwnersInv, SettingsTypes
<1> QED BY <1>2, <1>3, <1>4 DEF OwnersInv, RevertIsSafe

LEMMA ToggleOwns ==
    ASSUME OwnersInv, NEW i \in DOMAIN temp.list, Toggle(i), steps' \in Nat PROVE OwnersInv'
<1> DEFINE list == [temp.list EXCEPT ![i].on = ~@]
           p == [k \in DOMAIN temp.list |-> k]
<1>1. /\ temp \in Configs /\ temp.list \in Seq(Entries)
    BY DEF OwnersInv, SettingsTypes, Configs
<1>2. /\ window = "open" /\ temp' = [temp EXCEPT !.list[i].on = ~@]
      /\ UNCHANGED <<live, saved, window, heap, bodies, pending, staged, store, baked, ini>>
    BY DEF Toggle, OnlyTemp, disk
<1>3. temp' = [list |-> list, cur |-> temp.cur] /\ temp.cur \in Nat
    BY <1>1, <1>2 DEF Configs
<1>4. \A k \in DOMAIN temp.list :
          /\ temp.list[k] \in Entries
          /\ list[k] = IF k = i THEN [temp.list[k] EXCEPT !.on = ~@] ELSE temp.list[k]
    BY <1>1
<1>5. DOMAIN list = DOMAIN temp.list
    OBVIOUS
<1> HIDE DEF list
<1>6. \A k \in DOMAIN temp.list : list[k] \in Entries /\ SameLayout(list[k], temp.list[k])
    <2> TAKE k \in DOMAIN temp.list
    <2> DEFINE e == temp.list[k]
    <2>1. e \in Entries /\ list[k] = IF k = i THEN [e EXCEPT !.on = ~@] ELSE e
        BY <1>4
    <2> HIDE DEF e
    <2>2. [e EXCEPT !.on = ~@] \in Entries /\ SameLayout([e EXCEPT !.on = ~@], e)
        BY <2>1 DEF Entries, SameLayout
    <2>3. list[k] \in Entries /\ SameLayout(list[k], e)
        BY <2>1, <2>2 DEF SameLayout
    <2> QED BY <2>3 DEF e
<1>7. list \in Seq(Entries)
    <2>1. DOMAIN temp.list = 1 .. Len(temp.list) /\ Len(temp.list) \in Nat
        BY <1>1
    <2>2. list \in [1 .. Len(temp.list) -> Entries]
        <3>1. list = [k \in DOMAIN temp.list |-> list[k]]
            BY <1>5 DEF list
        <3> QED BY <2>1, <3>1, <1>6
    <2> QED BY <2>1, <2>2
<1>8. Reordered(temp.list, list)
    <2>1. p \in [DOMAIN list -> DOMAIN temp.list] /\ IsInjective(p)
        BY <1>5 DEF IsInjective
    <2>2. \A k \in DOMAIN temp.list : p[k] = k
        OBVIOUS
    <2> HIDE DEF p
    <2> QED BY <2>1, <2>2, <1>5, <1>6 DEF Reordered
<1>9. staged' \in SUBSET Bundle
    BY <1>2 DEF OwnersInv, SettingsTypes
<1> QED BY <1>2, <1>3, <1>7, <1>8, <1>9, ReorderOwns

LEMMA MoveUpOwns ==
    ASSUME OwnersInv, NEW i \in DOMAIN temp.list, MoveUp(i), steps' \in Nat PROVE OwnersInv'
<1> DEFINE t == temp.list
           list == [t EXCEPT ![i - 1] = t[i], ![i] = t[i - 1]]
           p == [k \in DOMAIN t |-> IF k = i THEN i - 1 ELSE IF k = i - 1 THEN i ELSE k]
<1>1. /\ temp \in Configs /\ t \in Seq(Entries) /\ DOMAIN t = 1 .. Len(t) /\ Len(t) \in Nat
    BY DEF OwnersInv, SettingsTypes, Configs
<1>2. /\ window = "open" /\ i > 1
      /\ temp' = [temp EXCEPT !.list[i - 1] = t[i], !.list[i] = t[i - 1]]
      /\ UNCHANGED <<live, saved, window, heap, bodies, pending, staged, store, baked, ini>>
    BY DEF MoveUp, OnlyTemp, disk
<1>3. temp' = [list |-> list, cur |-> temp.cur] /\ temp.cur \in Nat
    BY <1>1, <1>2 DEF Configs
<1>4. i - 1 \in DOMAIN t /\ i \in DOMAIN t /\ i - 1 # i
    BY <1>1, <1>2
<1>5. DOMAIN list = DOMAIN t
    OBVIOUS
<1>6. \A k \in DOMAIN t : t[k] \in Entries
    BY <1>1
<1>7. \A k \in DOMAIN t : p[k] \in DOMAIN t /\ list[k] = t[p[k]] /\ p[p[k]] = k
    BY <1>4
<1>8. list \in Seq(Entries)
    <2>1. list \in [1 .. Len(t) -> Entries]
        BY <1>1, <1>4, <1>6
    <2> HIDE DEF list
    <2> QED BY <2>1, <1>1
<1>9. Reordered(t, list)
    <2>1. p \in [DOMAIN list -> DOMAIN t]
        BY <1>5, <1>7
    <2>2. DOMAIN p = DOMAIN t
        OBVIOUS
    <2> HIDE DEF p, list, t
    <2>3. IsInjective(p)
        BY <2>2, <1>7 DEF IsInjective
    <2>4. \A k \in DOMAIN t : \E l \in DOMAIN list : p[l] = k
        BY <1>5, <1>7
    <2>5. \A k \in DOMAIN list : SameLayout(list[k], t[p[k]])
        BY <1>5, <1>7 DEF SameLayout
    <2> QED BY <2>1, <2>3, <2>4, <2>5 DEF Reordered
<1>10. staged' \in SUBSET Bundle
    BY <1>2 DEF OwnersInv, SettingsTypes
<1> HIDE DEF list
<1> QED BY <1>2, <1>3, <1>8, <1>9, <1>10, ReorderOwns

LEMMA ImportOwns == ASSUME SettingsAssumption, OwnersInv, Import, steps' \in Nat PROVE OwnersInv'
<1> DEFINE list == Merge(temp.list, Imported)
<1>1. temp.list \in Seq(Entries) /\ temp.list # <<>>  /\ window = "open"
    BY DEF OwnersInv, SettingsTypes, Configs, Import
<1>2. Imported \in Seq(Switches)
    <2> DEFINE R == [name : {Imported[i].name : i \in DOMAIN Imported}, on : BOOLEAN]
    <2>1. Imported \in Seq(R)
        BY DEF SettingsAssumption
    <2>2. R \subseteq Switches
        BY DEF Switches
    <2> HIDE DEF R
    <2> QED BY <2>1, <2>2
<1>3. list \in Seq(Entries) /\ Reordered(temp.list, list)
    BY <1>1, <1>2, MergeReorders
<1>4. list # <<>>
    BY <1>1, <1>3, ReorderedKeeps
<1>5. FirstOn(list) \in Nat
    <2> HIDE DEF list
    <2>1. FirstOn(list) \in DOMAIN list
        BY <1>3, <1>4, FirstOnIsOne
    <2> QED BY <2>1, <1>3
<1>6. /\ temp' = [list |-> list, cur |-> FirstOn(list)]
      /\ UNCHANGED <<live, saved, window, heap, bodies, pending, store, baked, ini>>
    BY DEF Import
<1>7. staged' \in SUBSET Bundle
    BY DEF Import, OwnersInv, SettingsTypes
<1> HIDE DEF list
<1> QED BY <1>1, <1>3, <1>5, <1>6, <1>7, ReorderOwns

\* Where the entries of a list without its i-th one come from, and where they go.
Over(i, k) == IF k < i THEN k ELSE k + 1
Under(i, j) == IF j < i THEN j ELSE j - 1

\* A list without one of its entries.
LEMMA WithoutOne ==
    ASSUME NEW S, NEW s \in Seq(S), NEW i \in DOMAIN s
    PROVE  /\ RemoveAt(s, i) \in Seq(S)
           /\ Len(RemoveAt(s, i)) = Len(s) - 1
           /\ \A k \in DOMAIN RemoveAt(s, i) :
                 /\ Over(i, k) \in DOMAIN s \ {i}
                 /\ RemoveAt(s, i)[k] = s[Over(i, k)]
           /\ \A j \in DOMAIN s \ {i} : Under(i, j) \in DOMAIN RemoveAt(s, i)
<1> DEFINE a == SubSeq(s, 1, i - 1)
           b == SubSeq(s, i + 1, Len(s))
           r == a \o b
<1>1. RemoveAt(s, i) = r
    BY DEF RemoveAt
<1>2. Len(s) \in Nat /\ DOMAIN s = 1 .. Len(s) /\ i \in 1 .. Len(s)
    OBVIOUS
<1>3. a \in Seq(S) /\ Len(a) = i - 1 /\ \A k \in 1 .. i - 1 : a[k] = s[k]
    BY <1>2, SubSeqProperties
<1>4. b \in Seq(S) /\ Len(b) = Len(s) - i /\ \A k \in 1 .. Len(s) - i : b[k] = s[i + k]
    BY <1>2, SubSeqProperties
<1> HIDE DEF a, b
<1>5. /\ r \in Seq(S) /\ Len(r) = Len(s) - 1
      /\ \A k \in 1 .. Len(s) - 1 : r[k] = IF k <= i - 1 THEN a[k] ELSE b[k - (i - 1)]
    <2>1. Len(a) + Len(b) = Len(s) - 1
        BY <1>2, <1>3, <1>4
    <2>2. /\ r \in Seq(S) /\ Len(r) = Len(a) + Len(b)
          /\ \A k \in 1 .. Len(a) + Len(b) : r[k] = IF k <= Len(a) THEN a[k] ELSE b[k - Len(a)]
        BY <1>3, <1>4, ConcatProperties
    <2> HIDE DEF r
    <2> QED BY <2>1, <2>2, <1>3
<1> HIDE DEF r
<1>6. DOMAIN r = 1 .. Len(s) - 1
    BY <1>5
<1>7. \A k \in 1 .. Len(s) - 1 : r[k] = s[Over(i, k)]
    <2> TAKE k \in 1 .. Len(s) - 1
    <2>1. CASE k < i
        BY <1>2, <1>3, <1>5, <2>1 DEF Over
    <2>2. CASE ~ k < i
        <3>1. k - (i - 1) \in 1 .. Len(s) - i /\ i + (k - (i - 1)) = k + 1 /\ ~ k <= i - 1
            BY <1>2, <2>2
        <3> QED BY <1>4, <1>5, <2>2, <3>1 DEF Over
    <2> QED BY <2>1, <2>2
<1>8. \A k \in 1 .. Len(s) - 1 : Over(i, k) \in DOMAIN s \ {i}
    BY <1>2 DEF Over
<1>9. \A j \in DOMAIN s \ {i} : Under(i, j) \in 1 .. Len(s) - 1
    BY <1>2 DEF Under
<1>10. \A k \in DOMAIN r : /\ Over(i, k) \in DOMAIN s \ {i}
                            /\ r[k] = s[Over(i, k)]
    BY <1>6, <1>7, <1>8
<1>11. \A j \in DOMAIN s \ {i} : Under(i, j) \in DOMAIN r
    BY <1>6, <1>9
<1>12. r \in Seq(S) /\ Len(r) = Len(s) - 1
    BY <1>5
<1> QED BY <1>1, <1>10, <1>11, <1>12, Zenon

\* Deleting frees the block of the layout, unless the text service has it.
LEMMA DeleteOwns ==
    ASSUME OwnersInv, NEW i \in DOMAIN temp.list, Delete(i), steps' \in Nat PROVE OwnersInv'
<1> DEFINE t == temp.list
           gone == t[i]
           list == RemoveAt(t, i)
           mine == {k \in DOMAIN pending : pending[k].res = gone.res}
<1>1. /\ temp \in Configs /\ t \in Seq(Entries) /\ DOMAIN t = 1 .. Len(t) /\ Len(t) \in Nat
      /\ OneOwner(t) /\ Older(t, live.list) /\ heap = Blocks(live.list) \union Blocks(t)
    BY DEF OwnersInv, SettingsTypes, Configs
<1>2. /\ window = "open" /\ Len(t) > 1
      /\ temp' = [temp EXCEPT !.list = RemoveAt(@, i)]
      /\ heap' = IF gone.res \in Blocks(live.list) THEN heap ELSE heap \ {gone.res}
      /\ pending' = IF mine = {} THEN pending
                    ELSE Front([pending EXCEPT ![Min(mine)] = Last(pending)])
      /\ UNCHANGED <<live, saved, window, bodies, staged, store, baked, ini>>
    BY DEF Delete, disk
<1>3. temp' = [list |-> list, cur |-> temp.cur] /\ temp.cur \in Nat
    BY <1>1, <1>2 DEF Configs
<1>4. /\ list \in Seq(Entries) /\ Len(list) = Len(t) - 1
      /\ \A k \in DOMAIN list : /\ Over(i, k) \in DOMAIN t \ {i}
                                /\ list[k] = t[Over(i, k)]
      /\ \A j \in DOMAIN t \ {i} : Under(i, j) \in DOMAIN list
    <2>1. i \in DOMAIN t
        OBVIOUS
    <2>2. t \in Seq(Entries)
        BY <1>1
    <2> HIDE DEF t
    <2>3. list \in Seq(Entries) /\ Len(list) = Len(t) - 1
        BY <2>1, <2>2, WithoutOne
    <2>4. \A k \in DOMAIN list : Over(i, k) \in DOMAIN t \ {i} /\ list[k] = t[Over(i, k)]
        BY <2>1, <2>2, WithoutOne
    <2>5. \A j \in DOMAIN t \ {i} : Under(i, j) \in DOMAIN list
        BY <2>1, <2>2, WithoutOne
    <2> QED BY <2>3, <2>4, <2>5
<1> HIDE DEF list, t
<1>5. DOMAIN list = 1 .. Len(list)
    BY <1>4
<1>6. \A j \in DOMAIN t \ {i} : \E k \in DOMAIN list : list[k] = t[j]
    <2> TAKE j \in DOMAIN t \ {i}
    <2> DEFINE k == Under(i, j)
    <2>1. k \in DOMAIN list
        BY <1>4
    <2>2. Over(i, k) = j
        BY <1>1, i \in DOMAIN t DEF t, Over, Under
    <2>3. list[k] = t[j]
        <3> HIDE DEF k
        <3> QED BY <2>1, <2>2, <1>4
    <2> QED BY <2>1, <2>3
<1>7. \A k \in DOMAIN list : \E j \in DOMAIN t \ {i} : list[k] = t[j]
    BY <1>4
<1>8. Blocks(list) = Blocks(t) \ {gone.res}
    <2>1. \A j \in DOMAIN t \ {i} : t[j].res # gone.res
        BY <1>1 DEF OneOwner, t
    <2>2. \A k \in DOMAIN list : list[k].res \in Blocks(t) \ {gone.res}
        BY <1>7, <2>1 DEF Blocks
    <2>3. \A j \in DOMAIN t : t[j].res # gone.res => t[j].res \in Blocks(list)
        BY <1>6 DEF Blocks
    <2> QED BY <2>2, <2>3 DEF Blocks
<1>9. heap' = Blocks(live.list) \union Blocks(list)
    BY <1>1, <1>2, <1>8
<1>10. OneOwner(list)
    <2> SUFFICES ASSUME NEW k \in DOMAIN list, NEW l \in DOMAIN list, list[k].res = list[l].res
                 PROVE  k = l
        BY DEF OneOwner
    <2>1. Over(i, k) = Over(i, l)
        BY <1>1, <1>4 DEF OneOwner
    <2>2. k \in 1 .. Len(list) /\ l \in 1 .. Len(list) /\ i \in 1 .. Len(t)
        BY <1>1, <1>5 DEF t
    <2> QED BY <2>1, <2>2 DEF Over
<1>11. Older(list, live.list)
    BY <1>1, <1>7 DEF Older
<1>12. list # <<>>
    BY <1>1, <1>2, <1>4
<1>13. temp' \in Configs /\ temp'.list = list
    BY <1>3, <1>4 DEF Configs
<1>14. pending' \in Seq([name : Names, res : Names \X Nat])
    <2> DEFINE Pend == [name : Names, res : Names \X Nat]
    <2>1. pending \in Seq(Pend)
        BY DEF OwnersInv, SettingsTypes
    <2>2. CASE mine = {}
        BY <1>2, <2>1, <2>2
    <2>3. CASE mine # {}
        <3> HIDE DEF Pend, mine
        <3> DEFINE q == [pending EXCEPT ![Min(mine)] = Last(pending)]
        <3>1. pending # <<>>
            <4> SUFFICES ASSUME pending = <<>> PROVE FALSE
                OBVIOUS
            <4>1. DOMAIN pending = {}
                OBVIOUS
            <4> QED BY <4>1, <2>3 DEF mine
        <3>2. Last(pending) \in Pend
            BY <2>1, <3>1 DEF Last
        <3>3. q \in Seq(Pend) /\ Len(q) = Len(pending) /\ Len(pending) \in Nat \ {0}
            <4>1. Len(pending) \in Nat \ {0} /\ pending \in [1 .. Len(pending) -> Pend]
                BY <2>1, <3>1
            <4>2. q \in [1 .. Len(pending) -> Pend]
                BY <4>1, <3>2
            <4> HIDE DEF q
            <4> QED BY <4>1, <4>2
        <3> HIDE DEF q
        <3>4. \A k \in 1 .. Len(q) - 1 : q[k] \in Pend
            BY <3>3
        <3>5. SubSeq(q, 1, Len(q) - 1) \in Seq(Pend)
            BY <3>3, <3>4, SubSeqProperties
        <3>6. pending' = Front(q)
            BY <1>2, <2>3 DEF q
        <3> QED BY <3>5, <3>6 DEF Front, Pend
    <2> QED BY <2>2, <2>3
<1>15. SettingsTypes'
    BY <1>2, <1>13, <1>14 DEF OwnersInv, SettingsTypes
<1> QED BY <1>2, <1>9, <1>10, <1>11, <1>12, <1>13, <1>15 DEF OwnersInv, RevertIsSafe

\* Adding takes a block no list knows.
LEMMA AddOwns ==
    ASSUME SettingsAssumption, OwnersInv, NEW name \in Addable, Add(name), steps' \in Nat
    PROVE  OwnersInv'
<1> DEFINE t == temp.list
           e == [name |-> name, res |-> Fresh(name), on |-> TRUE, body |-> "own"]
           list == Append(t, e)
           n == Len(t)
<1>1. /\ temp \in Configs /\ t \in Seq(Entries) /\ temp.cur \in Nat
      /\ OneOwner(t) /\ Older(t, live.list) /\ heap = Blocks(live.list) \union Blocks(t)
    BY DEF OwnersInv, SettingsTypes, Configs
<1>2. /\ window = "open" /\ CanAllocate(name)
      /\ temp' = [temp EXCEPT !.list = Append(@, e)]
      /\ heap' = heap \union {Fresh(name)}
      /\ pending' = Append(pending, [name |-> name, res |-> Fresh(name)])
      /\ UNCHANGED <<live, saved, window, bodies, staged, store, baked, ini>>
    BY DEF Add, disk
<1>3. temp' = [list |-> list, cur |-> temp.cur]
    BY <1>1, <1>2 DEF Configs
<1>4. name \in Names /\ MaxCopies \in Nat
    BY DEF Names, SettingsAssumption
<1>5. Fresh(name) \in Names \X Nat /\ Fresh(name) \notin Referenced
    BY <1>2, <1>4, NewBlockIsNew DEF CanAllocate, Fresh
<1>6. Fresh(name) \notin Blocks(t) /\ Fresh(name) \notin Blocks(live.list)
    BY <1>5 DEF Referenced
<1>7. e \in Entries
    BY <1>4, <1>5 DEF Entries
<1>8. e.res = Fresh(name) /\ e.body = "own"
    OBVIOUS
<1> HIDE DEF e, t
<1>9. /\ n \in Nat /\ DOMAIN t = 1 .. n
      /\ list \in Seq(Entries) /\ list # <<>> /\ DOMAIN list = 1 .. n + 1
      /\ \A k \in 1 .. n : list[k] = t[k]
      /\ list[n + 1] = e
    BY <1>1, <1>7
<1> HIDE DEF list, n
<1>10. \A k \in 1 .. n : list[k].res \in Blocks(t) /\ list[k].res # Fresh(name)
    BY <1>6, <1>9 DEF Blocks
<1>11. Blocks(list) = Blocks(t) \union {Fresh(name)}
    <2>1. \A k \in DOMAIN list : list[k].res \in Blocks(t) \union {Fresh(name)}
        BY <1>8, <1>9, <1>10
    <2>2. \A k \in DOMAIN t : t[k].res \in Blocks(list)
        BY <1>9 DEF Blocks
    <2>3. Fresh(name) \in Blocks(list)
        BY <1>8, <1>9 DEF Blocks
    <2> QED BY <2>1, <2>2, <2>3 DEF Blocks
<1>12. OneOwner(list)
    <2> SUFFICES ASSUME NEW k \in 1 .. n + 1, NEW l \in 1 .. n + 1, list[k].res = list[l].res
                 PROVE  k = l
        BY <1>9 DEF OneOwner
    <2>1. k \in 1 .. n \/ k = n + 1
        BY <1>9
    <2>2. l \in 1 .. n \/ l = n + 1
        BY <1>9
    <2>3. CASE k \in 1 .. n /\ l \in 1 .. n
        BY <2>3, <1>1, <1>9 DEF OneOwner
    <2> QED BY <2>1, <2>2, <2>3, <1>8, <1>9, <1>10
<1>13. Older(list, live.list)
    <2>1. \A k \in 1 .. n, j \in DOMAIN live.list :
              list[k].res = live.list[j].res => list[k].body \in {live.list[j].body, "later"}
        BY <1>1, <1>9 DEF Older
    <2>2. \A k \in 1 .. n : list[k].body \in {"read", "bad"} => list[k].res \in Blocks(live.list)
        BY <1>1, <1>9 DEF Older
    <2>3. \A j \in DOMAIN live.list : live.list[j].res # Fresh(name)
        BY <1>6 DEF Blocks
    <2>4. \A k \in 1 .. n + 1 : k \in 1 .. n \/ k = n + 1
        BY <1>9
    <2> QED BY <2>1, <2>2, <2>3, <2>4, <1>8, <1>9 DEF Older
<1>14. temp' \in Configs /\ temp'.list = list
    BY <1>1, <1>3, <1>9 DEF Configs
<1>15. pending' \in Seq([name : Names, res : Names \X Nat])
    <2> DEFINE Pend == [name : Names, res : Names \X Nat]
    <2>1. pending \in Seq(Pend) /\ [name |-> name, res |-> Fresh(name)] \in Pend
        BY <1>4, <1>5 DEF OwnersInv, SettingsTypes
    <2> HIDE DEF Pend
    <2>2. pending' \in Seq(Pend)
        BY <1>2, <2>1
    <2> QED BY <2>2 DEF Pend
<1>16. SettingsTypes'
    BY <1>2, <1>14, <1>15 DEF OwnersInv, SettingsTypes
<1>17. heap' = Blocks(live.list) \union Blocks(list)
    BY <1>1, <1>2, <1>11
<1> QED BY <1>2, <1>9, <1>12, <1>13, <1>14, <1>16, <1>17 DEF OwnersInv, RevertIsSafe

LEMMA KeptIsLive == OwnersInv => KeptByLive = Blocks(live.list)
BY DEF OwnersInv, KeptByLive

LEMMA ResetOwns == ASSUME SettingsAssumption, OwnersInv, Reset, steps' \in Nat PROVE OwnersInv'
<1> DEFINE list == Defaults(baked, Referenced)
<1>1. /\ window = "open" /\ staged' = {} /\ pending' = <<>>
      /\ temp' = [list |-> list, cur |-> 1]
      /\ heap' = KeptByLive \union Blocks(temp'.list)
      /\ \A n \in ToSet(Available(baked)) : CanAllocate(n)
      /\ UNCHANGED <<live, saved, window, bodies, store, baked, ini>>
    BY DEF Reset, DiscardPending
<1>2. baked \in [Files -> Names \union {NoFile}]
    BY DEF OwnersInv, SettingsTypes
<1>3. /\ list \in Seq(Entries) /\ list # <<>> /\ OneOwner(list)
      /\ Blocks(list) \intersect Referenced = {}
      /\ \A i \in DOMAIN list : list[i].body \in {"own", "later"}
    BY <1>1, <1>2, DefaultsAreNew DEF CanAllocate
<1> HIDE DEF list
<1>4. temp' \in Configs /\ temp'.list = list
    BY <1>1, <1>3 DEF Configs
<1>5. \A i \in DOMAIN list : list[i].res \notin Blocks(live.list)
    BY <1>3 DEF Referenced, Blocks
<1>6. Older(list, live.list)
    <2>1. \A i \in DOMAIN list, j \in DOMAIN live.list : list[i].res # live.list[j].res
        BY <1>5 DEF Blocks
    <2> QED BY <2>1, <1>3 DEF Older
<1>7. SettingsTypes'
    BY <1>1, <1>4 DEF OwnersInv, SettingsTypes
<1>8. heap' = Blocks(live.list) \union Blocks(list)
    BY <1>1, <1>4, KeptIsLive
<1> QED BY <1>1, <1>3, <1>4, <1>6, <1>7, <1>8 DEF OwnersInv, RevertIsSafe

LEMMA RevertOwns == ASSUME OwnersInv, Revert, steps' \in Nat PROVE OwnersInv'
<1>1. /\ window = "open" /\ staged' = {} /\ pending' = <<>> /\ temp' = saved
      /\ heap' = Blocks(live.list)
      /\ UNCHANGED <<live, saved, window, bodies, store, baked, ini>>
    BY KeptIsLive DEF Revert, DiscardPending
<1>2. RevertIsSafe
    BY <1>1 DEF OwnersInv
<1>3. SettingsTypes'
    BY <1>1 DEF OwnersInv, SettingsTypes
<1> QED BY <1>1, <1>2, <1>3 DEF OwnersInv, RevertIsSafe

LEMMA CloseOwns == ASSUME OwnersInv, Close, steps' = steps PROVE OwnersInv'
<1>1. /\ staged' = {} /\ pending' = <<>> /\ temp' = Empty /\ saved' = Empty
      /\ heap' = Blocks(live.list) /\ window' = "closed"
      /\ UNCHANGED <<live, bodies, store, baked, ini>>
    BY KeptIsLive DEF Close, DiscardPending
<1>2. SettingsTypes'
    BY <1>1, EmptyIsFine DEF OwnersInv, SettingsTypes
<1> QED BY <1>1, <1>2, EmptyIsFine DEF OwnersInv

LEMMA BakeOwns == ASSUME OwnersInv, BakeAndClose, steps' = steps PROVE OwnersInv'
<1>1. /\ temp' = Empty /\ saved' = Empty /\ heap' = Blocks(live.list) /\ window' = "closed"
      /\ baked' \in {store, baked}
      /\ UNCHANGED <<live, bodies, pending, staged, store, ini>>
    BY KeptIsLive DEF BakeAndClose
<1>2. SettingsTypes'
    BY <1>1, EmptyIsFine DEF OwnersInv, SettingsTypes
<1> QED BY <1>1, <1>2, EmptyIsFine DEF OwnersInv

LEMMA SaveOwns == ASSUME OwnersInv, Save, steps' = steps PROVE OwnersInv'
<1>1. /\ window = "save" /\ window' = "files" /\ saved' = live
      /\ ini' \in {ini, Lines(live.list)}
      /\ UNCHANGED <<live, temp, heap, bodies, pending, staged, store, baked>>
    BY DEF Save
<1>2. Lines(live.list) \in Seq(Switches)
    <2>1. live.list \in Seq(Entries)
        BY DEF OwnersInv, SettingsTypes, Configs
    <2>2. \A i \in DOMAIN live.list :
              [name |-> live.list[i].name, on |-> live.list[i].on] \in Switches
        <3> TAKE i \in DOMAIN live.list
        <3>1. live.list[i] \in Entries
            BY <2>1
        <3> QED BY <3>1 DEF Entries, Switches
    <2>3. Lines(live.list) \in [1 .. Len(live.list) -> Switches] /\ Len(live.list) \in Nat
        BY <2>1, <2>2 DEF Lines
    <2> QED BY <2>3
<1>3. SettingsTypes'
    BY <1>1, <1>2 DEF OwnersInv, SettingsTypes
<1> QED BY <1>1, <1>3 DEF OwnersInv

LEMMA CopyAddedOwns == ASSUME OwnersInv, CopyAdded, steps' = steps PROVE OwnersInv'
<1> DEFINE Pend == [name : Names, res : Names \X Nat]
<1>1. /\ window = "files" /\ pending # <<>> /\ pending' = Tail(pending)
      /\ \/ store' = [store EXCEPT ![FileOf[Head(pending).name]] = Head(pending).name]
         \/ store' = store
      /\ UNCHANGED <<live, temp, saved, window, heap, bodies, staged, baked, ini>>
    BY DEF CopyAdded
<1>2. pending \in Seq(Pend) /\ store \in [Files -> Names \union {NoFile}]
    BY DEF OwnersInv, SettingsTypes
<1>3. Head(pending) \in Pend /\ Tail(pending) \in Seq(Pend)
    <2> HIDE DEF Pend
    <2> QED BY <1>1, <1>2
<1>4. Head(pending).name \in Names
    BY <1>3
<1>5. store' \in [Files -> Names \union {NoFile}]
    BY <1>1, <1>2, <1>4
<1>6. SettingsTypes'
    BY <1>1, <1>3, <1>5 DEF OwnersInv, SettingsTypes
<1> QED BY <1>1, <1>6 DEF OwnersInv

LEMMA CommitStagedOwns == ASSUME OwnersInv, CommitStaged, steps' = steps PROVE OwnersInv'
<1>1. /\ window = "files" /\ window' = "bake" /\ staged' = {}
      /\ store' = [f \in Files |->
                      IF store[f] = NoFile /\ f \in {FileOf[n] : n \in staged}
                      THEN CHOOSE n \in staged : FileOf[n] = f ELSE store[f]]
      /\ UNCHANGED <<live, temp, saved, heap, bodies, pending, baked, ini>>
    BY DEF CommitStaged
<1>2. staged \in SUBSET Names /\ store \in [Files -> Names \union {NoFile}]
    BY DEF OwnersInv, SettingsTypes, Names
<1>3. \A f \in {FileOf[n] : n \in staged} : (CHOOSE n \in staged : FileOf[n] = f) \in Names
    BY <1>2
<1>4. store' \in [Files -> Names \union {NoFile}]
    BY <1>1, <1>2, <1>3
<1>5. SettingsTypes'
    BY <1>1, <1>4 DEF OwnersInv, SettingsTypes
<1> QED BY <1>1, <1>5 DEF OwnersInv

\* What Apply carries over: the tables of a layout are read exactly if the service read them.
LEMMA CarriedOver ==
    ASSUME OwnersInv, NEW i \in DOMAIN temp.list
    PROVE  /\ WithBody(temp.list[i]) \in Entries
           /\ WithBody(temp.list[i]).res = temp.list[i].res
           /\ temp.list[i].body \in {WithBody(temp.list[i]).body, "later"}
           /\ WithBody(temp.list[i]).body = "read" <=>
                 \E j \in DOMAIN live.list :
                     live.list[j].res = temp.list[i].res /\ live.list[j].body = "read"
<1> DEFINE e == temp.list[i]
           L == live.list
           read == {d \in ToSet(L) : d.res = e.res /\ d.body \in {"read", "bad"}}
           w == WithBody(e)
<1>1. /\ e \in Entries /\ L \in Seq(Entries) /\ OneOwner(L)
      /\ \A j \in DOMAIN L : e.res = L[j].res => e.body \in {L[j].body, "later"}
      /\ e.body \in {"read", "bad"} => \E j \in DOMAIN L : L[j].res = e.res
    <2>1. temp.list \in Seq(Entries) /\ L \in Seq(Entries)
        BY DEF OwnersInv, SettingsTypes, Configs
    <2>2. e \in Entries
        BY <2>1
    <2>3. OneOwner(L) /\ Older(temp.list, L)
        BY DEF OwnersInv
    <2>4. \A j \in DOMAIN L : e.res = L[j].res => e.body \in {L[j].body, "later"}
        BY <2>3 DEF Older
    <2>5. e.body \in {"read", "bad"} => e.res \in Blocks(L)
        BY <2>3 DEF Older
    <2> HIDE DEF e, L
    <2>6. e.body \in {"read", "bad"} => \E j \in DOMAIN L : L[j].res = e.res
        BY <2>5 DEF Blocks
    <2> QED BY <2>1, <2>2, <2>3, <2>4, <2>6
<1>2. w = IF e.body = "later" /\ read # {} THEN [e EXCEPT !.body = (CHOOSE d \in read : TRUE).body]
          ELSE e
    BY DEF WithBody
<1>3. ASSUME read # {}
      PROVE  \E j \in DOMAIN L : /\ (CHOOSE d \in read : TRUE) = L[j] /\ L[j].res = e.res
                                 /\ L[j].body \in {"read", "bad"}
    <2>1. (CHOOSE d \in read : TRUE) \in read
        BY <1>3
    <2> QED BY <2>1 DEF ToSet
<1>4. \A j \in DOMAIN L : L[j].res = e.res /\ L[j].body = "read" => read # {}
    BY DEF ToSet
<1> HIDE DEF e, L, read, w
<1>5. CASE e.body = "later" /\ read # {}
    <2>1. PICK j \in DOMAIN L : /\ (CHOOSE d \in read : TRUE) = L[j] /\ L[j].res = e.res
                                /\ L[j].body \in {"read", "bad"}
        BY <1>3, <1>5
    <2>2. w = [e EXCEPT !.body = L[j].body]
        BY <1>2, <1>5, <2>1
    <2>3. w \in Entries /\ w.res = e.res /\ w.body = L[j].body
        BY <1>1, <2>1, <2>2 DEF Entries
    <2>4. \A k \in DOMAIN L : L[k].res = e.res => k = j
        BY <1>1, <2>1 DEF OneOwner
    <2> QED BY <1>5, <2>1, <2>3, <2>4 DEF e, L, w
<1>6. CASE ~ (e.body = "later" /\ read # {})
    <2>1. w = e
        BY <1>2, <1>6
    <2>2. e.body = "read" <=> \E j \in DOMAIN L : L[j].res = e.res /\ L[j].body = "read"
        BY <1>1, <1>4, <1>6
    <2> QED BY <1>1, <2>1, <2>2 DEF e, L, w
<1> QED BY <1>5, <1>6

\* The list that Apply adopts has the layouts of the copy.
LEMMA AdoptedList ==
    ASSUME OwnersInv, temp.list # <<>>
    PROVE  /\ Adopted \in Configs
           /\ Adopted.list # <<>> /\ Adopted.cur \in DOMAIN Adopted.list
           /\ DOMAIN Adopted.list = DOMAIN temp.list
           /\ \A i \in DOMAIN temp.list :
                 SameLayout(Adopted.list[i], WithBody(temp.list[i]))
<1> DEFINE t == temp.list
           list == [i \in DOMAIN t |-> WithBody(t[i])]
           on == IF list = <<>> \/ AnyOn(list) THEN list ELSE [list EXCEPT ![1].on = TRUE]
           keeps == temp.cur \in DOMAIN on /\ on[temp.cur].on
           cur == IF keeps THEN temp.cur ELSE FirstOn(on)
<1>1. Adopted = [list |-> on, cur |-> cur]
    BY DEF Adopted
<1>2. /\ t \in Seq(Entries) /\ t # <<>> /\ temp.cur \in Nat
      /\ \A i \in DOMAIN t : WithBody(t[i]) \in Entries
    BY CarriedOver DEF OwnersInv, SettingsTypes, Configs
<1>3. DOMAIN t = 1 .. Len(t) /\ Len(t) \in Nat \ {0}
    BY <1>2
<1> HIDE DEF t
<1>4. list \in [1 .. Len(t) -> Entries]
    BY <1>2, <1>3
<1>5. \A i \in 1 .. Len(t) : list[i] = WithBody(t[i])
    BY <1>3
<1> HIDE DEF list
<1>6. \A i \in 1 .. Len(t) : [list[i] EXCEPT !.on = TRUE] \in Entries
                             /\ SameLayout([list[i] EXCEPT !.on = TRUE], list[i])
    <2> TAKE i \in 1 .. Len(t)
    <2>1. list[i] \in Entries
        BY <1>4
    <2> QED BY <2>1 DEF Entries, SameLayout
<1>7. on \in [1 .. Len(t) -> Entries] /\ \A i \in 1 .. Len(t) : SameLayout(on[i], list[i])
    <2>1. CASE list = <<>> \/ AnyOn(list)
        BY <2>1, <1>4 DEF SameLayout
    <2>2. CASE ~ (list = <<>> \/ AnyOn(list))
        <3>1. on = [list EXCEPT ![1] = [list[1] EXCEPT !.on = TRUE]]
            BY <2>2
        <3> HIDE DEF on
        <3>2. 1 \in 1 .. Len(t)
            BY <1>3
        <3>3. \A i \in 1 .. Len(t) : on[i] = IF i = 1 THEN [list[1] EXCEPT !.on = TRUE] ELSE list[i]
            BY <3>1, <1>4
        <3>4. on = [i \in 1 .. Len(t) |-> on[i]]
            BY <3>1, <1>4
        <3>5. \A i \in 1 .. Len(t) : on[i] \in Entries /\ SameLayout(on[i], list[i])
            <4> TAKE i \in 1 .. Len(t)
            <4>1. CASE i = 1
                BY <4>1, <3>2, <3>3, <1>6
            <4>2. CASE i # 1
                BY <4>2, <3>3, <1>4 DEF SameLayout
            <4> QED BY <4>1, <4>2
        <3> QED BY <3>4, <3>5
    <2> QED BY <2>1, <2>2
<1> HIDE DEF on
<1>8. on \in Seq(Entries) /\ DOMAIN on = 1 .. Len(t) /\ on # <<>>
    <2>1. on \in Seq(Entries) /\ DOMAIN on = 1 .. Len(t) /\ Len(t) # 0
        BY <1>3, <1>7
    <2>2. 1 \in DOMAIN on
        BY <2>1, <1>3
    <2> QED BY <2>1, <2>2
<1>9. cur \in DOMAIN on /\ cur \in Nat
    <2>1. FirstOn(on) \in DOMAIN on
        BY <1>8, FirstOnIsOne
    <2> QED BY <1>2, <1>8, <2>1
<1> HIDE DEF cur
<1>10. Adopted.list = on /\ Adopted.cur = cur /\ Adopted \in Configs
    BY <1>1, <1>8, <1>9 DEF Configs
<1>11. \A i \in DOMAIN t : SameLayout(on[i], WithBody(t[i]))
    BY <1>3, <1>5, <1>7
<1> QED BY <1>3, <1>8, <1>9, <1>10, <1>11 DEF t

\* Apply frees what was dropped from the list, and the tables of it with it.
LEMMA ApplyOwns == ASSUME OwnersInv, Apply, steps' = steps PROVE OwnersInv'
<1> DEFINE t == temp.list
           L == live.list
           new == Adopted.list
           dropped == Blocks(L) \ Blocks(t)
<1>1. /\ window = "open" /\ live' = Adopted /\ heap' = heap \ dropped /\ bodies' = bodies \ dropped
      /\ window' = "save"
      /\ UNCHANGED <<temp, saved, pending, staged, store, baked, ini>>
    BY DEF Apply, disk
<1>2. /\ t # <<>> /\ OneOwner(t) /\ heap = Blocks(L) \union Blocks(t) /\ bodies = ReadBlocks(L)
    BY <1>1 DEF OwnersInv
<1>3. /\ Adopted \in Configs /\ new # <<>> /\ Adopted.cur \in DOMAIN new /\ DOMAIN new = DOMAIN t
      /\ \A i \in DOMAIN t : SameLayout(new[i], WithBody(t[i]))
    BY <1>2, AdoptedList
<1>4. \A i \in DOMAIN t :
          /\ new[i].res = t[i].res
          /\ t[i].body \in {new[i].body, "later"}
          /\ new[i].body = "read" <=> \E j \in DOMAIN L : L[j].res = t[i].res /\ L[j].body = "read"
    BY <1>3, CarriedOver DEF SameLayout
<1>5. live'.list = new /\ live'.cur = Adopted.cur /\ live' \in Configs
    BY <1>1, <1>3
<1> HIDE DEF new, t, L
<1>6. Blocks(new) = Blocks(t)
    BY <1>3, <1>4 DEF Blocks
<1>7. OneOwner(new)
    BY <1>2, <1>3, <1>4 DEF OneOwner
<1>8. Older(t, new)
    <2>1. \A i \in DOMAIN t, j \in DOMAIN new : t[i].res = new[j].res => i = j
        BY <1>2, <1>3, <1>4 DEF OneOwner
    <2>2. \A i \in DOMAIN t : t[i].res \in Blocks(new)
        BY <1>6 DEF Blocks
    <2> QED BY <2>1, <2>2, <1>3, <1>4 DEF Older
<1>9. ReadBlocks(L) \ dropped = ReadBlocks(new)
    <2>1. \A r \in ReadBlocks(L) \ dropped : r \in ReadBlocks(new)
        <3> TAKE r \in ReadBlocks(L) \ dropped
        <3>1. PICK j \in DOMAIN L : L[j].res = r /\ L[j].body = "read"
            BY DEF ReadBlocks
        <3>2. PICK i \in DOMAIN t : t[i].res = r
            BY <3>1 DEF Blocks
        <3>3. new[i].res = r /\ new[i].body = "read" /\ i \in DOMAIN new
            BY <3>1, <3>2, <1>3, <1>4
        <3> QED BY <3>3 DEF ReadBlocks
    <2>2. \A r \in ReadBlocks(new) : r \in ReadBlocks(L) \ dropped
        <3> TAKE r \in ReadBlocks(new)
        <3>1. PICK i \in DOMAIN new : new[i].res = r /\ new[i].body = "read"
            BY DEF ReadBlocks
        <3>2. PICK j \in DOMAIN L : L[j].res = r /\ L[j].body = "read"
            BY <3>1, <1>3, <1>4
        <3>3. r \in Blocks(t) /\ r \in ReadBlocks(L)
            BY <3>1, <3>2, <1>3, <1>4 DEF Blocks, ReadBlocks
        <3> QED BY <3>3
    <2> QED BY <2>1, <2>2
<1>10. heap' = Blocks(new) \union Blocks(t)
    BY <1>1, <1>2, <1>6
<1>11. SettingsTypes'
    BY <1>1, <1>5 DEF OwnersInv, SettingsTypes
<1> QED BY <1>1, <1>2, <1>3, <1>5, <1>7, <1>8, <1>9, <1>10, <1>11 DEF OwnersInv, t, L

LEMMA OwnersKeep == SettingsAssumption /\ OwnersInv /\ [SettingsNext]_settingsVars => OwnersInv'
<1> SUFFICES ASSUME SettingsAssumption, OwnersInv, [SettingsNext]_settingsVars PROVE OwnersInv'
    OBVIOUS
<1>1. CASE (Restart \/ Show \/ Edit) /\ steps < MaxSteps /\ steps' = steps + 1
    <2>1. steps' \in Nat
        BY <1>1 DEF OwnersInv, SettingsTypes
    <2>2. CASE Restart
        BY <2>1, <2>2, RestartOwns
    <2>3. CASE Show
        BY <2>1, <2>3, ShowOwns
    <2>4. CASE Edit
        BY <2>1, <2>4, ToggleOwns, MoveUpOwns, DeleteOwns, AddOwns, ImportOwns, ResetOwns, RevertOwns
           DEF Edit
    <2> QED BY <1>1, <2>2, <2>3, <2>4
<1>2. CASE /\ \/ Rotate \/ UseCurrent
              \/ Close \/ Apply \/ Save \/ CopyAdded \/ CommitStaged \/ BakeAndClose
           /\ UNCHANGED steps
    BY <1>2, RotateOwns, UseCurrentOwns, CloseOwns, ApplyOwns, SaveOwns, CopyAddedOwns,
       CommitStagedOwns, BakeOwns
<1>3. CASE UNCHANGED settingsVars
    BY <1>3 DEF settingsVars, OwnersInv, SettingsTypes, RevertIsSafe
<1> QED BY <1>1, <1>2, <1>3 DEF SettingsNext

\* The blocks of the layouts have one owner, whatever layouts there are, however the window is
\* used and whenever the process ends (the ownership rule above Layout_FreeResources in
\* config.c): no list names a freed block, no block is left over, and the tables that were
\* read on first use are those the list of the text service reaches.
THEOREM EveryBlockHasItsOwner ==
    ASSUME SettingsAssumption PROVE SettingsSpec => []BlocksAccountedFor
<1>1. SettingsInit => OwnersInv
    BY OwnersStart
<1>2. OwnersInv /\ [SettingsNext]_settingsVars => OwnersInv'
    BY OwnersKeep
<1>3. OwnersInv => BlocksAccountedFor
    BY OwnersAccounted
<1> QED BY <1>1, <1>2, <1>3, PTL DEF SettingsSpec

\* Only Apply installs a layout file: the store changes while Apply copies and at no other
\* time, and a window that closes leaves nothing behind that it staged (settings_ui.c, the
\* pending copies of Add and Import).
THEOREM OnlyApplyCopies ==
    ASSUME SettingsAssumption PROVE SettingsSpec => [][OnlyApplyInstalls]_settingsVars
<1>1. SettingsInit => OwnersInv
    BY OwnersStart
<1>2. OwnersInv /\ [SettingsNext]_settingsVars => OwnersInv'
    BY OwnersKeep
<1>3. OwnersInv /\ [SettingsNext]_settingsVars => [OnlyApplyInstalls]_settingsVars
    <2> SUFFICES ASSUME OwnersInv, SettingsNext PROVE OnlyApplyInstalls
        OBVIOUS
    <2>1. store' # store => window = "files"
        BY DEF SettingsNext, Restart, Show, Edit, Toggle, MoveUp, Delete, Add, Import, Reset, Revert,
               Rotate, UseCurrent, Close, Apply, Save, CopyAdded, CommitStaged, BakeAndClose,
               OnlyTemp, disk
    <2>2. ASSUME window # "closed", window' = "closed", steps' = steps
          PROVE  staging' \cap staged = {}
        <3>1. steps' # steps + 1
            BY <2>2 DEF OwnersInv, SettingsTypes
        <3>2. CASE Close
            BY <3>2 DEF Close, DiscardPending
        <3>3. CASE BakeAndClose
            BY <3>3 DEF BakeAndClose, OwnersInv
        <3>4. CASE Rotate \/ UseCurrent \/ Apply \/ Save \/ CopyAdded \/ CommitStaged
            BY <2>2, <3>4 DEF Rotate, UseCurrent, Apply, Save, CopyAdded, CommitStaged
        <3> QED BY <3>1, <3>2, <3>3, <3>4 DEF SettingsNext
    <2> QED BY <2>1, <2>2 DEF OnlyApplyInstalls
<1> QED BY <1>1, <1>2, <1>3, PTL DEF SettingsSpec

-----------------------------------------------------------------------------
(* What a start brings back.                                                *)

\* The first lines of their names, but for those that are gone.
FirstLines(lines, gone) ==
    {i \in DOMAIN lines : /\ lines[i].name \notin gone
                          /\ \A j \in 1 .. i - 1 : lines[j].name # lines[i].name}

NamesOnce(list) == \A i, j \in DOMAIN list : list[i].name = list[j].name => i = j

\* In a list that has no name twice every line is the first of its name.
LEMMA AllAreSeen ==
    ASSUME NEW S, NEW lines \in Seq(S), NamesOnce(lines)
    PROVE  Seen(lines, {}) = lines
<1> DEFINE n == Len(lines)
           P == 1 .. n
<1>1. n \in Nat /\ DOMAIN lines = P
    OBVIOUS
<1>2. FirstLines(lines, {}) = P
    BY <1>1 DEF FirstLines, NamesOnce
<1>3. P \in SUBSET Nat /\ IsFiniteSet(P) /\ Cardinality(P) = n
    <2>1. 1 \in Int /\ n \in Int
        BY <1>1
    <2>2. IsFiniteSet(P) /\ Cardinality(P) = n
        BY <2>1, <1>1, FS_Interval
    <2> QED BY <2>2
<1>4. \A k \in P : Rank(P, k) = k
    <2> TAKE k \in P
    <2>1. {j \in P : j <= k} = 1 .. k
        BY <1>1
    <2>2. 1 \in Int /\ k \in Int /\ k >= 1
        BY <1>1
    <2>3. Cardinality(1 .. k) = k
        BY <2>2, FS_Interval
    <2> QED BY <2>1, <2>3 DEF Rank
<1> HIDE DEF P
<1>5. \A k \in P : Nth(P, k) = k
    BY <1>3, <1>4, Ranks
<1>6. Seen(lines, {}) = [k \in 1 .. Cardinality(P) |-> lines[Nth(P, k)]]
    BY <1>2 DEF Seen, FirstLines
<1>7. Seen(lines, {}) = [k \in P |-> lines[k]]
    BY <1>3, <1>5, <1>6 DEF P
<1> QED BY <1>1, <1>7

\* A line takes a layout of a fresh list if that has one of its name and no line before it
\* took it.
LEMMA FirstLinesTake ==
    ASSUME NEW list \in Seq(Entries), NamesOnce(list), NEW lines \in Seq(Switches), NEW gone,
           \A i \in DOMAIN lines :
               lines[i].name \in gone <=> \A j \in DOMAIN list : list[j].name # lines[i].name
    PROVE  Taking(list, lines) = FirstLines(lines, gone)
<1> DEFINE A(i) == Named(list, lines[i].name)
           B(i) == Named(lines, lines[i].name)
           U(i) == {h \in B(i) : h <= i}
<1>1. DOMAIN lines = 1 .. Len(lines) /\ Len(lines) \in Nat
    OBVIOUS
<1> SUFFICES ASSUME NEW i \in DOMAIN lines
             PROVE  Turn(lines, i) <= Cardinality(A(i)) <=> i \in FirstLines(lines, gone)
    BY DEF Taking, FirstLines
<1>2. A(i) \in SUBSET DOMAIN list /\ B(i) \in SUBSET DOMAIN lines /\ i \in B(i)
    BY DEF Named
<1>3. IsFiniteSet(A(i)) /\ IsFiniteSet(B(i)) /\ B(i) \in SUBSET Nat
    BY <1>2, Places
<1>4. Turn(lines, i) = Cardinality(U(i))
    BY DEF Turn, Rank
<1>5. U(i) \in SUBSET B(i) /\ i \in U(i)
    BY <1>2, <1>3
<1>6. IsFiniteSet(U(i))
    <2> HIDE DEF U, B
    <2> QED BY <1>3, <1>5, FS_Subset
<1>7. Cardinality(U(i)) \in Nat /\ Cardinality(U(i)) # 0
    <2> HIDE DEF U
    <2> QED BY <1>5, <1>6, FS_CardinalityType, FS_EmptySet
<1>8. Cardinality(U(i)) = 1 <=> \A j \in 1 .. i - 1 : lines[j].name # lines[i].name
    <2>1. Cardinality(U(i)) = 1 <=> \E x : U(i) = {x}
        <3> HIDE DEF U
        <3> QED BY <1>6, FS_Singleton
    <2>2. (\E x : U(i) = {x}) <=> U(i) = {i}
        BY <1>5
    <2>3. U(i) = {i} <=> \A j \in B(i) : j <= i => j = i
        BY <1>5
    <2>4. (\A j \in B(i) : j <= i => j = i) <=> \A j \in 1 .. i - 1 : lines[j].name # lines[i].name
        BY <1>1 DEF Named
    <2> QED BY <2>1, <2>2, <2>3, <2>4
<1>9. CASE lines[i].name \in gone
    <2>1. A(i) = {}
        BY <1>9 DEF Named
    <2>2. Cardinality(A(i)) = 0
        BY <2>1, FS_EmptySet
    <2> QED BY <1>4, <1>7, <1>9, <2>2 DEF FirstLines
<1>10. CASE lines[i].name \notin gone
    <2>1. PICK j \in DOMAIN list : list[j].name = lines[i].name
        BY <1>10
    <2>2. A(i) = {j}
        BY <2>1 DEF Named, NamesOnce
    <2>3. Cardinality(A(i)) = 1
        BY <2>2, FS_Singleton
    <2>4. Cardinality(U(i)) <= 1 <=> Cardinality(U(i)) = 1
        BY <1>7
    <2> HIDE DEF U
    <2> QED BY <1>4, <1>8, <1>10, <2>3, <2>4 DEF FirstLines
<1> QED BY <1>9, <1>10

\* Reordering doubles no name.
LEMMA ReorderedNamesOnce ==
    ASSUME NEW list, NEW other, Reordered(list, other), NamesOnce(list)
    PROVE  NamesOnce(other)
<1>1. PICK p \in [DOMAIN other -> DOMAIN list] :
          IsInjective(p) /\ \A k \in DOMAIN other : SameLayout(other[k], list[p[k]])
    BY DEF Reordered
<1>2. \A k \in DOMAIN other : p[k] \in DOMAIN list /\ other[k].name = list[p[k]].name
    BY <1>1 DEF SameLayout
<1>3. \A k, l \in DOMAIN other : other[k].name = other[l].name => p[k] = p[l]
    BY <1>2 DEF NamesOnce
<1> QED BY <1>1, <1>3 DEF NamesOnce, IsInjective

\* The names of a fresh list are those there are, each once.
LEMMA DefaultNames ==
    ASSUME SettingsAssumption, NEW files \in [Files -> Names \union {NoFile}], NEW taken
    PROVE  /\ NamesOnce(Defaults(files, taken))
           /\ {Defaults(files, taken)[i].name : i \in DOMAIN Defaults(files, taken)} =
                  ToSet(Available(files))
<1> DEFINE names == Available(files)
           d == Defaults(files, taken)
<1>1. \A i, j \in DOMAIN names : names[i] = names[j] => i = j
    BY AvailableOnce
<1>2. d = [i \in DOMAIN names |->
              [name |-> names[i], res |-> NewBlock(names[i], taken), on |-> names[i] \in DefaultOn,
               body |-> IF names[i] \in ToSet(BuiltIn) THEN "own" ELSE "later"]]
    BY DEF Defaults
<1> HIDE DEF names, d
<1>3. DOMAIN d = DOMAIN names /\ \A i \in DOMAIN names : d[i].name = names[i]
    BY <1>2
<1>4. NamesOnce(d)
    BY <1>1, <1>3 DEF NamesOnce
<1>5. {d[i].name : i \in DOMAIN d} = ToSet(names)
    BY <1>3 DEF ToSet
<1> QED BY <1>4, <1>5 DEF d, names

\* What is there: the built in layouts and what the folder has.
Stored(files) == {files[f] : f \in Files} \ {NoFile}

LEMMA WhatIsThere ==
    ASSUME SettingsAssumption, NEW files \in [Files -> Names \union {NoFile}]
    PROVE  ToSet(Available(files)) = ToSet(BuiltIn) \union Stored(files)
<1> DEFINE found == {files[f] : f \in Files} \ ({NoFile} \union ToSet(BuiltIn))
           more == SetToSeq(found)
<1>1. BuiltIn \in Seq(Names) /\ IsFiniteSet(Addable \union Bundle)
      /\ NoFile \notin Names
    BY DEF SettingsAssumption
<1>2. found \in SUBSET (Addable \union Bundle)
    BY DEF Names
<1>3. ToSet(BuiltIn) \union found = ToSet(BuiltIn) \union Stored(files)
    <2>1. NoFile \notin ToSet(BuiltIn)
        BY <1>1 DEF ToSet
    <2> QED BY <2>1 DEF Stored
<1> HIDE DEF found
<1>4. IsFiniteSet(found)
    BY <1>1, <1>2, FS_Subset
<1>5. more \in [1 .. Cardinality(found) -> found] /\ IsInjective(more) /\ Cardinality(found) \in Nat
    BY <1>4, Sequenced
<1> HIDE DEF more
<1>6. ToSet(more) = found
    <2>1. 1 \in Int /\ Cardinality(found) \in Int
        BY <1>5
    <2>2. IsFiniteSet(1 .. Cardinality(found)) /\ Cardinality(1 .. Cardinality(found)) = Cardinality(found)
        BY <2>1, <1>5, FS_Interval
    <2>3. more \in Injection(1 .. Cardinality(found), found)
        BY <1>5 DEF Injection
    <2>4. more \in Surjection(1 .. Cardinality(found), found)
        BY <2>2, <2>3, <1>4, FS_Injection
    <2>5. \A x \in found : \E k \in 1 .. Cardinality(found) : more[k] = x
        BY <2>4 DEF Surjection
    <2>6. DOMAIN more = 1 .. Cardinality(found)
        BY <1>5
    <2>7. \A x \in found : x \in ToSet(more)
        BY <2>5, <2>6 DEF ToSet
    <2>8. \A x \in ToSet(more) : x \in found
        BY <1>5 DEF ToSet
    <2> QED BY <2>7, <2>8
<1>7. Available(files) = BuiltIn \o more
    BY DEF Available, found, more
<1>8. ToSet(BuiltIn \o more) = ToSet(BuiltIn) \union ToSet(more)
    <2> DEFINE s == BuiltIn \o more
               a == Len(BuiltIn)
               b == Len(more)
    <2>1. more \in Seq(Names \union found) /\ BuiltIn \in Seq(Names \union found)
        BY <1>1, <1>5
    <2>2. a \in Nat /\ b \in Nat /\ DOMAIN BuiltIn = 1 .. a /\ DOMAIN more = 1 .. b
        BY <2>1
    <2> HIDE DEF a, b
    <2>3. /\ s \in Seq(Names \union found) /\ Len(s) = a + b
          /\ \A k \in 1 .. a + b : s[k] = IF k <= a THEN BuiltIn[k] ELSE more[k - a]
        BY <2>1, ConcatProperties DEF a, b
    <2> HIDE DEF s
    <2>4. DOMAIN s = 1 .. a + b
        BY <2>3
    <2>5. \A k \in 1 .. a : s[k] = BuiltIn[k] /\ k \in DOMAIN s
        BY <2>2, <2>3, <2>4
    <2>6. \A k \in 1 .. b : s[a + k] = more[k] /\ a + k \in DOMAIN s
        BY <2>2, <2>3, <2>4
    <2>7. \A k \in 1 .. a + b : k \in 1 .. a \/ (k - a \in 1 .. b /\ k = a + (k - a))
        BY <2>2
    <2>8. \A x \in ToSet(s) : x \in ToSet(BuiltIn) \/ x \in ToSet(more)
        <3> TAKE x \in ToSet(s)
        <3>1. PICK k \in 1 .. a + b : x = s[k]
            BY <2>4 DEF ToSet
        <3>2. CASE k \in 1 .. a
            BY <3>1, <3>2, <2>2, <2>5 DEF ToSet
        <3>3. CASE k - a \in 1 .. b /\ k = a + (k - a)
            <4>1. s[k] = more[k - a]
                BY <3>3, <2>6
            <4> QED BY <3>1, <3>3, <4>1, <2>2 DEF ToSet
        <3> QED BY <3>2, <3>3, <2>7
    <2>9. \A x \in ToSet(BuiltIn) : x \in ToSet(s)
        BY <2>2, <2>5 DEF ToSet
    <2>10. \A x \in ToSet(more) : x \in ToSet(s)
        BY <2>2, <2>6 DEF ToSet
    <2> QED BY <2>8, <2>9, <2>10 DEF s
<1> QED BY <1>3, <1>6, <1>7, <1>8

\* A start that finds the saved lines shows them first, in their order and with their
\* switches, but for the layouts it does not find.
LEMMA StartShowsTheSaved ==
    ASSUME SettingsAssumption, NEW files \in [Files -> Names \union {NoFile}],
           NEW lines \in Seq(Switches), NEW gone,
           \A i \in DOMAIN lines : lines[i].name \in gone <=> lines[i].name \notin ToSet(Available(files))
    PROVE  IsPrefix(Seen(lines, gone), Seen(Lines(Loaded(files, lines)), {}))
<1> DEFINE d == Defaults(files, {})
           m == Merge(d, lines)
           taking == Taking(d, lines)
           a == Cardinality(taking)
           s == Seen(lines, gone)
           t == Lines(m)
<1>1. \A name \in ToSet(Available(files)) : \E n \in 1 .. MaxCopies : <<name, n>> \notin {}
    <2>1. 1 \in 1 .. MaxCopies
        BY DEF SettingsAssumption
    <2> QED BY <2>1
<1>2. d \in Seq(Entries)
    BY <1>1, DefaultsAreNew
<1>3. NamesOnce(d) /\ {d[i].name : i \in DOMAIN d} = ToSet(Available(files))
    BY DefaultNames
<1> HIDE DEF d
<1>4. /\ m \in Seq(Entries) /\ Reordered(d, m)
      /\ \A k \in 1 .. a : /\ k \in DOMAIN m
                           /\ m[k].name = lines[Nth(taking, k)].name
                           /\ m[k].on = lines[Nth(taking, k)].on
    BY <1>2, MergeReorders
<1>5. Loaded(files, lines) = m
    BY DEF Loaded, d
<1> HIDE DEF m
<1>6. NamesOnce(m)
    BY <1>3, <1>4, ReorderedNamesOnce
<1>7. t \in Seq([name : Names, on : BOOLEAN]) /\ DOMAIN t = DOMAIN m /\ NamesOnce(t)
    <2>1. \A i \in DOMAIN m : [name |-> m[i].name, on |-> m[i].on] \in [name : Names, on : BOOLEAN]
        <3> TAKE i \in DOMAIN m
        <3>1. m[i] \in Entries
            BY <1>4
        <3> QED BY <3>1 DEF Entries
    <2>2. DOMAIN m = 1 .. Len(m) /\ Len(m) \in Nat
        BY <1>4
    <2>3. t \in [1 .. Len(m) -> [name : Names, on : BOOLEAN]] /\ \A i \in DOMAIN m : t[i].name = m[i].name
        BY <2>1, <2>2 DEF Lines
    <2> HIDE DEF t
    <2>4. t \in Seq([name : Names, on : BOOLEAN]) /\ DOMAIN t = DOMAIN m
        <3> DEFINE R == [name : Names, on : BOOLEAN]
        <3>1. t \in [1 .. Len(m) -> R]
            BY <2>3
        <3> HIDE DEF R
        <3>2. t \in Seq(R) /\ DOMAIN t = DOMAIN m
            BY <2>2, <3>1
        <3> QED BY <3>2 DEF R
    <2>5. NamesOnce(t)
        BY <2>3, <2>4, <1>6 DEF NamesOnce
    <2> QED BY <2>4, <2>5
<1> HIDE DEF t
<1>8. Seen(t, {}) = t
    BY <1>7, AllAreSeen
<1>9. taking = FirstLines(lines, gone)
    BY <1>2, <1>3, FirstLinesTake
<1>10. taking \in SUBSET Nat /\ IsFiniteSet(taking) /\ taking \in SUBSET DOMAIN lines
    <2>1. taking \in SUBSET DOMAIN lines
        BY DEF Taking
    <2> QED BY <2>1, Places
<1> HIDE DEF taking
<1>11. s = [k \in 1 .. a |-> lines[Nth(taking, k)]]
    BY <1>9 DEF Seen, FirstLines
<1> HIDE DEF s
<1>12. a \in Nat /\ \A k \in 1 .. a : Nth(taking, k) \in DOMAIN lines
    BY <1>10, Ranks
<1>13. \A k \in 1 .. a : s[k] = t[k] /\ k \in DOMAIN t
    <2> TAKE k \in 1 .. a
    <2>1. s[k] = lines[Nth(taking, k)] /\ s[k] \in Switches
        BY <1>11, <1>12
    <2>2. s[k] = [name |-> s[k].name, on |-> s[k].on]
        BY <2>1 DEF Switches
    <2>3. k \in DOMAIN m /\ m[k].name = s[k].name /\ m[k].on = s[k].on
        BY <2>1, <1>4
    <2>4. t[k] = [name |-> m[k].name, on |-> m[k].on]
        BY <2>3 DEF t, Lines
    <2> QED BY <2>2, <2>3, <2>4, <1>7
<1>14. s \in Seq(Switches) /\ Len(s) = a
    <2>1. s \in [1 .. a -> Switches]
        BY <1>11, <1>12
    <2> QED BY <2>1, <1>12
<1>15. a <= Len(t)
    <2>1. Len(t) \in Nat /\ DOMAIN t = 1 .. Len(t)
        BY <1>7
    <2>2. a = 0 \/ a \in 1 .. a
        BY <1>12
    <2> QED BY <2>1, <2>2, <1>12, <1>13
<1>16. SubSeq(s, 1, a) = SubSeq(t, 1, a)
    <2>1. SubSeq(s, 1, a) = [k \in 1 .. a |-> s[k]]
        BY <1>12, <1>14
    <2>2. SubSeq(t, 1, a) = [k \in 1 .. a |-> t[k]]
        BY <1>12, <1>15, <1>7
    <2> QED BY <2>1, <2>2, <1>13
<1>17. IsPrefix(s, t)
    BY <1>14, <1>15, <1>16 DEF IsPrefix
<1> QED BY <1>5, <1>8, <1>17 DEF s, t

\* Names a start finds once the store is built, or that the user was warned about.
Known == ToSet(BuiltIn) \union Stored(store) \union warned

Waiting(e) == \E k \in DOMAIN pending : pending[k].res = e.res /\ pending[k].name = e.name

AreKnown(list) == \A i \in DOMAIN list : list[i].name \in Known

\* Every layout of a list is known or its copy is still to be made.
Accounted(list) == \A i \in DOMAIN list : list[i].name \in Known \/ Waiting(list[i])

\* What is built is what is stored, and a file is in the place of its name.
DiskFits ==
    /\ \A f \in Files : store[f] # NoFile => store[f] \in Addable \union Bundle /\ FileOf[store[f]] = f
    /\ \A f \in Files : baked[f] # NoFile => baked[f] = store[f]
    /\ \A k \in DOMAIN pending : pending[k].name \in Addable
    /\ window \in {"closed", "open", "save", "files", "bake"}

\* How far what was applied has come.
AppliedFits ==
    /\ window \in {"closed", "open"} =>
          /\ ini = applied
          /\ \A i \in DOMAIN applied :
                applied[i].name \in ToSet(BuiltIn) \union Stored(baked) \union warned
    /\ window = "save" => applied = Lines(live.list)
    /\ window \in {"files", "bake"} => ini = applied /\ applied = Lines(live.list)

KeepInv ==
    /\ DiskFits
    /\ window \notin {"save", "files"} => AreKnown(live.list)
    /\ window \in {"save", "files"} => Accounted(live.list)
    /\ window = "open" => Accounted(temp.list) /\ AreKnown(saved.list)
    /\ applied # <<>> => AppliedFits

\* The names of a start are of layouts that are there.
LEMMA LoadedNames ==
    ASSUME SettingsAssumption, NEW files \in [Files -> Names \union {NoFile}],
           NEW lines \in Seq(Switches)
    PROVE  \A i \in DOMAIN Loaded(files, lines) :
               Loaded(files, lines)[i].name \in ToSet(BuiltIn) \union Stored(files)
<1> DEFINE d == Defaults(files, {})
           m == Merge(d, lines)
<1>1. \A name \in ToSet(Available(files)) : \E n \in 1 .. MaxCopies : <<name, n>> \notin {}
    <2>1. 1 \in 1 .. MaxCopies
        BY DEF SettingsAssumption
    <2> QED BY <2>1
<1>2. d \in Seq(Entries)
    BY <1>1, DefaultsAreNew
<1>3. {d[i].name : i \in DOMAIN d} = ToSet(BuiltIn) \union Stored(files)
    BY DefaultNames, WhatIsThere
<1> HIDE DEF d
<1>4. m \in Seq(Entries) /\ Reordered(d, m)
    BY <1>2, MergeReorders
<1>5. \A k \in DOMAIN m : \E i \in DOMAIN d : SameLayout(m[k], d[i])
    BY <1>2, <1>4, ReorderedKeeps
<1>6. Loaded(files, lines) = m
    BY DEF Loaded, d
<1> HIDE DEF m
<1>7. \A k \in DOMAIN m : m[k].name \in {d[i].name : i \in DOMAIN d}
    BY <1>5 DEF SameLayout
<1> QED BY <1>3, <1>6, <1>7

LEMMA KeepStarts == ASSUME SettingsAssumption, SettingsInit PROVE KeepInv
<1> DEFINE none == [f \in Files |-> NoFile]
           list == Loaded(none, <<>>)
<1>1. none \in [Files -> Names \union {NoFile}] /\ <<>> \in Seq(Switches)
      /\ \A f \in Files : none[f] = NoFile
    OBVIOUS
<1> HIDE DEF none
<1>2. \A i \in DOMAIN list : list[i].name \in ToSet(BuiltIn) \union Stored(none)
    BY <1>1, LoadedNames
<1>3. /\ live = [list |-> list, cur |-> FirstOn(list)] /\ window = "closed" /\ pending = <<>>
      /\ store = none /\ baked = none /\ applied = <<>>
    BY DEF SettingsInit, none
<1> HIDE DEF list
<1>4. live.list = list /\ DOMAIN pending = {}
    BY <1>3
<1> QED BY <1>1, <1>2, <1>3, <1>4 DEF KeepInv, DiskFits, AreKnown, Known

\* What is built is stored.
LEMMA BuiltIsStored == ASSUME DiskFits PROVE Stored(baked) \subseteq Stored(store)
BY DEF DiskFits, Stored

LEMMA RestartKeeps ==
    ASSUME SettingsAssumption, OwnersInv, KeepInv, Restart PROVE KeepInv'
<1> DEFINE list == Loaded(baked, ini)
<1>1. baked \in [Files -> Names \union {NoFile}] /\ ini \in Seq(Switches)
    BY DEF OwnersInv, SettingsTypes
<1>2. \A i \in DOMAIN list : list[i].name \in ToSet(BuiltIn) \union Stored(baked)
    BY <1>1, LoadedNames
<1>3. /\ live' = [list |-> list, cur |-> FirstOn(list)] /\ window' = "closed" /\ pending' = <<>>
      /\ applied' = IF window \in {"closed", "open"} THEN applied ELSE <<>>
      /\ UNCHANGED <<store, baked, ini, warned>>
    BY DEF Restart, StartService, disk
<1> HIDE DEF list
<1>4. live'.list = list /\ DOMAIN pending' = {}
    BY <1>3
<1>5. AreKnown(live.list)'
    BY <1>2, <1>3, <1>4, BuiltIsStored DEF AreKnown, Known, KeepInv
<1>6. DiskFits'
    BY <1>3, <1>4 DEF KeepInv, DiskFits
<1>7. ASSUME applied' # <<>> PROVE AppliedFits'
    BY <1>3, <1>7 DEF KeepInv, AppliedFits
<1> QED BY <1>3, <1>5, <1>6, <1>7 DEF KeepInv

\* The service at its own list, while the window stays as it is.
LEMMA ServiceKeeps ==
    ASSUME KeepInv, DOMAIN live'.list = DOMAIN live.list,
           \A i \in DOMAIN live.list : /\ live'.list[i].name = live.list[i].name
                                       /\ live'.list[i].res = live.list[i].res
                                       /\ live'.list[i].on = live.list[i].on,
           UNCHANGED <<temp, saved, window, pending, store, baked, ini, warned, applied>>
    PROVE  KeepInv'
<1>1. AreKnown(live.list) => AreKnown(live.list)'
    BY DEF AreKnown, Known
<1>2. Accounted(live.list) => Accounted(live.list)'
    BY DEF Accounted, Known, Waiting
<1>3. Accounted(temp.list) => Accounted(temp.list)'
    BY DEF Accounted, Known, Waiting
<1>4. AreKnown(saved.list) => AreKnown(saved.list)'
    BY DEF AreKnown, Known
<1>5. DiskFits'
    BY DEF KeepInv, DiskFits
<1>6. Lines(live'.list) = Lines(live.list)
    BY DEF Lines
<1>7. AppliedFits => AppliedFits'
    BY <1>6 DEF AppliedFits
<1> QED BY <1>1, <1>2, <1>3, <1>4, <1>5, <1>7 DEF KeepInv

LEMMA RotateKeeps == ASSUME OwnersInv, KeepInv, Rotate PROVE KeepInv'
<1>1. live \in Configs
    BY DEF OwnersInv, SettingsTypes
<1>2. live'.list = live.list
    BY <1>1 DEF Rotate, Configs
<1>3. UNCHANGED <<temp, saved, window, pending, store, baked, ini, warned, applied>>
    BY DEF Rotate, disk
<1> QED BY <1>2, <1>3, ServiceKeeps

LEMMA UseCurrentKeeps == ASSUME OwnersInv, KeepInv, UseCurrent PROVE KeepInv'
<1>1. live \in Configs /\ live.list \in Seq(Entries) /\ live.cur \in DOMAIN live.list
    BY DEF OwnersInv, SettingsTypes, Configs
<1>2. PICK body \in {"read", "bad"} : live' = [live EXCEPT !.list[live.cur].body = body]
    BY DEF UseCurrent
<1> DEFINE new == [live.list EXCEPT ![live.cur].body = body]
<1>3. live'.list = new
    BY <1>1, <1>2 DEF Configs
<1>4. \A i \in DOMAIN live.list :
          /\ new[i] = IF i = live.cur THEN [live.list[i] EXCEPT !.body = body] ELSE live.list[i]
          /\ live.list[i] \in Entries
    BY <1>1
<1>5. DOMAIN new = DOMAIN live.list
    OBVIOUS
<1> HIDE DEF new
<1>6. \A i \in DOMAIN live.list : /\ new[i].name = live.list[i].name
                                 /\ new[i].res = live.list[i].res
                                 /\ new[i].on = live.list[i].on
    <2> TAKE i \in DOMAIN live.list
    <2> DEFINE e == live.list[i]
    <2>1. e \in Entries /\ new[i] = IF i = live.cur THEN [e EXCEPT !.body = body] ELSE e
        BY <1>4
    <2> HIDE DEF e
    <2>2. LET d == [e EXCEPT !.body = body] IN d.name = e.name /\ d.res = e.res /\ d.on = e.on
        BY <2>1 DEF Entries
    <2>3. new[i].name = e.name /\ new[i].res = e.res /\ new[i].on = e.on
        BY <2>1, <2>2
    <2> QED BY <2>3 DEF e
<1>7. UNCHANGED <<temp, saved, window, pending, store, baked, ini, warned, applied>>
    BY DEF UseCurrent, disk
<1> QED BY <1>3, <1>5, <1>6, <1>7, ServiceKeeps

LEMMA ShowKeeps == ASSUME KeepInv, Show PROVE KeepInv'
<1>1. /\ window = "closed" /\ window' = "open" /\ temp' = live /\ saved' = live /\ pending' = <<>>
      /\ UNCHANGED <<live, store, baked, ini, warned, applied>>
    BY DEF Show, disk
<1>2. AreKnown(live.list)
    BY <1>1 DEF KeepInv
<1>3. AreKnown(live.list)' /\ AreKnown(saved.list)' /\ Accounted(temp.list)'
    BY <1>1, <1>2 DEF AreKnown, Accounted, Known
<1>4. DOMAIN pending' = {}
    BY <1>1
<1>5. DiskFits'
    BY <1>1, <1>4 DEF KeepInv, DiskFits
<1>6. applied' # <<>> => AppliedFits'
    BY <1>1 DEF KeepInv, AppliedFits
<1> QED BY <1>1, <1>3, <1>5, <1>6 DEF KeepInv

\* An edit of the copy, after which each of its layouts is still known or waits.
LEMMA EditKeeps ==
    ASSUME KeepInv, window = "open", Accounted(temp.list)',
           \A k \in DOMAIN pending' : pending'[k].name \in Addable,
           UNCHANGED <<live, saved, window, store, baked, ini, warned, applied>>
    PROVE  KeepInv'
<1>1. AreKnown(live.list)' /\ AreKnown(saved.list)'
    BY DEF KeepInv, AreKnown, Known
<1>2. DiskFits'
    BY DEF KeepInv, DiskFits
<1>3. applied' # <<>> => AppliedFits'
    BY DEF KeepInv, AppliedFits
<1> QED BY <1>1, <1>2, <1>3 DEF KeepInv

LEMMA ToggleKeeps ==
    ASSUME OwnersInv, KeepInv, NEW i \in DOMAIN temp.list, Toggle(i) PROVE KeepInv'
<1> DEFINE t == temp.list
           list == [t EXCEPT ![i].on = ~@]
<1>1. temp \in Configs /\ t \in Seq(Entries)
    BY DEF OwnersInv, SettingsTypes, Configs
<1>2. /\ window = "open" /\ temp' = [temp EXCEPT !.list[i].on = ~@]
      /\ UNCHANGED <<live, saved, window, pending, store, baked, ini, warned, applied>>
    BY DEF Toggle, OnlyTemp, disk
<1>3. temp'.list = list
    BY <1>1, <1>2 DEF Configs
<1>4. \A k \in DOMAIN t :
          /\ t[k] \in Entries
          /\ list[k] = IF k = i THEN [t[k] EXCEPT !.on = ~@] ELSE t[k]
    BY <1>1
<1>5. DOMAIN list = DOMAIN t
    OBVIOUS
<1> HIDE DEF list, t
<1>6. \A k \in DOMAIN t : list[k].name = t[k].name /\ list[k].res = t[k].res
    <2> TAKE k \in DOMAIN t
    <2> DEFINE e == t[k]
    <2>1. e \in Entries /\ list[k] = IF k = i THEN [e EXCEPT !.on = ~@] ELSE e
        BY <1>4
    <2> HIDE DEF e
    <2>2. LET d == [e EXCEPT !.on = ~@] IN d.name = e.name /\ d.res = e.res
        BY <2>1 DEF Entries
    <2>3. list[k].name = e.name /\ list[k].res = e.res
        BY <2>1, <2>2
    <2> QED BY <2>3 DEF e
<1>7. Accounted(temp.list)'
    <2>1. Accounted(t)
        BY <1>2 DEF KeepInv, t
    <2>2. \A k \in DOMAIN list :
              list[k].name \in Known \/ \E j \in DOMAIN pending : /\ pending[j].res = list[k].res
                                                                 /\ pending[j].name = list[k].name
        BY <2>1, <1>5, <1>6 DEF Accounted, Waiting
    <2> QED BY <2>2, <1>2, <1>3 DEF Accounted, Known, Waiting
<1>8. \A k \in DOMAIN pending' : pending'[k].name \in Addable
    BY <1>2 DEF KeepInv, DiskFits
<1> QED BY <1>2, <1>7, <1>8, EditKeeps

LEMMA MoveUpKeeps ==
    ASSUME OwnersInv, KeepInv, NEW i \in DOMAIN temp.list, MoveUp(i) PROVE KeepInv'
<1> DEFINE t == temp.list
           list == [t EXCEPT ![i - 1] = t[i], ![i] = t[i - 1]]
<1>1. /\ temp \in Configs /\ t \in Seq(Entries) /\ DOMAIN t = 1 .. Len(t) /\ Len(t) \in Nat
    BY DEF OwnersInv, SettingsTypes, Configs
<1>2. /\ window = "open" /\ i > 1
      /\ temp' = [temp EXCEPT !.list[i - 1] = t[i], !.list[i] = t[i - 1]]
      /\ UNCHANGED <<live, saved, window, pending, store, baked, ini, warned, applied>>
    BY DEF MoveUp, OnlyTemp, disk
<1>3. temp'.list = list
    BY <1>1, <1>2 DEF Configs
<1>4. i - 1 \in DOMAIN t /\ i \in DOMAIN t
    BY <1>1, <1>2
<1>5. DOMAIN list = DOMAIN t /\ \A k \in DOMAIN t : list[k] \in {t[j] : j \in DOMAIN t}
    BY <1>4
<1> HIDE DEF list, t
<1>6. \A k \in DOMAIN list : \E j \in DOMAIN t : list[k] = t[j]
    BY <1>5
<1>7. Accounted(temp.list)'
    <2>1. Accounted(t)
        BY <1>2 DEF KeepInv, t
    <2> QED BY <2>1, <1>2, <1>3, <1>6 DEF Accounted, Known, Waiting
<1>8. \A k \in DOMAIN pending' : pending'[k].name \in Addable
    BY <1>2 DEF KeepInv, DiskFits
<1> QED BY <1>2, <1>7, <1>8, EditKeeps

LEMMA ImportKeeps ==
    ASSUME SettingsAssumption, OwnersInv, KeepInv, Import PROVE KeepInv'
<1> DEFINE list == Merge(temp.list, Imported)
<1>1. temp.list \in Seq(Entries) /\ window = "open"
    BY DEF OwnersInv, SettingsTypes, Configs, Import
<1>2. Imported \in Seq(Switches)
    <2> DEFINE R == [name : {Imported[i].name : i \in DOMAIN Imported}, on : BOOLEAN]
    <2>1. Imported \in Seq(R)
        BY DEF SettingsAssumption
    <2>2. R \subseteq Switches
        BY DEF Switches
    <2> HIDE DEF R
    <2> QED BY <2>1, <2>2
<1>3. list \in Seq(Entries) /\ Reordered(temp.list, list)
    BY <1>1, <1>2, MergeReorders
<1>4. \A k \in DOMAIN list : \E j \in DOMAIN temp.list : SameLayout(list[k], temp.list[j])
    BY <1>1, <1>3, ReorderedKeeps
<1>5. /\ temp'.list = list
      /\ UNCHANGED <<live, saved, window, pending, store, baked, ini, warned, applied>>
    BY DEF Import
<1> HIDE DEF list
<1>6. Accounted(temp.list)'
    <2>1. Accounted(temp.list)
        BY <1>1 DEF KeepInv
    <2> QED BY <2>1, <1>4, <1>5 DEF Accounted, Known, Waiting, SameLayout
<1>7. \A k \in DOMAIN pending' : pending'[k].name \in Addable
    BY <1>5 DEF KeepInv, DiskFits
<1> QED BY <1>1, <1>5, <1>6, <1>7, EditKeeps

\* The copies that wait lose the one of the layout that goes, and no other.
LEMMA ForgottenCopy ==
    ASSUME NEW S, NEW s \in Seq(S), NEW mine \in SUBSET DOMAIN s, mine # {}
    PROVE  LET r == Front([s EXCEPT ![Min(mine)] = Last(s)])
           IN  /\ \A k \in DOMAIN r : \E j \in DOMAIN s : r[k] = s[j]
               /\ \A j \in DOMAIN s \ mine : \E k \in DOMAIN r : r[k] = s[j]
<1> DEFINE n == Len(s)
           g == Min(mine)
           q == [s EXCEPT ![g] = s[n]]
           r == SubSeq(q, 1, n - 1)
<1>1. n \in Nat /\ DOMAIN s = 1 .. n /\ \A k \in 1 .. n : s[k] \in S
    OBVIOUS
<1>2. mine \in SUBSET Nat /\ g \in mine
    <2>1. mine \in SUBSET Nat
        BY <1>1
    <2> QED BY <2>1, MinIsLeast
<1>3. g \in 1 .. n /\ n \in 1 .. n
    BY <1>1, <1>2
<1> HIDE DEF g
<1>4. q \in Seq(S) /\ Len(q) = n /\ \A k \in 1 .. n : q[k] = IF k = g THEN s[n] ELSE s[k]
    <2>1. q \in [1 .. n -> S] /\ \A k \in 1 .. n : q[k] = IF k = g THEN s[n] ELSE s[k]
        BY <1>1, <1>3
    <2> HIDE DEF q
    <2>2. q \in Seq(S) /\ Len(q) = n
        BY <1>1, <2>1
    <2> QED BY <2>1, <2>2
<1>5. Front([s EXCEPT ![Min(mine)] = Last(s)]) = r
    BY <1>4 DEF Front, Last, g
<1> HIDE DEF q
<1>6. r \in Seq(S) /\ Len(r) = n - 1 /\ \A k \in 1 .. n - 1 : r[k] = q[k]
    <2>1. \A k \in 1 .. n - 1 : q[k] \in S
        BY <1>1, <1>4
    <2>2. 1 \in Int /\ n - 1 \in Int
        BY <1>1
    <2>3. /\ r \in Seq(S) /\ Len(r) = IF 1 <= n - 1 THEN (n - 1) - 1 + 1 ELSE 0
          /\ \A k \in 1 .. (n - 1) - 1 + 1 : r[k] = q[1 + k - 1]
        BY <2>1, <2>2, SubSeqProperties
    <2> HIDE DEF r
    <2>4. \A k \in 1 .. n - 1 : k \in 1 .. (n - 1) - 1 + 1 /\ 1 + k - 1 = k
        BY <1>1
    <2>5. Len(r) = n - 1
        <3>1. n >= 1
            BY <1>1, <1>3
        <3> HIDE DEF n
        <3> QED BY <2>3, <3>1, <1>1
    <2> QED BY <2>3, <2>4, <2>5
<1> HIDE DEF r
<1>7. DOMAIN r = 1 .. n - 1
    BY <1>6
<1>8. \A k \in DOMAIN r : \E j \in DOMAIN s : r[k] = s[j]
    BY <1>1, <1>3, <1>4, <1>6, <1>7
<1>9. \A j \in DOMAIN s \ mine : \E k \in DOMAIN r : r[k] = s[j]
    <2> TAKE j \in DOMAIN s \ mine
    <2>1. j # g /\ j \in 1 .. n
        BY <1>1, <1>2
    <2>2. CASE j = n
        <3>1. g \in 1 .. n - 1
            <4> HIDE DEF n
            <4> QED BY <1>1, <1>3, <2>1, <2>2
        <3> QED BY <3>1, <1>3, <1>4, <1>6, <1>7, <2>2
    <2>3. CASE j # n
        <3>1. j \in 1 .. n - 1
            BY <1>1, <2>1, <2>3
        <3> QED BY <3>1, <2>1, <1>4, <1>6, <1>7
    <2> QED BY <2>2, <2>3
<1> QED BY <1>5, <1>8, <1>9

LEMMA DeleteKeeps ==
    ASSUME OwnersInv, KeepInv, NEW i \in DOMAIN temp.list, Delete(i) PROVE KeepInv'
<1> DEFINE t == temp.list
           gone == t[i]
           list == RemoveAt(t, i)
           mine == {k \in DOMAIN pending : pending[k].res = gone.res}
           Pend == [name : Names, res : Names \X Nat]
<1>1. /\ temp \in Configs /\ t \in Seq(Entries) /\ OneOwner(t) /\ pending \in Seq(Pend)
    BY DEF OwnersInv, SettingsTypes, Configs
<1>2. /\ window = "open"
      /\ temp' = [temp EXCEPT !.list = RemoveAt(@, i)]
      /\ pending' = IF mine = {} THEN pending
                    ELSE Front([pending EXCEPT ![Min(mine)] = Last(pending)])
      /\ UNCHANGED <<live, saved, window, store, baked, ini, warned, applied>>
    BY DEF Delete, disk
<1>3. temp'.list = list
    BY <1>1, <1>2 DEF Configs
<1>4. \A k \in DOMAIN list : Over(i, k) \in DOMAIN t \ {i} /\ list[k] = t[Over(i, k)]
    <2>1. i \in DOMAIN t
        OBVIOUS
    <2> HIDE DEF t
    <2> QED BY <1>1, <2>1, WithoutOne
<1> HIDE DEF list
<1>5. \A k \in DOMAIN list : \E j \in DOMAIN t : list[k] = t[j] /\ t[j].res # gone.res
    BY <1>1, <1>4 DEF OneOwner
<1>6. mine \in SUBSET DOMAIN pending
    OBVIOUS
<1>7. /\ \A k \in DOMAIN pending' : \E j \in DOMAIN pending : pending'[k] = pending[j]
      /\ \A j \in DOMAIN pending \ mine : \E k \in DOMAIN pending' : pending'[k] = pending[j]
    <2> HIDE DEF mine, Pend
    <2>1. CASE mine = {}
        BY <1>2, <2>1
    <2>2. CASE mine # {}
        BY <1>1, <1>2, <1>6, <2>2, ForgottenCopy
    <2> QED BY <2>1, <2>2
<1>8. \A k \in DOMAIN pending' : pending'[k].name \in Addable
    BY <1>7 DEF KeepInv, DiskFits
<1>9. \A j \in DOMAIN t : t[j].res # gone.res /\ Waiting(t[j]) =>
          \E k \in DOMAIN pending' : pending'[k].res = t[j].res /\ pending'[k].name = t[j].name
    <2> SUFFICES ASSUME NEW j \in DOMAIN t, t[j].res # gone.res, Waiting(t[j])
                 PROVE  \E k \in DOMAIN pending' :
                            pending'[k].res = t[j].res /\ pending'[k].name = t[j].name
        OBVIOUS
    <2>1. PICK l \in DOMAIN pending : pending[l].res = t[j].res /\ pending[l].name = t[j].name
        BY DEF Waiting
    <2>2. l \notin mine
        BY <2>1
    <2>3. PICK k \in DOMAIN pending' : pending'[k] = pending[l]
        BY <2>2, <1>7
    <2> QED BY <2>1, <2>3
<1>10. Accounted(temp.list)'
    <2>1. Accounted(t)
        BY <1>2 DEF KeepInv
    <2> HIDE DEF t
    <2>2. \A k \in DOMAIN list :
              list[k].name \in Known \/ \E j \in DOMAIN pending' : /\ pending'[j].res = list[k].res
                                                                  /\ pending'[j].name = list[k].name
        <3> TAKE k \in DOMAIN list
        <3>1. PICK j \in DOMAIN t : list[k] = t[j] /\ t[j].res # gone.res
            BY <1>5
        <3> QED BY <3>1, <2>1, <1>9 DEF Accounted
    <2>3. temp'.list = list /\ UNCHANGED <<store, warned>>
        BY <1>2, <1>3
    <2> HIDE DEF mine, gone
    <2> QED BY <2>2, <2>3 DEF Accounted, Known, Waiting
<1> QED BY <1>2, <1>8, <1>10, EditKeeps

LEMMA AddKeeps ==
    ASSUME OwnersInv, KeepInv, NEW name \in Addable, Add(name) PROVE KeepInv'
<1> DEFINE t == temp.list
           e == [name |-> name, res |-> Fresh(name), on |-> TRUE, body |-> "own"]
           d == [name |-> name, res |-> Fresh(name)]
           n == Len(t)
           p == Len(pending)
<1>1. /\ temp \in Configs /\ t \in Seq(Entries) /\ pending \in Seq([name : Names, res : Names \X Nat])
    BY DEF OwnersInv, SettingsTypes, Configs
<1>2. /\ window = "open"
      /\ temp' = [temp EXCEPT !.list = Append(@, e)] /\ pending' = Append(pending, d)
      /\ UNCHANGED <<live, saved, window, store, baked, ini, warned, applied>>
    BY DEF Add, disk
<1>3. temp'.list = Append(t, e)
    BY <1>1, <1>2 DEF Configs
<1>4. e.name = d.name /\ e.res = d.res /\ d.name = name
    OBVIOUS
<1>5. /\ DOMAIN pending = 1 .. p /\ p \in Nat /\ DOMAIN pending' = 1 .. p + 1
      /\ \A k \in 1 .. p : pending'[k] = pending[k]
      /\ pending'[p + 1] = d
    <2> HIDE DEF d
    <2> QED BY <1>1, <1>2
<1>6. /\ DOMAIN t = 1 .. n /\ n \in Nat /\ DOMAIN Append(t, e) = 1 .. n + 1
      /\ \A k \in 1 .. n : Append(t, e)[k] = t[k]
      /\ Append(t, e)[n + 1] = e
    <2> HIDE DEF e, t
    <2> QED BY <1>1
<1> HIDE DEF e, d, t, n, p
<1>7. \A k \in 1 .. p + 1 : k \in 1 .. p \/ k = p + 1
    BY <1>5
<1>8. \A k \in 1 .. n + 1 : k \in 1 .. n \/ k = n + 1
    BY <1>6
<1>9. \A k \in DOMAIN pending' : pending'[k].name \in Addable
    BY <1>4, <1>5, <1>7 DEF KeepInv, DiskFits
<1>10. Accounted(temp.list)'
    <2>1. Accounted(t)
        BY <1>2 DEF KeepInv, t
    <2>2. \A k \in DOMAIN Append(t, e) :
              \/ Append(t, e)[k].name \in Known
              \/ \E j \in DOMAIN pending' : /\ pending'[j].res = Append(t, e)[k].res
                                          /\ pending'[j].name = Append(t, e)[k].name
        <3> TAKE k \in DOMAIN Append(t, e)
        <3>1. CASE k \in 1 .. n
            <4>1. Append(t, e)[k] = t[k] /\ (t[k].name \in Known \/ Waiting(t[k]))
                BY <2>1, <3>1, <1>6 DEF Accounted
            <4>2. \A j \in DOMAIN pending : j \in DOMAIN pending' /\ pending'[j] = pending[j]
                BY <1>5
            <4> QED BY <4>1, <4>2 DEF Waiting
        <3>2. CASE k = n + 1
            <4>1. p + 1 \in DOMAIN pending'
                BY <1>5
            <4> QED BY <4>1, <3>2, <1>4, <1>5, <1>6
        <3> QED BY <3>1, <3>2, <1>6, <1>8
    <2> QED BY <2>2, <1>2, <1>3 DEF Accounted, Known, Waiting
<1> QED BY <1>2, <1>9, <1>10, EditKeeps

LEMMA ResetKeeps == ASSUME SettingsAssumption, OwnersInv, KeepInv, Reset PROVE KeepInv'
<1> DEFINE list == Defaults(baked, Referenced)
<1>1. /\ window = "open" /\ pending' = <<>> /\ temp' = [list |-> list, cur |-> 1]
      /\ UNCHANGED <<live, saved, window, store, baked, ini, warned, applied>>
    BY DEF Reset, DiscardPending
<1>2. baked \in [Files -> Names \union {NoFile}]
    BY DEF OwnersInv, SettingsTypes
<1>3. {list[i].name : i \in DOMAIN list} = ToSet(BuiltIn) \union Stored(baked)
    BY <1>2, DefaultNames, WhatIsThere
<1> HIDE DEF list
<1>4. \A i \in DOMAIN list : list[i].name \in Known
    BY <1>3, BuiltIsStored DEF Known, KeepInv
<1>5. temp'.list = list /\ DOMAIN pending' = {}
    BY <1>1
<1>6. Accounted(temp.list)'
    BY <1>1, <1>4, <1>5 DEF Accounted, Known
<1> QED BY <1>1, <1>5, <1>6, EditKeeps

LEMMA RevertKeeps == ASSUME KeepInv, Revert PROVE KeepInv'
<1>1. /\ window = "open" /\ pending' = <<>> /\ temp' = saved
      /\ UNCHANGED <<live, saved, window, store, baked, ini, warned, applied>>
    BY DEF Revert, DiscardPending
<1>2. DOMAIN pending' = {}
    BY <1>1
<1>3. Accounted(temp.list)'
    BY <1>1 DEF KeepInv, AreKnown, Accounted, Known
<1> QED BY <1>1, <1>2, <1>3, EditKeeps

LEMMA CloseKeeps == ASSUME KeepInv, Close PROVE KeepInv'
<1>1. /\ window = "open" /\ window' = "closed" /\ pending' = <<>>
      /\ UNCHANGED <<live, store, baked, ini, warned, applied>>
    BY DEF Close, DiscardPending
<1>2. DOMAIN pending' = {}
    BY <1>1
<1>3. AreKnown(live.list)'
    BY <1>1 DEF KeepInv, AreKnown, Known
<1>4. DiskFits'
    BY <1>1, <1>2 DEF KeepInv, DiskFits
<1>5. applied' # <<>> => AppliedFits'
    BY <1>1 DEF KeepInv, AppliedFits
<1> QED BY <1>1, <1>3, <1>4, <1>5 DEF KeepInv

\* What Apply puts into force are the layouts of the copy.
LEMMA ApplyKeeps == ASSUME OwnersInv, KeepInv, Apply PROVE KeepInv'
<1> DEFINE t == temp.list
           new == Adopted.list
<1>1. /\ window = "open" /\ window' = "save" /\ live' = Adopted /\ applied' = Lines(live'.list)
      /\ UNCHANGED <<temp, saved, pending, store, baked, ini, warned>>
    BY DEF Apply, disk
<1>2. t # <<>> /\ t \in Seq(Entries)
    BY <1>1 DEF OwnersInv, SettingsTypes, Configs
<1>3. DOMAIN new = DOMAIN t /\ \A i \in DOMAIN t : SameLayout(new[i], WithBody(t[i]))
    BY <1>2, AdoptedList
<1>4. \A i \in DOMAIN t : WithBody(t[i]).res = t[i].res /\ WithBody(t[i]).name = t[i].name
    <2> TAKE i \in DOMAIN t
    <2>1. t[i] \in Entries
        BY <1>2
    <2> HIDE DEF t
    <2> QED BY <2>1 DEF WithBody, Entries
<1> HIDE DEF t, new
<1>5. \A i \in DOMAIN new : i \in DOMAIN t /\ new[i].name = t[i].name /\ new[i].res = t[i].res
    BY <1>3, <1>4 DEF SameLayout
<1>6. live'.list = new
    BY <1>1 DEF new
<1>7. Accounted(live.list)'
    <2>1. Accounted(t)
        BY <1>1 DEF KeepInv, t
    <2>2. \A k \in DOMAIN new :
              new[k].name \in Known \/ \E j \in DOMAIN pending : /\ pending[j].res = new[k].res
                                                                /\ pending[j].name = new[k].name
        BY <2>1, <1>5 DEF Accounted, Waiting
    <2> QED BY <2>2, <1>1, <1>6 DEF Accounted, Known, Waiting
<1>8. DiskFits'
    BY <1>1 DEF KeepInv, DiskFits
<1>9. AppliedFits'
    BY <1>1 DEF AppliedFits
<1> QED BY <1>1, <1>7, <1>8, <1>9 DEF KeepInv

LEMMA SaveKeeps == ASSUME KeepInv, Save PROVE KeepInv'
<1>1. /\ window = "save" /\ window' = "files"
      /\ \/ ini' = Lines(live.list) /\ applied' = applied
         \/ ini' = ini /\ applied' = <<>>
      /\ UNCHANGED <<live, temp, pending, store, baked, warned>>
    BY DEF Save
<1>2. Accounted(live.list)'
    BY <1>1 DEF KeepInv, Accounted, Known, Waiting
<1>3. DiskFits'
    BY <1>1 DEF KeepInv, DiskFits
<1>4. applied' # <<>> => AppliedFits'
    BY <1>1 DEF KeepInv, AppliedFits
<1> QED BY <1>1, <1>2, <1>3, <1>4 DEF KeepInv

\* A copy that is made or fails leaves its layout known.
LEMMA CopyAddedKeeps ==
    ASSUME SettingsAssumption, FilesDiffer, OwnersInv, KeepInv, CopyAdded PROVE KeepInv'
<1> DEFINE Pend == [name : Names, res : Names \X Nat]
           n == Head(pending).name
           f == FileOf[n]
<1>1. /\ window = "files" /\ pending # <<>> /\ pending' = Tail(pending)
      /\ \/ store' = [store EXCEPT ![f] = n] /\ warned' = warned \ {n}
         \/ store' = store /\ warned' = warned \union ({n} \ {store[f]})
      /\ UNCHANGED <<live, temp, saved, window, baked, ini, applied>>
    BY DEF CopyAdded
<1>2. pending \in Seq(Pend) /\ store \in [Files -> Names \union {NoFile}]
    BY DEF OwnersInv, SettingsTypes
<1>3. /\ 1 \in DOMAIN pending /\ Head(pending) = pending[1]
      /\ \A k \in DOMAIN pending : k # 1 => k - 1 \in DOMAIN pending' /\ pending'[k - 1] = pending[k]
      /\ \A k \in DOMAIN pending' : k + 1 \in DOMAIN pending /\ pending'[k] = pending[k + 1]
    <2> HIDE DEF Pend
    <2> QED BY <1>1, <1>2
<1>4. n \in Addable /\ f \in Files
    <2>1. n \in Addable
        BY <1>3 DEF KeepInv, DiskFits
    <2> QED BY <2>1 DEF Files
<1> HIDE DEF n, f
<1>5. store[f] = NoFile \/ store[f] = n
    <2>1. store[f] # NoFile => store[f] \in Addable \union Bundle /\ FileOf[store[f]] = f
        BY <1>4 DEF KeepInv, DiskFits
    <2> QED BY <2>1, <1>4 DEF FilesDiffer, f
<1>6. \A g \in Files : store'[g] = store[g] \/ (g = f /\ store'[g] = n)
    BY <1>1, <1>2
<1>7. \A g \in Files : store[g] # NoFile => store'[g] = store[g]
    BY <1>5, <1>6
<1>8. Stored(store) \subseteq Stored(store')
    BY <1>7 DEF Stored
<1>9. n # NoFile => n \in Stored(store') \/ n \in warned'
    <2>1. CASE store' = [store EXCEPT ![f] = n]
        <3>1. store'[f] = n
            BY <2>1, <1>2, <1>4
        <3> QED BY <3>1, <1>4 DEF Stored
    <2>2. CASE store' = store /\ warned' = warned \union ({n} \ {store[f]})
        BY <2>2, <1>4 DEF Stored
    <2> QED BY <1>1, <2>1, <2>2
<1>10. \A x \in Known : x = n \/ x \in Known'
    <2>1. \A x \in warned : x = n \/ x \in warned'
        BY <1>1
    <2> QED BY <2>1, <1>8 DEF Known, Stored
<1>11. live.list \in Seq(Entries) /\ \A i \in DOMAIN live.list : live.list[i].name \in Names
    <2>1. live.list \in Seq(Entries)
        BY DEF OwnersInv, SettingsTypes, Configs
    <2>2. \A i \in DOMAIN live.list : live.list[i] \in Entries
        BY <2>1
    <2> QED BY <2>1, <2>2 DEF Entries
<1>12. Accounted(live.list)'
    <2>1. Accounted(live.list)
        BY <1>1 DEF KeepInv
    <2>2. \A i \in DOMAIN live.list :
              live.list[i].name \in Known' \/ \E k \in DOMAIN pending' :
                  pending'[k].res = live.list[i].res /\ pending'[k].name = live.list[i].name
        <3> TAKE i \in DOMAIN live.list
        <3> DEFINE e == live.list[i]
        <3>1. e.name # NoFile
            BY <1>11 DEF SettingsAssumption
        <3>2. e.name = n => e.name \in Known'
            BY <3>1, <1>9 DEF Known
        <3>3. CASE e.name \in Known
            BY <3>2, <3>3, <1>10
        <3>4. CASE Waiting(e)
            <4>1. PICK k \in DOMAIN pending : pending[k].res = e.res /\ pending[k].name = e.name
                BY <3>4 DEF Waiting
            <4>2. CASE k = 1
                BY <3>2, <4>1, <4>2, <1>3 DEF n
            <4>3. CASE k # 1
                BY <4>1, <4>3, <1>3
            <4> QED BY <4>2, <4>3
        <3> QED BY <2>1, <3>3, <3>4 DEF Accounted
    <2> QED BY <2>2, <1>1 DEF Accounted, Waiting
<1>13. DiskFits'
    <2>1. \A g \in Files : store'[g] # NoFile =>
              store'[g] \in Addable \union Bundle /\ FileOf[store'[g]] = g
        BY <1>4, <1>6 DEF KeepInv, DiskFits, f
    <2>2. \A g \in Files : baked'[g] # NoFile => baked'[g] = store'[g]
        BY <1>1, <1>7 DEF KeepInv, DiskFits
    <2>3. \A k \in DOMAIN pending' : pending'[k].name \in Addable
        BY <1>3 DEF KeepInv, DiskFits
    <2> QED BY <1>1, <2>1, <2>2, <2>3 DEF DiskFits
<1>14. applied' # <<>> => AppliedFits'
    BY <1>1 DEF KeepInv, AppliedFits
<1> QED BY <1>1, <1>12, <1>13, <1>14 DEF KeepInv

\* The staged files replace nothing, and then nothing waits any more.
LEMMA CommitStagedKeeps ==
    ASSUME OwnersInv, KeepInv, CommitStaged PROVE KeepInv'
<1> DEFINE gets(f) == store[f] = NoFile /\ f \in {FileOf[n] : n \in staged}
           chosen(f) == CHOOSE n \in staged : FileOf[n] = f
<1>1. /\ window = "files" /\ window' = "bake" /\ pending = <<>> /\ pending' = pending
      /\ store' = [f \in Files |-> IF gets(f) THEN chosen(f) ELSE store[f]]
      /\ UNCHANGED <<live, temp, saved, baked, ini, warned, applied>>
    BY DEF CommitStaged
<1>2. staged \in SUBSET Bundle
    BY DEF OwnersInv, SettingsTypes
<1>3. DOMAIN pending = {}
    BY <1>1
<1>4. \A f \in Files : gets(f) => chosen(f) \in Bundle /\ FileOf[chosen(f)] = f
    BY <1>2
<1> HIDE DEF chosen
<1>5. \A f \in Files : store'[f] = IF gets(f) THEN chosen(f) ELSE store[f]
    BY <1>1
<1>6. \A f \in Files : store[f] # NoFile => store'[f] = store[f]
    BY <1>5
<1>7. Stored(store) \subseteq Stored(store')
    BY <1>6 DEF Stored
<1>8. AreKnown(live.list)'
    <2>1. Accounted(live.list)
        BY <1>1 DEF KeepInv
    <2>2. \A i \in DOMAIN live.list : live.list[i].name \in Known
        BY <2>1, <1>3 DEF Accounted, Waiting
    <2>3. \A x \in Known : x \in Known'
        BY <1>1, <1>7 DEF Known, Stored
    <2>4. live'.list = live.list
        BY <1>1
    <2> QED BY <2>2, <2>3, <2>4 DEF AreKnown
<1>9. DiskFits'
    <2>1. \A f \in Files : store'[f] # NoFile =>
              store'[f] \in Addable \union Bundle /\ FileOf[store'[f]] = f
        BY <1>4, <1>5 DEF KeepInv, DiskFits
    <2>2. \A f \in Files : baked'[f] # NoFile => baked'[f] = store'[f]
        BY <1>1, <1>6 DEF KeepInv, DiskFits
    <2>3. \A k \in DOMAIN pending' : pending'[k].name \in Addable
        BY <1>1, <1>3
    <2> QED BY <1>1, <2>1, <2>2, <2>3 DEF DiskFits
<1>10. applied' # <<>> => AppliedFits'
    BY <1>1 DEF KeepInv, AppliedFits
<1> QED BY <1>1, <1>8, <1>9, <1>10 DEF KeepInv

\* What is built last is all there is in the store, or the Apply did not go through.
LEMMA BakeKeeps == ASSUME OwnersInv, KeepInv, BakeAndClose PROVE KeepInv'
<1>1. /\ window = "bake" /\ window' = "closed"
      /\ \/ baked' = store /\ applied' = applied
         \/ baked' = baked /\ applied' = <<>>
      /\ UNCHANGED <<live, pending, store, ini, warned>>
    BY DEF BakeAndClose
<1>2. AreKnown(live.list)
    BY <1>1 DEF KeepInv
<1>3. AreKnown(live.list)'
    BY <1>1, <1>2 DEF AreKnown, Known
<1>4. DiskFits'
    BY <1>1 DEF KeepInv, DiskFits
<1>5. ASSUME applied' # <<>> PROVE AppliedFits'
    <2>1. baked' = store /\ applied' = applied /\ ini = applied /\ applied = Lines(live.list)
        BY <1>1, <1>5 DEF KeepInv, AppliedFits
    <2>2. DOMAIN applied = DOMAIN live.list
          /\ \A i \in DOMAIN live.list : applied[i].name = live.list[i].name
        BY <2>1 DEF Lines
    <2>3. \A i \in DOMAIN applied :
              applied[i].name \in ToSet(BuiltIn) \union Stored(baked') \union warned
        BY <1>2, <2>1, <2>2 DEF AreKnown, Known
    <2> QED BY <1>1, <2>1, <2>3 DEF AppliedFits
<1> QED BY <1>1, <1>3, <1>4, <1>5 DEF KeepInv

LEMMA KeepKeeps ==
    SettingsAssumption /\ FilesDiffer /\ OwnersInv /\ KeepInv /\ [SettingsNext]_settingsVars => KeepInv'
<1> SUFFICES ASSUME SettingsAssumption, FilesDiffer, OwnersInv, KeepInv, [SettingsNext]_settingsVars
             PROVE  KeepInv'
    OBVIOUS
<1>1. CASE Edit
    <2>1. CASE \E i \in DOMAIN temp.list : Toggle(i) \/ MoveUp(i) \/ Delete(i)
        BY <2>1, ToggleKeeps, MoveUpKeeps, DeleteKeeps
    <2>2. CASE \E n \in Addable : Add(n)
        BY <2>2, AddKeeps
    <2>3. CASE Import \/ Reset \/ Revert
        BY <2>3, ImportKeeps, ResetKeeps, RevertKeeps
    <2> QED BY <1>1, <2>1, <2>2, <2>3 DEF Edit
<1>2. CASE Restart \/ Show
    BY <1>2, RestartKeeps, ShowKeeps
<1>3. CASE \/ Rotate \/ UseCurrent
           \/ Close \/ Apply \/ Save \/ CopyAdded \/ CommitStaged \/ BakeAndClose
    BY <1>3, RotateKeeps, UseCurrentKeeps, CloseKeeps, ApplyKeeps, SaveKeeps, CopyAddedKeeps,
       CommitStagedKeeps, BakeKeeps
<1>4. CASE UNCHANGED settingsVars
    BY <1>4 DEF settingsVars, KeepInv, DiskFits, AppliedFits, AreKnown, Accounted, Known, Waiting
<1> QED BY <1>1, <1>2, <1>3, <1>4 DEF SettingsNext

\* With what was applied kept, a start shows it.
LEMMA KeptIsShown ==
    ASSUME SettingsAssumption, OwnersInv, KeepInv PROVE RestartKeepsTheApplied
<1> SUFFICES ASSUME window = "closed", applied # <<>>
             PROVE  IsPrefix(Seen(applied, ForOneSession), Seen(Lines(Loaded(baked, ini)), {}))
    BY DEF RestartKeepsTheApplied
<1>1. baked \in [Files -> Names \union {NoFile}] /\ ini \in Seq(Switches)
    BY DEF OwnersInv, SettingsTypes
<1>2. /\ ini = applied
      /\ \A i \in DOMAIN applied :
            applied[i].name \in ToSet(BuiltIn) \union Stored(baked) \union warned
    BY DEF KeepInv, AppliedFits
<1>3. ToSet(Available(baked)) = ToSet(BuiltIn) \union Stored(baked)
    BY <1>1, WhatIsThere
<1>4. \A i \in DOMAIN ini : ini[i].name \in ForOneSession <=> ini[i].name \notin ToSet(Available(baked))
    BY <1>2, <1>3 DEF ForOneSession
<1>5. IsPrefix(Seen(ini, ForOneSession), Seen(Lines(Loaded(baked, ini)), {}))
    <2> DEFINE gone == ForOneSession
    <2> HIDE DEF gone
    <2>1. \A i \in DOMAIN ini : ini[i].name \in gone <=> ini[i].name \notin ToSet(Available(baked))
        BY <1>4 DEF gone
    <2>2. IsPrefix(Seen(ini, gone), Seen(Lines(Loaded(baked, ini)), {}))
        BY <1>1, <2>1, StartShowsTheSaved
    <2> QED BY <2>2 DEF gone
<1> QED BY <1>2, <1>5

\* Once an Apply went through, every process that starts later has the layouts it put into
\* force, first, in its order and with its switches (config.c, Config_LoadFromFileEx merging
\* what the window saved), whatever was edited, applied or ended in between; only a layout the
\* user was warned about goes.
THEOREM StartsKeepTheApplied ==
    ASSUME SettingsAssumption, FilesDiffer PROVE SettingsSpec => []RestartKeepsTheApplied
<1>1. SettingsInit => OwnersInv /\ KeepInv
    BY OwnersStart, KeepStarts
<1>2. OwnersInv /\ KeepInv /\ [SettingsNext]_settingsVars => (OwnersInv /\ KeepInv)'
    BY OwnersKeep, KeepKeeps
<1>3. OwnersInv /\ KeepInv => RestartKeepsTheApplied
    BY KeptIsShown
<1> QED BY <1>1, <1>2, <1>3, PTL DEF SettingsSpec

-----------------------------------------------------------------------------
(* What a save keeps *)

\* ConfigFile counts and ranks as Settings does: its definitions are the same.
LEMMA SameRanks ==
    ASSUME NEW places
    PROVE  /\ Saving!Cardinality(places) = Cardinality(places)
           /\ \A n : Saving!Nth(places, n) = Nth(places, n)
<1>1. \A S : Saving!Cardinality(S) = Cardinality(S)
    BY DEF Saving!Cardinality, Cardinality
<1>2. \A i : Saving!Rank(places, i) = Rank(places, i)
    BY <1>1 DEF Saving!Rank, Rank
<1>3. \A n : Saving!Nth(places, n) = Nth(places, n)
    BY <1>2 DEF Saving!Nth, Nth
<1> QED BY <1>1, <1>3

\* What is chosen from a sequence: what is at those places, each once.
LEMMA ChosenOnes ==
    ASSUME NEW S, NEW s \in Seq(S), NEW P \in SUBSET DOMAIN s
    PROVE  /\ Saving!Chosen(s, P) \in Seq(S)
           /\ \A n \in DOMAIN Saving!Chosen(s, P) :
                  Nth(P, n) \in P /\ Saving!Chosen(s, P)[n] = s[Nth(P, n)]
           /\ \A n, m \in DOMAIN Saving!Chosen(s, P) : Nth(P, n) = Nth(P, m) => n = m
           /\ \A i \in P : \E n \in DOMAIN Saving!Chosen(s, P) : Nth(P, n) = i
           /\ P = {} => Saving!Chosen(s, P) = <<>>
           /\ \A i : P = {i} => Saving!Chosen(s, P) = <<s[i]>>
<1> DEFINE c == Saving!Chosen(s, P)
           z == Cardinality(P)
<1>1. P \in SUBSET Nat /\ IsFiniteSet(P)
    BY Places
<1>2. /\ z \in Nat
      /\ \A i \in P : Rank(P, i) \in 1 .. z /\ Nth(P, Rank(P, i)) = i
      /\ \A n \in 1 .. z : Nth(P, n) \in P /\ Rank(P, Nth(P, n)) = n
    BY <1>1, Ranks
<1>3. c = [n \in 1 .. z |-> s[Nth(P, n)]]
    BY SameRanks DEF Saving!Chosen
<1> HIDE DEF c, z
<1>4. DOMAIN c = 1 .. z /\ \A n \in 1 .. z : c[n] = s[Nth(P, n)]
    BY <1>3
<1>5. \A n \in 1 .. z : c[n] \in S
    BY <1>2, <1>4
<1>6. c \in Seq(S)
    <2>1. c \in [1 .. z -> S]
        BY <1>3, <1>4, <1>5
    <2> QED BY <2>1, <1>2
<1>7. P = {} => c = <<>>
    <2>1. P = {} => z = 0
        BY FS_EmptySet DEF z
    <2> QED BY <2>1, <1>4, <1>6
<1>8. ASSUME NEW i, P = {i} PROVE c = <<s[i]>>
    <2>1. z = 1
        BY <1>8, FS_Singleton DEF z
    <2>2. 1 \in 1 .. 1 /\ Nth(P, 1) = i
        BY <2>1, <1>2, <1>8
    <2>3. Len(c) = 1 /\ c[1] = s[i]
        BY <2>1, <2>2, <1>4, <1>6
    <2> QED BY <2>3, <1>6
<1>9. \A n, m \in 1 .. z : Nth(P, n) = Nth(P, m) => n = m
    BY <1>2
<1>10. \A i \in P : \E n \in 1 .. z : Nth(P, n) = i
    BY <1>2
<1> QED BY <1>2, <1>4, <1>6, <1>7, <1>8, <1>9, <1>10 DEF c

IsSequence(lines) == \E S : lines \in Seq(S)
Once(lines, k) == \A i, j \in DOMAIN lines : lines[i].key = k /\ lines[j].key = k => i = j

\* The lines with some keys: all of them, in order, and no others.
LEMMA HavingThese ==
    ASSUME NEW lines, IsSequence(lines), NEW keys, NEW c, c = Saving!Having(lines, keys)
    PROVE  /\ IsSequence(c)
           /\ \A n \in DOMAIN c : c[n].key \in keys /\ \E i \in DOMAIN lines : c[n] = lines[i]
           /\ \A k : Once(lines, k) => Once(c, k)
           /\ (\A i \in DOMAIN lines : lines[i].key \notin keys) => c = <<>>
           /\ \A i \in DOMAIN lines :
                  lines[i].key \in keys /\ (\A j \in DOMAIN lines : lines[j].key \in keys => j = i)
                      => c = <<lines[i]>>
<1> PICK S : lines \in Seq(S)
    BY DEF IsSequence
<1> DEFINE P == {i \in DOMAIN lines : lines[i].key \in keys}
<1>1. DOMAIN lines = 1 .. Len(lines)
    OBVIOUS
<1>2. c = Saving!Chosen(lines, P) /\ P \in SUBSET DOMAIN lines
    BY <1>1 DEF Saving!Having
<1>3. \A i \in P : i \in DOMAIN lines /\ lines[i].key \in keys
    OBVIOUS
<1>4. (\A i \in DOMAIN lines : lines[i].key \notin keys) => P = {}
    OBVIOUS
<1>5. \A i \in DOMAIN lines :
          lines[i].key \in keys /\ (\A j \in DOMAIN lines : lines[j].key \in keys => j = i) => P = {i}
    OBVIOUS
<1> HIDE DEF P
<1>6. /\ c \in Seq(S)
      /\ \A n \in DOMAIN c : Nth(P, n) \in P /\ c[n] = lines[Nth(P, n)]
      /\ \A n, m \in DOMAIN c : Nth(P, n) = Nth(P, m) => n = m
      /\ P = {} => c = <<>>
      /\ \A i : P = {i} => c = <<lines[i]>>
    BY <1>2, ChosenOnes
<1>7. ASSUME NEW k, Once(lines, k) PROVE Once(c, k)
    <2> SUFFICES ASSUME NEW n \in DOMAIN c, NEW m \in DOMAIN c, c[n].key = k, c[m].key = k PROVE n = m
        BY DEF Once
    <2>1. Nth(P, n) = Nth(P, m)
        BY <1>3, <1>6, <1>7 DEF Once
    <2> QED BY <2>1, <1>6
<1>8. \A n \in DOMAIN c : c[n].key \in keys /\ \E i \in DOMAIN lines : c[n] = lines[i]
    BY <1>3, <1>6
<1> QED BY <1>4, <1>5, <1>6, <1>7, <1>8 DEF IsSequence

\* The lines that are carried over are the first of them.
LEMMA FirstAreKept ==
    ASSUME Saving!ConfigFileAssumption, NEW lines, IsSequence(lines), NEW c, c = Saving!KeepAdd(lines)
    PROVE  /\ IsSequence(c)
           /\ \A n \in DOMAIN c : n \in DOMAIN lines /\ c[n] = lines[n]
           /\ Len(lines) <= 1 => c = lines
<1> PICK S : lines \in Seq(S)
    BY DEF IsSequence
<1>1. KeepMax \in Nat /\ KeepMax >= 1
    BY DEF Saving!ConfigFileAssumption
<1>2. CASE ~ Len(lines) > KeepMax
    BY <1>2 DEF Saving!KeepAdd, IsSequence
<1>3. CASE Len(lines) > KeepMax
    <2>1. c = SubSeq(lines, 1, KeepMax)
        BY <1>3 DEF Saving!KeepAdd
    <2>2. \A n \in 1 .. KeepMax : n \in DOMAIN lines /\ lines[n] \in S
        BY <1>1, <1>3
    <2>3. /\ c \in Seq(S) /\ Len(c) = IF 1 <= KeepMax THEN KeepMax - 1 + 1 ELSE 0
          /\ \A n \in 1 .. KeepMax - 1 + 1 : c[n] = lines[1 + n - 1]
        BY <2>1, <2>2, <1>1, SubSeqProperties
    <2>4. DOMAIN c = 1 .. KeepMax
        BY <2>3, <1>1
    <2>5. \A n \in 1 .. KeepMax : n \in 1 .. KeepMax - 1 + 1 /\ 1 + n - 1 = n
        BY <1>1
    <2>6. \A n \in DOMAIN c : n \in DOMAIN lines /\ c[n] = lines[n]
        BY <2>2, <2>3, <2>4, <2>5
    <2>7. ~ Len(lines) <= 1
        BY <1>1, <1>3
    <2> QED BY <2>3, <2>6, <2>7 DEF IsSequence
<1> QED BY <1>2, <1>3

\* A process writes each of its keys once into the section of that key, with its value.
LEMMA OwnOnes ==
    ASSUME NEW p \in Procs, NEW s \in Saving!Sections, NEW own, own = Saving!OwnLines(p, s)
    PROVE  /\ IsSequence(own)
           /\ \A i \in DOMAIN own : own[i].key \in Saving!Written(p) \cap Saving!KeysIn(s)
           /\ \A k \in Saving!Written(p) \cap Saving!KeysIn(s) :
                  \E i \in DOMAIN own : /\ own[i] = [key |-> k, val |-> cfg[p][k]]
                                        /\ \A j \in DOMAIN own : own[j].key = k => j = i
           /\ \A k : Once(own, k)
<1> DEFINE keys == Saving!Written(p) \cap Saving!KeysIn(s)
           all == Saving!KeysInOrder
           P == {i \in DOMAIN all : all[i] \in keys}
           order == Saving!Chosen(all, P)
<1>1. all \in Seq(Saving!Keys) /\ \A k \in Saving!Keys : \E i \in DOMAIN all : all[i] = k
    <2>1. Saving!Keys = {"rotate", "fullWidth", "newOption", "sentence", "fuzzy", "newSection"}
        BY DEF Saving!Keys, Saving!SectionOf
    <2>2. all = <<"rotate", "fullWidth", "newOption", "sentence", "fuzzy", "newSection">>
        BY DEF Saving!KeysInOrder
    <2> HIDE DEF all
    <2>3. all \in Seq(Saving!Keys)
        BY <2>1, <2>2
    <2>4. DOMAIN all = 1 .. 6
        BY <2>2
    <2>5. /\ all[1] = "rotate" /\ all[2] = "fullWidth" /\ all[3] = "newOption"
          /\ all[4] = "sentence" /\ all[5] = "fuzzy" /\ all[6] = "newSection"
        BY <2>2
    <2>6. {1, 2, 3, 4, 5, 6} \subseteq DOMAIN all
        BY <2>4
    <2> QED BY <2>1, <2>3, <2>5, <2>6
<1>2. \A i, j \in DOMAIN all : all[i] = all[j] => i = j
    <2>1. all = <<"rotate", "fullWidth", "newOption", "sentence", "fuzzy", "newSection">>
        BY DEF Saving!KeysInOrder
    <2> HIDE DEF all
    <2>2. DOMAIN all = 1 .. 6
        BY <2>1
    <2>3. /\ all[1] = "rotate" /\ all[2] = "fullWidth" /\ all[3] = "newOption"
          /\ all[4] = "sentence" /\ all[5] = "fuzzy" /\ all[6] = "newSection"
        BY <2>1
    <2>4. \A i \in DOMAIN all : i = 1 \/ i = 2 \/ i = 3 \/ i = 4 \/ i = 5 \/ i = 6
        BY <2>2
    <2> QED BY <2>3, <2>4
<1>3. own = [i \in 1 .. Len(order) |-> [key |-> order[i], val |-> cfg[p][order[i]]]]
    BY DEF Saving!OwnLines
<1>4. P \in SUBSET DOMAIN all
    OBVIOUS
<1>5. \A k \in keys : k \in Saving!Keys
    BY DEF Saving!KeysIn
<1>6. \A k \in keys : \E i \in P : all[i] = k
    BY <1>1, <1>5
<1>7. \A i \in P : i \in DOMAIN all /\ all[i] \in keys
    OBVIOUS
<1> HIDE DEF keys, all, P
<1>8. /\ order \in Seq(Saving!Keys)
      /\ \A n \in DOMAIN order : Nth(P, n) \in P /\ order[n] = all[Nth(P, n)]
      /\ \A n, m \in DOMAIN order : Nth(P, n) = Nth(P, m) => n = m
      /\ \A i \in P : \E n \in DOMAIN order : Nth(P, n) = i
    BY <1>1, <1>4, ChosenOnes
<1> HIDE DEF order
<1>9. DOMAIN order = 1 .. Len(order) /\ Len(order) \in Nat
    BY <1>8
<1>10. DOMAIN own = DOMAIN order
       /\ \A i \in DOMAIN order : own[i] = [key |-> order[i], val |-> cfg[p][order[i]]]
    BY <1>3, <1>9
<1>11. \A i, j \in DOMAIN order : order[i] = order[j] => i = j
    <2> SUFFICES ASSUME NEW i \in DOMAIN order, NEW j \in DOMAIN order, order[i] = order[j] PROVE i = j
        OBVIOUS
    <2>1. Nth(P, i) = Nth(P, j)
        BY <1>2, <1>7, <1>8
    <2> QED BY <2>1, <1>8
<1>12. IsSequence(own)
    <2> DEFINE R == {own[i] : i \in DOMAIN own}
    <2>1. own \in [1 .. Len(order) -> R]
        BY <1>3, <1>9, <1>10
    <2> HIDE DEF R
    <2>2. own \in Seq(R)
        BY <2>1, <1>9
    <2> QED BY <2>2 DEF IsSequence
<1>13. \A i \in DOMAIN own : own[i].key = order[i]
    BY <1>10
<1>14. \A i \in DOMAIN own : own[i].key \in keys
    BY <1>7, <1>8, <1>10, <1>13
<1>15. ASSUME NEW k \in keys
       PROVE  \E i \in DOMAIN own : /\ own[i] = [key |-> k, val |-> cfg[p][k]]
                                    /\ \A j \in DOMAIN own : own[j].key = k => j = i
    <2>1. PICK i \in P : all[i] = k
        BY <1>6
    <2>2. PICK n \in DOMAIN order : Nth(P, n) = i
        BY <1>8
    <2>3. order[n] = k
        BY <2>1, <2>2, <1>8
    <2>4. own[n] = [key |-> k, val |-> cfg[p][k]] /\ n \in DOMAIN own
        BY <2>3, <1>10
    <2>5. \A j \in DOMAIN own : own[j].key = k => j = n
        BY <2>3, <1>10, <1>11, <1>13
    <2> QED BY <2>4, <2>5
<1>16. \A k : Once(own, k)
    BY <1>10, <1>11, <1>13 DEF Once
<1> QED BY <1>12, <1>14, <1>15, <1>16 DEF keys

LEMMA Widened == ASSUME NEW S, NEW U, S \subseteq U, NEW s \in Seq(S) PROVE s \in Seq(U)
<1>1. Len(s) \in Nat /\ s \in [1 .. Len(s) -> S]
    OBVIOUS
<1>2. s \in [1 .. Len(s) -> U]
    BY <1>1
<1> QED BY <1>1, <1>2

\* One sequence after another.
LEMMA Joined ==
    ASSUME NEW a, NEW b, IsSequence(a), IsSequence(b), NEW c, c = a \o b
    PROVE  /\ IsSequence(c)
           /\ \A n \in DOMAIN c : \/ n \in DOMAIN a /\ c[n] = a[n]
                                  \/ \E m \in DOMAIN b : n = Len(a) + m /\ c[n] = b[m]
           /\ \A n \in DOMAIN a : n \in DOMAIN c /\ c[n] = a[n]
           /\ \A m \in DOMAIN b : Len(a) + m \in DOMAIN c /\ c[Len(a) + m] = b[m]
<1> PICK S : a \in Seq(S)
    BY DEF IsSequence
<1> PICK R : b \in Seq(R)
    BY DEF IsSequence
<1> DEFINE U == S \cup R
<1>1. a \in Seq(U) /\ b \in Seq(U)
    <2>1. S \subseteq U /\ R \subseteq U
        OBVIOUS
    <2> QED BY <2>1, Widened
<1> HIDE DEF U
<1>2. /\ Len(a) \in Nat /\ DOMAIN a = 1 .. Len(a)
      /\ Len(b) \in Nat /\ DOMAIN b = 1 .. Len(b)
    BY <1>1
<1>3. /\ c \in Seq(U) /\ Len(c) = Len(a) + Len(b)
      /\ \A i \in 1 .. Len(a) + Len(b) : c[i] = IF i <= Len(a) THEN a[i] ELSE b[i - Len(a)]
    BY <1>1, ConcatProperties
<1>4. DOMAIN c = 1 .. Len(a) + Len(b)
    BY <1>3
<1>5. ASSUME NEW n \in DOMAIN c
      PROVE  \/ n \in DOMAIN a /\ c[n] = a[n]
             \/ \E m \in DOMAIN b : n = Len(a) + m /\ c[n] = b[m]
    <2>1. CASE n <= Len(a)
        BY <2>1, <1>2, <1>3, <1>4
    <2>2. CASE ~ n <= Len(a)
        <3>1. n - Len(a) \in DOMAIN b /\ n = Len(a) + (n - Len(a)) /\ c[n] = b[n - Len(a)]
            BY <2>2, <1>2, <1>3, <1>4
        <3> QED BY <3>1
    <2> QED BY <2>1, <2>2
<1>6. \A n \in DOMAIN a : n \in DOMAIN c /\ c[n] = a[n]
    BY <1>2, <1>3, <1>4
<1>7. ASSUME NEW m \in DOMAIN b PROVE Len(a) + m \in DOMAIN c /\ c[Len(a) + m] = b[m]
    <2>1. Len(a) + m \in 1 .. Len(a) + Len(b) /\ ~ Len(a) + m <= Len(a) /\ Len(a) + m - Len(a) = m
        BY <1>2
    <2> QED BY <2>1, <1>3, <1>4
<1> QED BY <1>3, <1>5, <1>6, <1>7 DEF IsSequence

\* What a save of p over the file f carries over.
UnknownOf(f, p) ==
    [s \in Saving!Sections |-> Saving!KeepAdd(Saving!Having(f[s], Saving!Keys \ Saving!Ours(p)))]

\* A file that a save may meet: each line under its section, and one line at most for each
\* key of the later version (only that version writes them, and takes them for its own).
SectionFits(lines, s) ==
    /\ IsSequence(lines)
    /\ \A i \in DOMAIN lines : lines[i].key \in Saving!KeysIn(s)
    /\ \A k \in Saving!NewKeys : Once(lines, k)
FileFits(f) == DOMAIN f = Saving!Sections /\ \A s \in Saving!Sections : SectionFits(f[s], s)

LEMMA KeptOnes ==
    ASSUME Saving!ConfigFileAssumption, NEW p \in Procs, NEW f, FileFits(f), NEW s \in Saving!Sections,
           NEW u, u = UnknownOf(f, p)[s]
    PROVE  /\ SectionFits(u, s)
           /\ \A i \in DOMAIN u : u[i].key \notin Saving!Ours(p)
<1> DEFINE keys == Saving!Keys \ Saving!Ours(p)
           h == Saving!Having(f[s], keys)
<1>1. u = Saving!KeepAdd(h)
    BY DEF UnknownOf
<1>2. SectionFits(f[s], s)
    BY DEF FileFits
<1>7. IsSequence(f[s]) /\ h = Saving!Having(f[s], keys)
    BY <1>2 DEF SectionFits
<1> HIDE DEF h, keys
<1>3. /\ IsSequence(h)
      /\ \A n \in DOMAIN h : h[n].key \in keys /\ \E i \in DOMAIN f[s] : h[n] = f[s][i]
      /\ \A k : Once(f[s], k) => Once(h, k)
    BY <1>7, HavingThese
<1>4. IsSequence(u) /\ \A n \in DOMAIN u : n \in DOMAIN h /\ u[n] = h[n]
    BY <1>1, <1>3, FirstAreKept
<1>5. \A n \in DOMAIN u : u[n].key \in Saving!KeysIn(s)
    BY <1>2, <1>3, <1>4 DEF SectionFits
<1>6. \A k \in Saving!NewKeys : Once(u, k)
    BY <1>2, <1>3, <1>4 DEF SectionFits, Once
<1> QED BY <1>3, <1>4, <1>5, <1>6 DEF SectionFits, keys

\* What p saves in a section of the file f, and what a reader finds there.
LEMMA SavedSection ==
    ASSUME Saving!ConfigFileAssumption, NEW p \in Procs, NEW f, FileFits(f), NEW s \in Saving!Sections,
           kept[p] = UnknownOf(f, p), NEW c, c = Saving!Saved(p, Saving!Sections)[s]
    PROVE  /\ SectionFits(c, s)
           /\ \A k \in Saving!Ours(p) \cap Saving!KeysIn(s) :
                  Saving!Having(c, {k}) = <<[key |-> k, val |-> cfg[p][k]]>>
           /\ \A k \in Saving!KeysIn(s) \ Saving!Written(p) :
                  Saving!Having(c, {k}) = Saving!Having(f[s], {k})
<1> DEFINE own == Saving!OwnLines(p, s)
           u == UnknownOf(f, p)[s]
<1>1. c = own \o u
    BY DEF Saving!Saved
<1>2. /\ IsSequence(own)
      /\ \A i \in DOMAIN own : own[i].key \in Saving!Written(p) \cap Saving!KeysIn(s)
      /\ \A k \in Saving!Written(p) \cap Saving!KeysIn(s) :
             \E i \in DOMAIN own : /\ own[i] = [key |-> k, val |-> cfg[p][k]]
                                   /\ \A j \in DOMAIN own : own[j].key = k => j = i
      /\ \A k : Once(own, k)
    BY OwnOnes
<1>3. SectionFits(u, s) /\ \A i \in DOMAIN u : u[i].key \notin Saving!Ours(p)
    BY KeptOnes
<1>4. Saving!Ours(p) \subseteq Saving!Written(p)
    BY DEF Saving!Ours
<1>5. SectionFits(f[s], s)
    BY DEF FileFits
<1>6. \A k \in Saving!NewKeys : k \in Saving!Written(p) => k \in Saving!Ours(p)
    BY DEF Saving!Ours, Saving!NewKeys
<1>15. u = Saving!KeepAdd(Saving!Having(f[s], Saving!Keys \ Saving!Ours(p)))
    BY DEF UnknownOf
<1> HIDE DEF own, u
<1>7. /\ IsSequence(c)
      /\ \A n \in DOMAIN c : \/ n \in DOMAIN own /\ c[n] = own[n]
                             \/ \E m \in DOMAIN u : n = Len(own) + m /\ c[n] = u[m]
      /\ \A n \in DOMAIN own : n \in DOMAIN c /\ c[n] = own[n]
      /\ \A m \in DOMAIN u : Len(own) + m \in DOMAIN c /\ c[Len(own) + m] = u[m]
    <2>1. IsSequence(u)
        BY <1>3 DEF SectionFits
    <2> QED BY <2>1, <1>1, <1>2, Joined
<1>8. \A n \in DOMAIN c : c[n].key \in Saving!KeysIn(s)
    BY <1>2, <1>3, <1>7 DEF SectionFits
<1>9. ASSUME NEW k \in Saving!NewKeys PROVE Once(c, k)
    <2> SUFFICES ASSUME NEW i \in DOMAIN c, NEW j \in DOMAIN c, c[i].key = k, c[j].key = k PROVE i = j
        BY DEF Once
    <2>1. CASE k \in Saving!Written(p)
        <3>1. \A m \in DOMAIN u : u[m].key # k
            BY <2>1, <1>3, <1>6
        <3> QED BY <3>1, <1>2, <1>7 DEF Once
    <2>2. CASE k \notin Saving!Written(p)
        <3>1. \A n \in DOMAIN own : own[n].key # k
            BY <2>2, <1>2
        <3>2. Once(u, k)
            BY <1>3 DEF SectionFits
        <3> QED BY <3>1, <3>2, <1>7 DEF Once
    <2> QED BY <2>1, <2>2
<1>10. ASSUME NEW k \in Saving!Ours(p) \cap Saving!KeysIn(s)
       PROVE  Saving!Having(c, {k}) = <<[key |-> k, val |-> cfg[p][k]]>>
    <2>1. PICK i \in DOMAIN own : /\ own[i] = [key |-> k, val |-> cfg[p][k]]
                                  /\ \A j \in DOMAIN own : own[j].key = k => j = i
        BY <1>2, <1>4
    <2>2. i \in DOMAIN c /\ c[i] = [key |-> k, val |-> cfg[p][k]] /\ c[i].key = k
        BY <2>1, <1>7
    <2>3. \A j \in DOMAIN c : c[j].key \in {k} => j = i
        BY <2>1, <1>3, <1>7
    <2>4. Saving!Having(c, {k}) = <<c[i]>>
        BY <2>2, <2>3, <1>7, HavingThese
    <2> QED BY <2>2, <2>4
<1>11. ASSUME NEW k \in Saving!KeysIn(s) \ Saving!Written(p)
       PROVE  Saving!Having(c, {k}) = Saving!Having(f[s], {k})
    <2> DEFINE h == Saving!Having(f[s], Saving!Keys \ Saving!Ours(p))
    <2>1. k \in Saving!NewKeys /\ Saving!KeysIn(s) \cap (Saving!Keys \ Saving!Ours(p)) = {k}
        <3>1. p \notin Newer /\ k \in {"newOption", "newSection"}
            BY DEF Saving!Written, Saving!NewKeys, Saving!KeysIn
        <3>2. Saving!Keys = {"rotate", "fullWidth", "newOption", "sentence", "fuzzy", "newSection"}
            BY DEF Saving!Keys, Saving!SectionOf
        <3>3. Saving!Keys \ Saving!Ours(p) = {"newOption", "newSection", "fuzzy"}
            BY <3>1, <3>2 DEF Saving!Ours, Saving!Written, Saving!NewKeys
        <3>4. /\ Saving!SectionOf["newOption"] = "Options" /\ Saving!SectionOf["newSection"] = "other"
              /\ Saving!SectionOf["fuzzy"] = "LayoutOptions"
            BY DEF Saving!SectionOf
        <3>5. Saving!SectionOf[k] = s /\ \A n \in Saving!KeysIn(s) : Saving!SectionOf[n] = s
            BY DEF Saving!KeysIn
        <3> QED BY <3>1, <3>3, <3>4, <3>5 DEF Saving!NewKeys
    <2>2. \A i \in DOMAIN own : own[i].key # k
        BY <1>2
    <2>3. \A i \in DOMAIN f[s] : f[s][i].key \in Saving!Keys \ Saving!Ours(p) <=> f[s][i].key = k
        BY <2>1, <1>5 DEF SectionFits
    <2>4. IsSequence(f[s]) /\ Once(f[s], k)
        BY <2>1, <1>5 DEF SectionFits
    <2>5. CASE \A i \in DOMAIN f[s] : f[s][i].key # k
        <3>1. h = <<>> /\ Saving!Having(f[s], {k}) = <<>>
            BY <2>3, <2>4, <2>5, HavingThese
        <3>2. u = <<>>
            <4>1. IsSequence(h) /\ Len(h) <= 1
                BY <3>1, <2>4, HavingThese
            <4> QED BY <4>1, <3>1, <1>15, FirstAreKept
        <3>3. \A n \in DOMAIN c : c[n].key \notin {k}
            BY <3>2, <2>2, <1>7
        <3> QED BY <3>1, <3>3, <1>7, HavingThese
    <2>6. CASE ~ \A i \in DOMAIN f[s] : f[s][i].key # k
        <3>1. PICK i \in DOMAIN f[s] : f[s][i].key = k
            BY <2>6
        <3>2. \A j \in DOMAIN f[s] : f[s][j].key = k => j = i
            BY <3>1, <2>4 DEF Once
        <3>3. h = <<f[s][i]>> /\ Saving!Having(f[s], {k}) = <<f[s][i]>>
            BY <3>1, <3>2, <2>3, <2>4, HavingThese
        <3>4. u = <<f[s][i]>>
            <4>1. IsSequence(h)
                BY <2>4, HavingThese
            <4>2. Len(<<f[s][i]>>) <= 1
                OBVIOUS
            <4>3. Len(h) <= 1
                BY <4>2, <3>3
            <4> QED BY <4>1, <4>3, <3>3, <1>15, FirstAreKept
        <3>5. DOMAIN u = {1} /\ u[1] = f[s][i]
            BY <3>4
        <3>6. Len(own) + 1 \in DOMAIN c /\ c[Len(own) + 1] = f[s][i]
            BY <3>5, <1>7
        <3>7. \A j \in DOMAIN c : c[j].key \in {k} => j = Len(own) + 1
            BY <3>5, <2>2, <1>7
        <3>8. Saving!Having(c, {k}) = <<f[s][i]>>
            BY <3>1, <3>6, <3>7, <1>7, HavingThese
        <3> QED BY <3>3, <3>8
    <2> QED BY <2>5, <2>6
<1> QED BY <1>7, <1>8, <1>9, <1>10, <1>11 DEF SectionFits

(* Every process in a save holds what it read of the file it started from,   *)
(* and at its commit its temporary file is its whole save.                   *)
KeepsInv ==
    /\ FileInv
    /\ DOMAIN cfg = Procs /\ DOMAIN kept = Procs /\ DOMAIN basis = Procs
    /\ FileFits(file) /\ \A p \in Procs : FileFits(basis[p])
    /\ \A p \in Procs : at[p] # "idle" => kept[p] = UnknownOf(basis[p], p)
    /\ \A p \in Procs : at[p] = "commit" => temps[p] = Saving!Saved(p, Saving!Sections)

LEMMA EmptyFits == FileFits(Saving!NoLines)
<1>1. DOMAIN Saving!NoLines = Saving!Sections /\ \A s \in Saving!Sections : Saving!NoLines[s] = <<>>
    BY DEF Saving!NoLines
<1>2. ASSUME NEW s \in Saving!Sections PROVE SectionFits(<<>>, s)
    <2>1. IsSequence(<<>>)
        BY <<>> \in Seq({}) DEF IsSequence
    <2>2. DOMAIN <<>> = {}
        OBVIOUS
    <2> QED BY <2>1, <2>2 DEF SectionFits, Once
<1> QED BY <1>1, <1>2 DEF FileFits

\* A whole save may be met by the next one.
LEMMA SavedFits ==
    ASSUME Saving!ConfigFileAssumption, NEW p \in Procs, NEW f, FileFits(f), kept[p] = UnknownOf(f, p)
    PROVE  FileFits(Saving!Saved(p, Saving!Sections))
<1> DEFINE all == Saving!Saved(p, Saving!Sections)
<1>1. DOMAIN all = Saving!Sections
    BY DEF Saving!Saved
<1>2. ASSUME NEW s \in Saving!Sections PROVE SectionFits(all[s], s)
    BY SavedSection
<1> QED BY <1>1, <1>2 DEF FileFits

\* A step of p in which no process but p changes what it holds.
LEMMA OthersKeepTheirSaves ==
    ASSUME NEW p \in Procs, KeepsInv, FileInv', FileFits(file'),
           DOMAIN cfg' = Procs, DOMAIN kept' = Procs, DOMAIN basis' = Procs,
           \A q \in Procs \ {p} : at'[q] = at[q],
           \A q \in Procs \ {p} : cfg'[q] = cfg[q] /\ kept'[q] = kept[q] /\ basis'[q] = basis[q],
           \A q \in Procs \ {p} : q \in DOMAIN temps => temps'[q] = temps[q],
           FileFits(basis'[p]),
           at'[p] # "idle" => kept'[p] = UnknownOf(basis'[p], p),
           at'[p] = "commit" => temps'[p] = Saving!Saved(p, Saving!Sections)'
    PROVE  KeepsInv'
<1>3. ASSUME NEW q \in Procs PROVE FileFits(basis'[q])
    BY DEF KeepsInv
<1>4. ASSUME NEW q \in Procs, at'[q] # "idle" PROVE kept'[q] = UnknownOf(basis'[q], q)
    BY <1>4 DEF KeepsInv
<1>5. ASSUME NEW q \in Procs, at'[q] = "commit"
      PROVE  temps'[q] = Saving!Saved(q, Saving!Sections)'
    <2>1. CASE q = p
        BY <1>5, <2>1
    <2>2. CASE q # p
        <3>1. temps'[q] = Saving!Saved(q, Saving!Sections)
            BY <1>5, <2>2 DEF KeepsInv, FileInv
        <3>2. cfg'[q] = cfg[q] /\ kept'[q] = kept[q]
            BY <2>2
        <3>3. Saving!Saved(q, Saving!Sections)' = Saving!Saved(q, Saving!Sections)
            BY <3>2 DEF Saving!Saved, Saving!OwnLines
        <3> QED BY <3>1, <3>3
    <2> QED BY <2>1, <2>2
<1> QED BY <1>3, <1>4, <1>5 DEF KeepsInv

LEMMA KeepsInvKept ==
    ASSUME Saving!ConfigFileAssumption, KeepsInv, [Saving!Next]_Saving!vars PROVE KeepsInv'
<1>f. FileInv /\ FileInv'
    BY SavingKeeps DEF KeepsInv
<1>1. CASE UNCHANGED Saving!vars
    <2>1. /\ file' = file /\ cfg' = cfg /\ kept' = kept /\ basis' = basis
          /\ at' = at /\ temps' = temps
        BY <1>1 DEF Saving!vars
    <2>2. \A p \in Procs : Saving!Saved(p, Saving!Sections)' = Saving!Saved(p, Saving!Sections)
        BY <2>1 DEF Saving!Saved, Saving!OwnLines
    <2> QED BY <2>1, <2>2, <1>f DEF KeepsInv
<1> SUFFICES ASSUME NEW p \in Procs,
        \/ Saving!Load(p) \/ Saving!ReadUnknown(p) \/ Saving!AtomicOpen(p) \/ Saving!WriteFirst(p)
        \/ Saving!WriteRest(p) \/ Saving!AtomicCommit(p)
        \/ \E k \in Saving!Written(p), v \in Saving!Values : Saving!Edit(p, k, v)
    PROVE KeepsInv'
    BY <1>1 DEF Saving!Next
<1>2. /\ DOMAIN cfg = Procs /\ DOMAIN kept = Procs /\ DOMAIN basis = Procs /\ DOMAIN at = Procs
      /\ FileFits(file) /\ FileFits(basis[p])
      /\ at[p] # "idle" => kept[p] = UnknownOf(basis[p], p)
    BY DEF KeepsInv, FileInv
<1>3. ASSUME NEW content, Saving!PutTemp(p, content)
      PROVE  temps'[p] = content /\ \A q \in Procs \ {p} : q \in DOMAIN temps => temps'[q] = temps[q]
    BY <1>3 DEF Saving!PutTemp
<1>4. CASE Saving!Load(p)
    BY <1>4, <1>2, <1>f, EmptyFits, OthersKeepTheirSaves DEF Saving!Load
<1>5. CASE Saving!ReadUnknown(p)
    <2>1. kept'[p] = Saving!Unknown(p) /\ basis'[p] = file /\ at' = [at EXCEPT ![p] = "open"]
        BY <1>5, <1>2 DEF Saving!ReadUnknown
    <2>2. Saving!Unknown(p) = UnknownOf(file, p)
        BY DEF Saving!Unknown, UnknownOf
    <2> QED BY <1>5, <2>1, <2>2, <1>2, <1>f, OthersKeepTheirSaves DEF Saving!ReadUnknown
<1>6. CASE Saving!AtomicOpen(p)
    <2>1. CASE at' = [at EXCEPT ![p] = "first"] /\ Saving!PutTemp(Saving!TempName(p), <<>>)
        BY <1>2, <1>3, <1>6, <2>1, <1>f, OthersKeepTheirSaves DEF Saving!AtomicOpen, Saving!TempName
    <2>2. CASE at' = [at EXCEPT ![p] = "idle"] /\ UNCHANGED temps
        BY <1>2, <1>6, <2>2, <1>f, OthersKeepTheirSaves DEF Saving!AtomicOpen
    <2> QED BY <1>6, <2>1, <2>2 DEF Saving!AtomicOpen
<1>7. CASE Saving!WriteFirst(p)
    BY <1>2, <1>3, <1>7, <1>f, OthersKeepTheirSaves DEF Saving!WriteFirst, Saving!TempName
<1>8. CASE Saving!WriteRest(p)
    <2>1. /\ at[p] = "rest" /\ at' = [at EXCEPT ![p] = "commit"]
          /\ Saving!PutTemp(p, Saving!Saved(p, Saving!Sections))
          /\ UNCHANGED <<file, cfg, kept, basis>>
        BY <1>8 DEF Saving!WriteRest, Saving!TempName
    <2>2. Saving!Saved(p, Saving!Sections)' = Saving!Saved(p, Saving!Sections)
        BY <2>1 DEF Saving!Saved, Saving!OwnLines
    <2>3. temps'[p] = Saving!Saved(p, Saving!Sections)'
        BY <2>1, <2>2, <1>3
    <2> QED BY <1>2, <1>3, <2>1, <2>3, <1>f, OthersKeepTheirSaves
<1>9. CASE Saving!AtomicCommit(p)
    <2>1. p \in DOMAIN temps /\ temps[p] = Saving!Saved(p, Saving!Sections)
        BY <1>9 DEF Saving!AtomicCommit, KeepsInv, FileInv
    <2>2. FileFits(temps[p])
        BY <2>1, <1>2, <1>9, SavedFits DEF Saving!AtomicCommit
    <2>3. FileFits(file') /\ \A q \in Procs \ {p} : q \in DOMAIN temps => temps'[q] = temps[q]
        BY <1>9, <1>2, <2>1, <2>2 DEF Saving!AtomicCommit, Saving!TempName, Saving!DropTemp
    <2>4. /\ at' = [at EXCEPT ![p] = "idle"] /\ cfg' = cfg
          /\ kept' = [kept EXCEPT ![p] = Saving!NoLines]
          /\ basis' = [basis EXCEPT ![p] = Saving!NoLines]
        BY <1>9 DEF Saving!AtomicCommit
    <2> QED BY <2>3, <2>4, <1>2, <1>f, EmptyFits, OthersKeepTheirSaves
<1>10. ASSUME NEW k \in Saving!Written(p), NEW v \in Saving!Values, Saving!Edit(p, k, v)
       PROVE  KeepsInv'
    <2>1. /\ at[p] = "idle" /\ UNCHANGED <<at, file, temps, kept, basis>>
          /\ DOMAIN cfg' = Procs /\ \A q \in Procs \ {p} : cfg'[q] = cfg[q]
        BY <1>10, <1>2 DEF Saving!Edit
    <2> QED BY <2>1, <1>2, <1>f, OthersKeepTheirSaves
<1> QED BY <1>4, <1>5, <1>6, <1>7, <1>8, <1>9, <1>10

LEMMA CommitKeepsAndWins ==
    ASSUME Saving!ConfigFileAssumption, KeepsInv, [Saving!Next]_Saving!vars
    PROVE  Saving!SaveKeepsAndWins
<1> SUFFICES ASSUME NEW p \in Procs, at[p] = "commit", at'[p] = "idle", file' # file, basis[p] = file
             PROVE  /\ \A k \in Saving!Keys \ Saving!Written(p) :
                           Saving!LinesOf(file', k) = Saving!LinesOf(file, k)
                    /\ \A k \in Saving!Ours(p) :
                           Saving!LinesOf(file', k) = <<[key |-> k, val |-> cfg[p][k]]>>
    BY DEF Saving!SaveKeepsAndWins
<1>1. DOMAIN at = Procs
    BY DEF KeepsInv, FileInv
<1>2. PICK q \in Procs : Saving!AtomicCommit(q)
    BY DEF Saving!Next, Saving!vars, Saving!Load, Saving!ReadUnknown, Saving!AtomicOpen,
           Saving!WriteFirst, Saving!WriteRest, Saving!Edit
<1>3. q = p
    BY <1>1, <1>2 DEF Saving!AtomicCommit
<1>4. file' = temps[p]
    BY <1>2, <1>3 DEF Saving!AtomicCommit, Saving!TempName
<1>5. file' = Saving!Saved(p, Saving!Sections) /\ FileFits(file) /\ kept[p] = UnknownOf(file, p)
    BY <1>4 DEF KeepsInv
<1>6. ASSUME NEW k \in Saving!Keys
      PROVE  Saving!SectionOf[k] \in Saving!Sections /\ k \in Saving!KeysIn(Saving!SectionOf[k])
    BY DEF Saving!Keys, Saving!KeysIn, Saving!SectionOf, Saving!Sections
<1>7. ASSUME NEW k \in Saving!Keys \ Saving!Written(p)
      PROVE  Saving!LinesOf(file', k) = Saving!LinesOf(file, k)
    BY <1>5, <1>6, SavedSection DEF Saving!LinesOf
<1>8. ASSUME NEW k \in Saving!Ours(p)
      PROVE  Saving!LinesOf(file', k) = <<[key |-> k, val |-> cfg[p][k]]>>
    <2>1. k \in Saving!Keys
        BY DEF Saving!Ours, Saving!Written
    <2> QED BY <2>1, <1>5, <1>6, SavedSection DEF Saving!LinesOf
<1> QED BY <1>7, <1>8

\* An action property: a save over the file it read leaves every line of a key of another
\* version as it was, and has each key that it recognises once, with its value, for any
\* processes of the two versions, wherever other processes are in their saves (config.c).
THEOREM SavesKeepAndWin ==
    ASSUME Saving!ConfigFileAssumption
    PROVE  Saving!Spec => [][Saving!SaveKeepsAndWins]_Saving!vars
<1>1. Saving!Init => KeepsInv
    BY EmptyFits DEF Saving!Init, KeepsInv, FileInv, Saving!NoLines
<1>2. KeepsInv /\ [Saving!Next]_Saving!vars => KeepsInv'
    BY KeepsInvKept
<1>3. KeepsInv /\ [Saving!Next]_Saving!vars => [Saving!SaveKeepsAndWins]_Saving!vars
    BY CommitKeepsAndWins
<1> QED BY <1>1, <1>2, <1>3, PTL DEF Saving!Spec

-----------------------------------------------------------------------------
(* The dictionaries of a layout and the files of the manager *)

\* What a layout holds is open; a program that opens everything at once has looked into all of
\* what it holds before it calls the layout loaded.
OpenInv ==
    /\ openFiles \in [Pieces -> Nat]
    /\ DOMAIN sl.holds = Pieces
    /\ \A part \in Pieces : sl.holds[part] # "none" => openFiles[part] > 0
    /\ ~lazy /\ sl.loaded => \A part \in Pieces : sl.holds[part] = "good"
    /\ sl = [loaded |-> sl.loaded, holds |-> sl.holds, openFailed |-> sl.openFailed]

\* What is opened is counted.
LEMMA OpenedIsCounted ==
    ASSUME OpenInv
    PROVE  /\ Opening!Counting \in [Pieces -> Nat]
           /\ DOMAIN Opening!Holding = Pieces
           /\ \A part \in Pieces : Opening!Holding[part] # "none" => Opening!Counting[part] > 0
           /\ \A part \in Pieces : sl.holds[part] # "none" => Opening!Counting[part] > 0
<1>1. \A part \in Pieces : openFiles[part] \in Nat
    BY DEF OpenInv
<1>2. \A part \in Pieces : openFiles[part] + 1 \in Nat /\ openFiles[part] + 1 > 0
    BY <1>1
<1>3. \A part \in Pieces :
          Opening!Counting[part] = IF part \in Opening!Opened /\ sl.holds[part] = "none"
                                   THEN openFiles[part] + 1 ELSE openFiles[part]
    BY DEF Opening!Counting, Opening!NoFile
<1>4. Opening!Counting \in [Pieces -> Nat]
    BY <1>1, <1>2, <1>3 DEF Opening!Counting
<1>5. \A part \in Pieces :
          Opening!Holding[part] = IF part \in Opening!Opened THEN Opening!ResolveDict(part)
                                  ELSE sl.holds[part]
    BY DEF Opening!Holding
<1>6. DOMAIN Opening!Holding = Pieces
    BY DEF Opening!Holding
<1>7. \A part \in Pieces : part \in Opening!Opened /\ sl.holds[part] = "none" => Opening!Counting[part] > 0
    BY <1>2, <1>3
<1>8. \A part \in Pieces : sl.holds[part] # "none" => Opening!Counting[part] > 0
    BY <1>3 DEF OpenInv
<1>9. \A part \in Pieces : Opening!Holding[part] # "none" => Opening!Counting[part] > 0
    BY <1>5, <1>7, <1>8
<1> QED BY <1>4, <1>6, <1>8, <1>9

\* Of what opens in a program that checks, all is good once the late checks went through.
LEMMA AllIsGood ==
    ASSUME Opening!SeqOpenAssumption, ~lazy, Opening!OpenDictNow(TRUE)
    PROVE  \A part \in Pieces : Opening!Holding[part] = "good"
<1>1. Opening!Opened = Pieces /\ Opening!Verified(Opening!Holding)
    BY DEF Opening!OpenDictNow
<1>2. \A part \in Pieces : Opening!Holding[part] = Opening!ResolveDict(part)
    BY <1>1 DEF Opening!Holding
<1>3. \A part \in Pieces : part \notin Opening!CheckedLate => Opening!ResolveDict(part) = "good"
    <2> TAKE part \in Pieces
    <2>1. \E i \in DOMAIN Opening!AllParts : Opening!AllParts[i] = part
        BY DEF Opening!SeqOpenAssumption, Opening!Range
    <2>2. Opening!Turn(part) \in 1 .. 5
        BY <2>1 DEF Opening!Turn, Opening!AllParts
    <2>3. Opening!Turn(part) <= Opening!Turn(part)
        BY <2>2
    <2>4. Opening!OpensAs(part, Opening!ResolveDict(part))
        BY <1>1, <2>3 DEF Opening!Opened
    <2> QED BY <2>4 DEF Opening!OpensAs, Opening!Usable
<1>4. \A part \in Pieces : part \in Opening!CheckedLate => Opening!Holding[part] = "good"
    BY <1>1 DEF Opening!Verified
<1> QED BY <1>2, <1>3, <1>4

LEMMA OpeningKeeps ==
    ASSUME Opening!SeqOpenAssumption PROVE OpenInv /\ [Opening!Next]_Opening!vars => OpenInv'
<1> SUFFICES ASSUME OpenInv, [Opening!Next]_Opening!vars PROVE OpenInv'
    OBVIOUS
<1>1. CASE Opening!Load
    <2>1. CASE /\ lazy /\ sl' = [sl EXCEPT !.loaded = TRUE]
               /\ UNCHANGED openFiles
        BY <1>1, <2>1 DEF Opening!Load, OpenInv
    <2>2. CASE /\ ~lazy /\ Opening!OpenDictNow(TRUE)
               /\ sl' = [sl EXCEPT !.loaded = TRUE, !.holds = Opening!Holding]
        <3>1. openFiles' = Opening!Counting /\ lazy' = lazy
            BY <1>1, <2>2 DEF Opening!OpenDictNow, Opening!Load
        <3>2. sl'.holds = Opening!Holding
              /\ sl' = [loaded |-> sl'.loaded, holds |-> sl'.holds, openFailed |-> sl'.openFailed]
            BY <2>2 DEF OpenInv
        <3> QED BY <2>2, <3>1, <3>2, OpenedIsCounted, AllIsGood DEF OpenInv
    <2>3. CASE ~lazy /\ Opening!OpenDictNow(FALSE) /\ UNCHANGED sl
        <3>1. openFiles' = Opening!Counting /\ lazy' = lazy
            BY <1>1, <2>3 DEF Opening!OpenDictNow, Opening!Load
        <3> QED BY <2>3, <3>1, OpenedIsCounted DEF OpenInv
    <2> QED BY <1>1, <2>1, <2>2, <2>3 DEF Opening!Load
<1>2. CASE Opening!Key
    <2>1. CASE UNCHANGED <<sl, openFiles>>
        BY <1>2, <2>1 DEF Opening!Key, OpenInv
    <2>2. ASSUME lazy, NEW ok \in BOOLEAN, Opening!OpenDictNow(ok),
                 sl' = [sl EXCEPT !.holds = Opening!Holding, !.openFailed = ~ok]
          PROVE  OpenInv'
        <3>1. openFiles' = Opening!Counting /\ lazy' = lazy
            BY <1>2, <2>2 DEF Opening!OpenDictNow, Opening!Key
        <3>2. sl'.holds = Opening!Holding
              /\ sl' = [loaded |-> sl'.loaded, holds |-> sl'.holds, openFailed |-> sl'.openFailed]
            BY <2>2 DEF OpenInv
        <3> QED BY <2>2, <3>1, <3>2, OpenedIsCounted DEF OpenInv
    <2> QED BY <1>2, <2>1, <2>2 DEF Opening!Key
<1>3. CASE Opening!Free
    <2>1. openFiles' = Opening!Freed /\ lazy' = lazy
          /\ sl' = [loaded |-> FALSE, holds |-> Opening!Nothing, openFailed |-> FALSE]
        BY <1>3 DEF Opening!Free
    <2>2. \A part \in Pieces : sl.holds[part] # "none" => openFiles[part] - 1 \in Nat
        BY DEF OpenInv
    <2>3. Opening!Freed \in [Pieces -> Nat]
        BY <2>2 DEF Opening!Freed, Opening!NoFile, OpenInv
    <2>4. sl'.holds = [part \in Pieces |-> "none"] /\ sl'.loaded = FALSE /\ sl'.openFailed = FALSE
        BY <2>1 DEF Opening!Nothing, Opening!NoFile
    <2> QED BY <2>1, <2>3, <2>4 DEF OpenInv
<1>4. CASE Opening!Change
    BY <1>4 DEF Opening!Change, OpenInv
<1>5. CASE UNCHANGED Opening!vars
    BY <1>5 DEF Opening!vars, OpenInv
<1> QED BY <1>1, <1>2, <1>3, <1>4, <1>5 DEF Opening!Next

\* Whatever is put, spoilt or removed on disk meanwhile: a program that opens everything at once has
\* no layout with a dictionary that is missing, of another kind or spoilt, and what a layout
\* holds is open (SeqLayout_OpenDict, SeqLayout_Verify, SeqLayout_Free).
THEOREM OnlyWholeOnesAreUsed ==
    ASSUME Opening!SeqOpenAssumption PROVE Opening!Spec => []Opening!OnlyWholeLayouts
<1>1. Opening!Init => OpenInv
    <2> SUFFICES ASSUME Opening!Init PROVE OpenInv
        OBVIOUS
    <2>1. /\ sl = [loaded |-> FALSE, holds |-> Opening!Nothing, openFailed |-> FALSE]
          /\ openFiles = [part \in Pieces |-> 0]
        BY DEF Opening!Init
    <2>2. sl.holds = [part \in Pieces |-> "none"] /\ sl.loaded = FALSE /\ sl.openFailed = FALSE
        BY <2>1 DEF Opening!Nothing, Opening!NoFile
    <2> QED BY <2>1, <2>2 DEF OpenInv
<1>2. OpenInv => Opening!OnlyWholeLayouts
    BY DEF OpenInv, Opening!OnlyWholeLayouts, Opening!NoFile
<1> QED BY <1>1, <1>2, OpeningKeeps, PTL DEF Opening!Spec

\* What the manager holds: texts and what is left of them, and in the layout folder only such
\* as loaded.
Kept == Managing!Texts \cup {"torn", "scrap"}
ManagerInv ==
    /\ text \in Kept
    /\ work \in [Papers -> Kept \cup {"absent"}]
    /\ installed \in [Papers -> {"absent", "good", "relative", "torn"}]
    /\ curFile \in Papers \cup {"none"}

\* However the file is edited, saved, tried and exported, and whatever write is refused or cut
\* short by a full disk, nothing is installed but a text that loaded where it was edited, or
\* what the disk took of it (tray_app.c, InstallToMyLayouts).
THEOREM OnlyCheckedIsInstalled ==
    ASSUME MayFail \subseteq {"refused", "torn"}, "none" \notin Papers
    PROVE  Managing!Spec => []Managing!InstalledWasChecked
<1>1. Managing!Init => ManagerInv
    BY DEF Managing!Init, Managing!Texts, Kept, ManagerInv
<1>2. ManagerInv /\ [Managing!Next]_Managing!vars => ManagerInv'
    <2> SUFFICES ASSUME ManagerInv, [Managing!Next]_Managing!vars PROVE ManagerInv'
        OBVIOUS
    <2>1. Managing!Writes \subseteq {"done", "refused", "torn"}
        BY DEF Managing!Writes
    <2>2. \A w \in Managing!Writes, old \in Kept \cup {"absent"} :
              Managing!WriteFileUtf8FromEdit(old, w) \in Kept \cup {"absent"}
        BY <2>1 DEF Managing!WriteFileUtf8FromEdit, Managing!Rest, Kept, ManagerInv
    <2>3. ASSUME NEW f \in Papers, Managing!DoOpen(f) PROVE ManagerInv'
        BY <2>3 DEF Managing!DoOpen, Managing!SetEditText, ManagerInv
    <2>4. ASSUME NEW f \in Papers, Managing!DoSave(f) PROVE ManagerInv'
        BY <2>2, <2>4 DEF Managing!DoSave, ManagerInv
    <2>5. ASSUME NEW t \in Managing!Texts, Managing!Edit(t) PROVE ManagerInv'
        BY <2>5 DEF Managing!Edit, Managing!SetEditText, Kept, ManagerInv
    <2>6. CASE Managing!NewFromBuiltin
        BY <2>6 DEF Managing!NewFromBuiltin, Managing!SetEditText, Managing!Texts, Kept, ManagerInv
    <2>7. CASE Managing!TryThisFile
        BY <2>7 DEF Managing!TryThisFile, ManagerInv
    <2>8. CASE Managing!ExportExpanded
        BY <2>2, <2>8 DEF Managing!ExportExpanded, ManagerInv
    <2>9. CASE Managing!InstallToMyLayouts
        <3>1. PICK w \in Managing!Writes, replaces \in BOOLEAN : Managing!InstallChecked(w, replaces)
            BY <2>9 DEF Managing!InstallToMyLayouts
        <3>2. curFile \in Papers /\ text \in {"good", "relative"}
            BY <3>1 DEF Managing!InstallChecked, Managing!CheckEditor, Managing!Klay_LoadEx, ManagerInv
        <3> DEFINE saved0 == Managing!WriteFileUtf8FromEdit(work[curFile], w)
        <3>3. saved0 \in Kept \cup {"absent"} /\ (w # "refused" => saved0 \in {"good", "relative", "torn"})
            BY <2>1, <2>2, <3>2 DEF Managing!WriteFileUtf8FromEdit, Managing!Rest, ManagerInv
        <3>4. /\ work' = [work EXCEPT ![curFile] = saved0]
              /\ \/ installed' = [installed EXCEPT ![curFile] = saved0] /\ w # "refused"
                 \/ installed' = [installed EXCEPT ![curFile] = installed[curFile]]
            BY <3>1 DEF Managing!InstallChecked
        <3> HIDE DEF saved0
        <3>5. text' = text /\ curFile' = curFile
            BY <2>9 DEF Managing!InstallToMyLayouts
        <3> QED BY <3>2, <3>3, <3>4, <3>5 DEF ManagerInv
    <2>10. CASE UNCHANGED Managing!vars
        BY <2>10 DEF Managing!vars, ManagerInv
    <2> QED BY <2>3, <2>4, <2>5, <2>6, <2>7, <2>8, <2>9, <2>10 DEF Managing!Next
<1>3. ManagerInv => Managing!InstalledWasChecked
    BY DEF ManagerInv, Managing!InstalledWasChecked
<1> QED BY <1>1, <1>2, <1>3, PTL DEF Managing!Spec
=============================================================================

------------------------------ MODULE SeqOpen ------------------------------
(***************************************************************************)
(* The dictionaries of a sequence layout (SeqLayout_OpenDict and           *)
(* OpenDictNow of seq_layout.c).  A layout names up to five kinds of file: *)
(* what its keys type, its candidates, their tones, another key table, a   *)
(* connection table.  Each is looked for beside the layout, in the user's  *)
(* and in the machine's dictionary folder.  A tool opens and checks all of *)
(* them when the layout is loaded; the input method looks only whether     *)
(* they are there and opens them with the first key, without reading all.  *)
(***************************************************************************)
EXTENDS Naturals, Sequences, FiniteSets, SequencesExt

CONSTANTS Parts,       \* a subset of {"dict", "cand", "tones", "scheme", "conn"}
          Places,      \* the folders, in the order they are searched
          FileKinds,   \* what can be at a place: "good", "otherKind", "bad", "spoilt"
          MaxChanges,  \* bound: files put, replaced or removed
          MaxOpen      \* bound: times a file is open at once

AllParts == <<"dict", "cand", "tones", "scheme", "conn">>
SeqOpenAssumption ==
  /\ "dict" \in Parts /\ Parts \subseteq Range(AllParts) /\ IsInjective(Places)
  /\ FileKinds \subseteq {"good", "otherKind", "bad", "spoilt"} /\ MaxChanges \in Nat /\ MaxOpen \in Nat

VARIABLES disk,        \* disk[part][place]: what is there, or "none"
          lazy,        \* g_lazyOpen: the program is the input method
          sl,          \* the layout: loaded, what each part holds, openFailed
          openFiles,   \* the dictionaries this process has open, with their number
          eaten,       \* the last key: "none", "eaten", "passed"
          changes      \* bound
vars == <<disk, lazy, sl, openFiles, eaten, changes>>

NoFile == "none"
Nothing == [part \in Parts |-> NoFile]

Init == /\ disk \in [Parts -> [Range(Places) -> {NoFile, "good"}]]
        /\ lazy \in BOOLEAN
        /\ sl = [loaded |-> FALSE, holds |-> Nothing, openFailed |-> FALSE]
        /\ openFiles = [part \in Parts |-> 0]
        /\ eaten = "none" /\ changes = 0

(* The first place that has a file of that name *)
ResolveDict(part) ==
  LET there == {i \in DOMAIN Places : disk[part][Places[i]] # NoFile}
  IN  IF there = {} THEN NoFile
      ELSE disk[part][Places[CHOOSE i \in there : \A j \in there : i <= j]]

(* A file whose layout is broken does not open; one of another kind is     *)
(* closed again; one whose content is spoilt is told by a full check alone *)
Usable(file, full) == file \in {"good"} \cup (IF full THEN {} ELSE {"spoilt"})
(* Of the tones, the key tables and the connections the full check is made *)
(* as they are opened; of the first two after everything is open           *)
CheckedLate == {"dict", "cand"}
OpensAs(part, file) == Usable(file, ~lazy /\ part \notin CheckedLate)

(* The parts are opened one after another, up to the first that fails; what *)
(* was opened before it stays open                                          *)
Turn(part) == CHOOSE i \in DOMAIN AllParts : AllParts[i] = part
Opened == {part \in Parts : \A other \in Parts :
               Turn(other) <= Turn(part) => OpensAs(other, ResolveDict(other))}

(* Mutant of Verified: the candidates are not read *)
VerifiedKeysOnly(holds) == holds["dict"] = "good"
(* SeqLayout_Verify: the candidates, then what the keys type *)
Verified(holds) == \A part \in CheckedLate \cap Parts : holds[part] = "good"

Holding == [part \in Parts |-> IF part \in Opened THEN ResolveDict(part) ELSE sl.holds[part]]
(* A dictionary that is already held is closed for the one just opened *)
Counting == [part \in Parts |-> IF part \in Opened /\ sl.holds[part] = NoFile
                                THEN openFiles[part] + 1 ELSE openFiles[part]]
OpenDictNow(ok) ==
  /\ ok = (Opened = Parts /\ (lazy \/ Verified(Holding)))
  /\ openFiles' = Counting

(* SeqLayout_Free closes what is held *)
Freed == [part \in Parts |-> IF sl.holds[part] = NoFile THEN openFiles[part] ELSE openFiles[part] - 1]

(* The layout is loaded: the input method looks whether the files are there; *)
(* a tool opens everything.  When that fails the loader of a text layout      *)
(* closes what was opened (SeqLayout_Free), the loader of a built one gives   *)
(* back the memory only                                                        *)
Load ==
  /\ ~sl.loaded
  /\ UNCHANGED <<disk, lazy, changes>>
  /\ eaten' = "none"
  /\ \/ /\ lazy /\ \A part \in Parts : ResolveDict(part) # NoFile
        /\ sl' = [sl EXCEPT !.loaded = TRUE]
        /\ UNCHANGED openFiles
     \/ /\ ~lazy /\ OpenDictNow(TRUE)
        /\ sl' = [sl EXCEPT !.loaded = TRUE, !.holds = Holding]
     \/ /\ ~lazy /\ OpenDictNow(FALSE)
        /\ \A part \in Parts : openFiles'[part] <= MaxOpen
        /\ UNCHANGED sl

(* A key: the dictionary the layout already holds answers for all of them   *)
(* (SeqLayout_EnsureOpen); otherwise they are opened now, once.             *)
Key ==
  /\ sl.loaded
  /\ UNCHANGED <<disk, lazy, changes>>
  /\ IF sl.holds["dict"] # NoFile THEN eaten' = "eaten" /\ UNCHANGED <<sl, openFiles>>
     ELSE IF ~lazy \/ sl.openFailed THEN eaten' = "passed" /\ UNCHANGED <<sl, openFiles>>
     ELSE \E ok \in BOOLEAN :
            /\ OpenDictNow(ok)
            /\ sl' = [sl EXCEPT !.holds = Holding, !.openFailed = ~ok]
            /\ eaten' = IF ok THEN "eaten" ELSE "passed"

Free == /\ sl.loaded
        /\ openFiles' = Freed
        /\ sl' = [loaded |-> FALSE, holds |-> Nothing, openFailed |-> FALSE]
        /\ eaten' = "none"
        /\ UNCHANGED <<disk, lazy, changes>>

(* A file that nothing has open is put, replaced or removed *)
Change == /\ changes < MaxChanges /\ changes' = changes + 1
          /\ \E part \in Parts, place \in Range(Places), f \in FileKinds \cup {NoFile} :
               /\ openFiles[part] = 0
               /\ disk' = [disk EXCEPT ![part][place] = f]
          /\ UNCHANGED <<lazy, sl, openFiles, eaten>>

Next == Load \/ Key \/ Free \/ Change
Spec == Init /\ [][Next]_vars

-----------------------------------------------------------------------------
(* Properties *)

(* A program that opens everything at once has no layout with a dictionary  *)
(* that is missing, of another kind or spoilt, and what a layout holds is   *)
(* open until the layout lets it go (OpenDictNow, SeqLayout_Verify,         *)
(* SeqLayout_Free)                                                          *)
OnlyWholeLayouts ==
  /\ ~lazy /\ sl.loaded => \A part \in Parts : sl.holds[part] = "good"
  /\ \A part \in Parts : sl.holds[part] # NoFile => openFiles[part] > 0

(* What no layout holds is closed: the loader of a built layout does not     *)
(* see to it (jlay.c ReadSeq)                                            *)
NothingLeftOpen == \A part \in Parts : sl.holds[part] = NoFile => openFiles[part] = 0

(* A layout whose opening failed eats no key: `a spoilt dictionary - that   *)
(* layout takes no keys (the program gets them)' (SeqLayout_EnsureOpen)     *)
FailedEatsNothing == sl.openFailed => eaten # "eaten"
=============================================================================

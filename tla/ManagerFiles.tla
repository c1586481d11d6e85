---------------------------- MODULE ManagerFiles -----------------------------
(***************************************************************************)
(* The manager as an editor of layout files (tray_app.c): open, save, check *)
(* the text through a temporary file beside the file it is of, try it,      *)
(* export it expanded, install it into the user's layout folder.            *)
(*                                                                         *)
(* Of a text the model keeps whether it loads: a "good" one does, a         *)
(* "relative" one extends a file of its own folder and loads only there, a  *)
(* "bad" one does not load.  A disk that is full cuts a file off: "torn" is *)
(* what is left of a text that loaded, "scrap" of one that did not; neither *)
(* is taken to load.                                                        *)
(***************************************************************************)
EXTENDS FiniteSets, Integers

CONSTANTS
    Files,      \* names of layout files: of the folder the user works in, and of the layout folder
    MayFail,    \* a subset of {"refused", "torn"}: how a write can go wrong
    MaxFaults,  \* bound
    MaxSteps    \* bound: what the user does

VARIABLES
    text,       \* what the editor shows
    curFile,    \* g_curFile: the file it is of, or "none"
    work,       \* the files of the working folder
    installed,  \* the files of the user's layout folder
    exported,   \* expanded files: what they were made from
    trying,     \* the text the try box types with
    told,       \* what the last message said: "installed", "exported", "failed" or "nothing"
    faults, steps

vars == <<text, curFile, work, installed, exported, trying, told, faults, steps>>

Texts == {"good", "relative", "bad"}

Rest(t) == IF t \in {"good", "relative", "torn"} THEN "torn" ELSE "scrap"

Init ==
    /\ text = "bad" /\ curFile = "none"
    /\ work \in [Files -> Texts \cup {"absent"}]
    /\ installed = [f \in Files |-> "absent"]
    /\ exported = "absent" /\ trying = "none" /\ told = "nothing"
    /\ faults = 0 /\ steps = 0

Turn == steps < MaxSteps /\ steps' = steps + 1

\* How a write goes: a disk that is full tears the file, and nobody asks whether it did.
Writes == {"done"} \cup {w \in MayFail : faults < MaxFaults}
Charge(w) == faults' = faults + (IF w = "done" THEN 0 ELSE 1)
WriteFileUtf8FromEdit(old, w) == 
    CASE w = "done" -> text [] w = "refused" -> old [] w = "torn" -> Rest(text)

\* The check reads the text from the folder the file is in, or from the temporary folder.
Klay_LoadEx(content, atHome) == content = "good" \/ (content = "relative" /\ atHome)
CheckEditor(w) == w # "torn" /\ Klay_LoadEx(text, curFile # "none" /\ w # "refused")

SetEditText(t) == text' = t

DoOpen(f) ==
    /\ Turn /\ work[f] # "absent"
    /\ SetEditText(work[f]) /\ curFile' = f /\ told' = "nothing"
    /\ UNCHANGED <<work, installed, exported, trying, faults>>

Edit(t) ==
    /\ Turn /\ SetEditText(t) /\ told' = "nothing"
    /\ UNCHANGED <<curFile, work, installed, exported, trying, faults>>

\* A built-in layout to start from, or a text that extends one; IDM_CLEAR leaves an empty text.
NewFromBuiltin ==
    /\ Turn
    /\ \E t \in {"good", "bad"} : SetEditText(t)
    /\ curFile' = "none" /\ told' = "nothing"
    /\ UNCHANGED <<work, installed, exported, trying, faults>>

\* Save asks for a name when there is none; Save As always.
DoSave(f) ==
    /\ Turn
    /\ \E w \in Writes :
          /\ work' = [work EXCEPT ![f] = WriteFileUtf8FromEdit(@, w)]
          /\ curFile' = IF w = "refused" THEN curFile ELSE f
          /\ told' = IF w = "refused" THEN "failed" ELSE "nothing"
          /\ Charge(w)
    /\ UNCHANGED <<text, installed, exported, trying>>

TryThisFile ==
    /\ Turn
    /\ \E w \in Writes :
          /\ trying' = IF CheckEditor(w) THEN text ELSE trying
          /\ told' = IF CheckEditor(w) THEN "nothing" ELSE "failed"
          /\ Charge(w)
    /\ UNCHANGED <<text, curFile, work, installed, exported>>

\* The text is saved first, whether or not that works; the command then reads the file.
ExportExpanded ==
    /\ Turn /\ curFile # "none"
    /\ \E w \in Writes :
          LET saved == WriteFileUtf8FromEdit(work[curFile], w)
          IN  /\ work' = [work EXCEPT ![curFile] = saved]
              /\ exported' = IF Klay_LoadEx(saved, TRUE) THEN saved ELSE exported
              /\ told' = IF Klay_LoadEx(saved, TRUE) THEN "exported" ELSE "failed"
              /\ Charge(w)
    /\ UNCHANGED <<text, curFile, installed, trying>>

\* A wrong order: the file is saved and copied, the check only speaks.
InstallUnchecked(w, replaces) ==
    LET saved == WriteFileUtf8FromEdit(work[curFile], w)
    IN  /\ curFile # "none"
        /\ work' = [work EXCEPT ![curFile] = saved]
        /\ installed' = [installed EXCEPT ![curFile] = saved]
        /\ told' = "installed"

\* Checked, then saved, then copied as a whole beside the target and renamed.
InstallChecked(w, replaces) ==
    LET saved == WriteFileUtf8FromEdit(work[curFile], w)
        copies == w # "refused" /\ (installed[curFile] = "absent" \/ replaces)
    IN  /\ curFile # "none" /\ CheckEditor("done")
        /\ work' = [work EXCEPT ![curFile] = saved]
        /\ installed' = [installed EXCEPT ![curFile] = IF copies THEN saved ELSE @]
        /\ told' = IF copies THEN "installed" ELSE IF w = "refused" THEN "failed" ELSE "nothing"

InstallToMyLayouts ==
    /\ Turn
    /\ \E w \in Writes, replaces \in BOOLEAN : InstallChecked(w, replaces) /\ Charge(w)
    /\ UNCHANGED <<text, curFile, exported, trying>>

Next ==
    \/ \E f \in Files : DoOpen(f) \/ DoSave(f)
    \/ \E t \in Texts : Edit(t)
    \/ NewFromBuiltin \/ TryThisFile \/ ExportExpanded \/ InstallToMyLayouts

Spec == Init /\ [][Next]_vars

------------------------------------------------------------------------------

\* Only a text that loaded where it was edited is ever installed: that text, or what a full
\* disk left of it, since nobody asks whether the file saved before the copy is whole.
InstalledWasChecked == \A f \in Files : installed[f] \in {"absent", "good", "relative", "torn"}

\* What is installed loads where it is installed.
InstalledLoads == \A f \in Files : installed[f] # "absent" => Klay_LoadEx(installed[f], FALSE)
==============================================================================

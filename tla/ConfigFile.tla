----------------------------- MODULE ConfigFile -----------------------------
(***************************************************************************)
(* The settings file shared by every process that has the input method     *)
(* loaded (config.c).  A save reads the lines it does not know, writes all *)
(* of them and its own values in a temporary file and moves that over the  *)
(* settings file; after an upgrade an old and a newer version do so side   *)
(* by side.  A file is its sections, a section the sequence of its lines,  *)
(* a line the pair of a key and a value.  The newer version is not in this *)
(* repository: it is the same program with more keys.                      *)
(***************************************************************************)
EXTENDS Integers, Sequences, FiniteSets

CONSTANTS
    Procs,      \* the processes
    Newer,      \* those among them that run the later version
    KeepMax,    \* KEEP_MAX: unknown lines carried over per section
    MaxSaves,   \* bound on the saves of a behaviour
    MaxEdits    \* bound on the changes made in settings windows

ConfigFileAssumption ==
    /\ Newer \subseteq Procs
    /\ KeepMax \in Nat \ {0} /\ MaxSaves \in Nat /\ MaxEdits \in Nat

VARIABLES
    file,     \* the settings file: section -> lines
    temps,    \* the temporary files: name -> the sections written so far
    cfg,      \* the configuration in memory: process -> key -> value
    pc,       \* where a process is in a save
    kept,     \* the unknown lines it carries: section -> lines
    basis,    \* the file it read them from (history)
    saves, edits

vars == <<file, temps, cfg, pc, kept, basis, saves, edits>>

Sections == {"Shortcuts", "Options", "LayoutOptions", "other"}

\* One key for each way a line is treated.
SectionOf == [rotate |-> "Shortcuts", fullWidth |-> "Options", newOption |-> "Options",
              sentence |-> "LayoutOptions", fuzzy |-> "LayoutOptions",
              newSection |-> "other"]
KeysInOrder == <<"rotate", "fullWidth", "newOption", "sentence", "fuzzy", "newSection">>
Keys == DOMAIN SectionOf
KeysIn(s) == {k \in Keys : SectionOf[k] = s}
Values == {0, 1}

NewKeys == {"newOption", "newSection"}
Written(p) == IF p \in Newer THEN Keys ELSE Keys \ NewKeys

\* What a save takes for its own and therefore does not carry over.  Of the choices
\* of a layout only two are recognised (OursLayoutOptions), whatever is written.
Ours(p) == Written(p) \ {"fuzzy"}

Default == [k \in Keys |-> IF k = "fuzzy" THEN 0 ELSE 1]

\* Some of a sequence in its order: what is at those places, the n-th place by its rank.
Rank(places, i) == Cardinality({j \in places : j <= i})
Nth(places, n) == CHOOSE i \in places : Rank(places, i) = n
Chosen(seq, places) == [n \in 1..Cardinality(places) |-> seq[Nth(places, n)]]
Having(lines, keys) == Chosen(lines, {i \in 1..Len(lines) : lines[i].key \in keys})

------------------------------------------------------------------------------
(* Reading *)

LastValue(lines, k, else) ==
    LET at == {i \in 1..Len(lines) : lines[i].key = k}
    IN  IF at = {} THEN else
        ELSE lines[CHOOSE i \in at : \A j \in at : j <= i].val

\* A rotation list of no key is not taken over: layouts could not be changed any more.
LoadedShortcuts(lines) == LET n == LastValue(lines, "rotate", 0)
                          IN  IF n > 0 THEN n ELSE Default["rotate"]

Loaded(p) == [k \in Written(p) |->
    IF k = "rotate" THEN LoadedShortcuts(file["Shortcuts"])
    ELSE LastValue(file[SectionOf[k]], k, Default[k])]

KeepAdd(lines) == IF Len(lines) > KeepMax THEN SubSeq(lines, 1, KeepMax) ELSE lines

\* A wrong ReadUnknown: every key of a known section is taken for our own.
UnknownSectionsOnly(p) == [s \in Sections |->
    IF s = "other" THEN KeepAdd(Having(file[s], Keys \ Ours(p))) ELSE <<>>]

\* ReadUnknown: the lines of known sections that are not ours, other sections whole
\* (the newer version knows that section; its line is its own).
Unknown(p) == [s \in Sections |-> KeepAdd(Having(file[s], Keys \ Ours(p)))]

------------------------------------------------------------------------------
(* Writing *)

\* Own lines in a fixed order, then the ones carried over.
OwnLines(p, s) ==
    LET order == Chosen(KeysInOrder, {i \in DOMAIN KeysInOrder :
                                         KeysInOrder[i] \in Written(p) \cap KeysIn(s)})
    IN  [i \in 1..Len(order) |-> [key |-> order[i], val |-> cfg[p][order[i]]]]

Saved(p, sections) == [s \in sections |-> OwnLines(p, s) \o kept[p][s]]

\* A wrong temporary name: the same for all processes.
OneTempName(p) == "tmp"

TempName(p) == p
NoLines == [s \in Sections |-> <<>>]

Init ==
    /\ file = NoLines
    /\ temps = <<>>
    /\ cfg = [p \in Procs |-> [k \in Written(p) |-> Default[k]]]
    /\ pc = [p \in Procs |-> "idle"]
    /\ kept = [p \in Procs |-> NoLines]
    /\ basis = [p \in Procs |-> NoLines]
    /\ saves = 0 /\ edits = 0

PutTemp(name, content) == temps' = [n \in DOMAIN temps \cup {name} |->
                                        IF n = name THEN content ELSE temps[n]]
DropTemp(name) == temps' = [n \in DOMAIN temps \ {name} |-> temps[n]]

\* The host process starts the input method again, after an exit or a crash; a
\* temporary file of a save that was under way stays behind.
Load(p) ==
    /\ cfg' = [cfg EXCEPT ![p] = Loaded(p)]
    /\ pc' = [pc EXCEPT ![p] = "idle"]
    /\ kept' = [kept EXCEPT ![p] = NoLines] /\ basis' = [basis EXCEPT ![p] = NoLines]
    /\ UNCHANGED <<file, temps, saves, edits>>

\* A change made in the settings window and applied.
Edit(p, k, v) ==
    /\ pc[p] = "idle" /\ edits < MaxEdits /\ edits' = edits + 1
    /\ cfg' = [cfg EXCEPT ![p][k] = v]
    /\ UNCHANGED <<file, temps, pc, kept, basis, saves>>

ReadUnknown(p) ==
    /\ pc[p] = "idle" /\ saves < MaxSaves /\ saves' = saves + 1
    /\ kept' = [kept EXCEPT ![p] = Unknown(p)]
    /\ basis' = [basis EXCEPT ![p] = file]
    /\ pc' = [pc EXCEPT ![p] = "open"]
    /\ UNCHANGED <<file, temps, cfg, edits>>

\* The temporary file is created or truncated; if that fails nothing has changed.
AtomicOpen(p) ==
    /\ pc[p] = "open"
    /\ \/ pc' = [pc EXCEPT ![p] = "first"] /\ PutTemp(TempName(p), <<>>)
       \/ pc' = [pc EXCEPT ![p] = "idle"] /\ UNCHANGED temps
    /\ UNCHANGED <<file, cfg, kept, basis, saves, edits>>

\* The stream reaches the disk in parts; another process may open, write or commit between.
WriteFirst(p) ==
    /\ pc[p] = "first"
    /\ PutTemp(TempName(p), Saved(p, {"Shortcuts", "Options"}))
    /\ pc' = [pc EXCEPT ![p] = "rest"]
    /\ UNCHANGED <<file, cfg, kept, basis, saves, edits>>

WriteRest(p) ==
    /\ pc[p] = "rest" /\ TempName(p) \in DOMAIN temps
    /\ PutTemp(TempName(p), Saved(p, Sections))
    /\ pc' = [pc EXCEPT ![p] = "commit"]
    /\ UNCHANGED <<file, cfg, kept, basis, saves, edits>>

\* Flush, commit to disk, close and move: any failure removes the temporary file.
AtomicCommit(p) ==
    /\ pc[p] = "commit"
    /\ IF TempName(p) \in DOMAIN temps
       THEN /\ \/ file' = temps[TempName(p)]
               \/ UNCHANGED file
            /\ DropTemp(TempName(p))
       ELSE UNCHANGED <<file, temps>>
    /\ pc' = [pc EXCEPT ![p] = "idle"]
    /\ kept' = [kept EXCEPT ![p] = NoLines] /\ basis' = [basis EXCEPT ![p] = NoLines]
    /\ UNCHANGED <<cfg, saves, edits>>

Next == \E p \in Procs :
    \/ Load(p) \/ ReadUnknown(p) \/ AtomicOpen(p) \/ WriteFirst(p) \/ WriteRest(p)
    \/ AtomicCommit(p)
    \/ \E k \in Written(p), v \in Values : Edit(p, k, v)

Spec == Init /\ [][Next]_vars

------------------------------------------------------------------------------
(* Properties *)

\* Whoever saves, fails or dies in a save, the settings file is one complete save: it
\* never is half of one (AtomicOpen, AtomicCommit; the temporary names differ by process).
FileIsWhole == DOMAIN file = Sections

LinesOf(f, k) == Having(f[SectionOf[k]], {k})

\* A save over the file it read leaves every line of a key of another version as it was,
\* the later version's settings survive a save of the old one, and each key of its own that
\* it recognises is there once, with its value (ReadUnknown, WriteKept).
SaveKeepsAndWins ==
    \A p \in Procs :
    pc[p] = "commit" /\ pc'[p] = "idle" /\ file' # file /\ basis[p] = file =>
        /\ \A k \in Keys \ Written(p) : LinesOf(file', k) = LinesOf(file, k)
        /\ \A k \in Ours(p) : LinesOf(file', k) = <<[key |-> k, val |-> cfg[p][k]]>>

\* A restart of a process that has saved brings back what it had: config.c:640, "the value
\* of this version always wins for the keys this version writes".
OurValuesWin ==
    \A p \in Procs :
    pc[p] = "commit" /\ pc'[p] = "idle" /\ file' # file =>
        \A k \in Written(p) \ {"rotate"} :
            LastValue(file'[SectionOf[k]], k, Default[k]) = cfg[p][k]
=============================================================================

----------------------------- MODULE LayoutBuild -----------------------------
(***************************************************************************)
(* Built layouts (jlay_build.c, jlay.c).  A layout source x.jmt is compiled *)
(* into x.v<format>.jmb and the input method reads only that file.  The     *)
(* manager and the setup program build what is missing or stale; programs   *)
(* of several versions live side by side, each reading its own format; an   *)
(* application lists a layout from the header and reads the body at the     *)
(* first use.  A builder may die at any point, and the user may edit the    *)
(* source at any point.                                                     *)
(***************************************************************************)
EXTENDS Integers, Sequences, FiniteSets

CONSTANTS
    Formats,    \* the format versions of the programs, consecutive naturals
    Kinds,      \* the kinds of layout: "static", "hangul", "chord", "sequence"
    MaxEdits,   \* bound on the edits of the source
    MaxDeaths   \* bound on the builders that die

LayoutBuildAssumption ==
    /\ Formats \subseteq Nat /\ Kinds # {} /\ MaxEdits \in Nat /\ MaxDeaths \in Nat

VARIABLES
    source,     \* the source file: its kind and how often it was edited
    built,      \* built[f]: the file of format f, Missing or [text, stamp, whole]
    program,    \* the format of the installed program
    builder,    \* what the running builder holds
    entry,      \* entry[f]: the layout in the list of an application with a program of format f
    died

vars == <<source, built, program, builder, entry, died>>

Missing == [whole |-> FALSE]
Idle == [at |-> "idle"]

------------------------------------------------------------------------------
(* What the files say *)

\* The header is read by hand: the stamp decides, not the length or the checksum.
IsStale(file) == ~(file # Missing /\ file.stamp = source.edits)

\* ReadWhole, the magic and the version (the name holds it), the lengths and the checksum.
Readable(file) == file.whole

------------------------------------------------------------------------------
(* Building *)

\* A wrong pruning: the build the program before this one reads goes too.
PruneAll(f) == [g \in Formats |-> IF g < f THEN Missing ELSE built[g]]

\* Builds two formats back or more; a cut file has its header already.
PruneOldBuilds(f) == [g \in Formats |-> IF g + 1 < f THEN Missing ELSE built[g]]

\* BuildDir up to the load of the source: one file of the folder.  A source with
\* errors is not built.
StartBuild ==
    /\ builder = Idle
    /\ built' = PruneOldBuilds(program)
    /\ \/ /\ IsStale(built[program])
          /\ builder' = [at |-> "loaded", by |-> program, text |-> source]
       \/ builder' = Idle
    /\ UNCHANGED <<source, program, entry, died>>

\* The stamp is taken after the load; then _wfopen "wb" empties the file.
OpenOutput ==
    /\ builder.at = "loaded"
    /\ built' = [built EXCEPT ![builder.by] =
                    [text |-> builder.text, stamp |-> source.edits, whole |-> FALSE]]
    /\ builder' = [builder EXCEPT !.at = "writing"]
    /\ UNCHANGED <<source, program, entry, died>>

CloseOutput ==
    /\ builder.at = "writing"
    /\ \/ built' = [built EXCEPT ![builder.by].whole = TRUE]
       \/ built' = [built EXCEPT ![builder.by] = Missing]     \* a failed write is removed
    /\ builder' = Idle
    /\ UNCHANGED <<source, program, entry, died>>

\* The process ends between the fwrite and the fclose, or before them.
Die ==
    /\ builder # Idle /\ died < MaxDeaths
    /\ died' = died + 1
    /\ builder' = Idle
    /\ UNCHANGED <<source, built, program, entry>>

------------------------------------------------------------------------------
(* The others *)

\* The user saves another text, perhaps of another kind.
Edit ==
    /\ source.edits < MaxEdits
    /\ \E k \in Kinds : source' = [kind |-> k, edits |-> source.edits + 1]
    /\ UNCHANGED <<built, program, builder, entry, died>>

\* A newer program is installed; the applications that are open keep the old one.
Upgrade ==
    /\ program + 1 \in Formats
    /\ program' = program + 1
    /\ UNCHANGED <<source, built, builder, entry, died>>

NotListed == [listed |-> FALSE]

\* JLay_LoadHeader while the folder is scanned at the start of an application.
ListLayout(f) ==
    /\ f <= program
    /\ entry' = [entry EXCEPT ![f] =
          IF Readable(built[f])
          THEN [listed |-> TRUE, kind |-> built[f].text.kind, body |-> {}]
          ELSE NotListed]
    /\ UNCHANGED <<source, built, program, builder, died>>

\* A wrong deferred load: it does not ask whether the file is another by now.
TakeAnyBody(f) == TRUE

SameKind(f) == built[f].text.kind = entry[f].kind

\* JLay_LoadDeferredBody at the first use; the entry keeps its kind and its name.
LoadDeferredBody(f) ==
    /\ entry[f].listed /\ entry[f].body = {}
    /\ Readable(built[f]) /\ SameKind(f)
    /\ entry' = [entry EXCEPT ![f].body = {built[f].text}]
    /\ UNCHANGED <<source, built, program, builder, died>>

------------------------------------------------------------------------------

Init ==
    /\ source \in [kind : Kinds, edits : {0}]
    /\ built = [f \in Formats |-> Missing]
    /\ program = CHOOSE f \in Formats : \A g \in Formats : f <= g
    /\ builder = Idle
    /\ entry = [f \in Formats |-> NotListed]
    /\ died = 0

Next ==
    \/ StartBuild \/ OpenOutput \/ CloseOutput \/ Die \/ Edit \/ Upgrade
    \/ \E f \in Formats : ListLayout(f) \/ LoadDeferredBody(f)

Spec == Init /\ [][Next]_vars

------------------------------------------------------------------------------
(* Properties *)

(* A body that joins the list later is of the kind the list dispatches on: *)
(* the automaton never reads a chord table as a Hangul layout, whatever the *)
(* folder went through in between (JLay_LoadDeferredBody).                  *)
BodyFitsItsKind ==
    \A f \in Formats : entry[f].listed => \A b \in entry[f].body : b.kind = entry[f].kind

(* The build that the applications of the version before still read stays:  *)
(* a step removes a whole build of the program's format or of the one before *)
(* it only by writing that very file again (PruneOldBuilds).                 *)
OldProgramsKeepTheirBuild ==
    \A f \in Formats :
        Readable(built[f]) /\ ~Readable(built'[f]) /\ f + 1 >= program => builder.at = "loaded"

(* "이미 성한 산출물이 있으면 그대로 둔다" (jlay_build.c:255): a build that is    *)
(* left as it is, is a whole one.                                            *)
WhatIsKeptIsWhole ==
    \A f \in Formats : builder = Idle /\ ~IsStale(built[f]) => Readable(built[f])
==============================================================================

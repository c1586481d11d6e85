----------------------------- MODULE JamoStream -----------------------------
(***************************************************************************)
(* What a Hangul composer promises, whatever its tables are: the letters   *)
(* the user types come out once each, in the order they were typed.  Some  *)
(* are still pending in the composition, the rest have been emitted.  The  *)
(* only letters a composer may drop are those of a final consonant typed   *)
(* where no syllable can carry it.                                         *)
(***************************************************************************)
EXTENDS Sequences, SequencesExt

VARIABLES
    input,         \* the step's request: [op, word, final]
    pending,       \* letters still in the composition
    emitted        \* letters the step handed to the application

streamVars == <<input, pending, emitted>>

StreamInit == pending = <<>> /\ emitted = <<>>

\* A typed word extends the pending letters and may push a prefix of them out.
TypeWord == input'.op = "type" /\ emitted' \o pending' = pending \o input'.word

\* A final that fits nowhere is lost, but it still ends the composition.
DropFinal == /\ input'.op = "type" /\ input'.final
             /\ emitted' = pending
             /\ pending' = <<>>

FlushPending == input'.op = "flush" /\ emitted' = pending /\ pending' = <<>>

Erase == /\ input'.op = "erase"
         /\ emitted' = <<>>
         /\ IF pending = <<>> THEN pending' = <<>> ELSE IsStrictPrefix(pending', pending)

StreamNext == TypeWord \/ DropFinal \/ FlushPending \/ Erase

StreamSpec == StreamInit /\ [][StreamNext]_streamVars
=============================================================================

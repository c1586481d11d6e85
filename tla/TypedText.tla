------------------------------ MODULE TypedText ------------------------------
(***************************************************************************)
(* What a user may expect of composing: a syllable that is typed joins the *)
(* end of its document, stays there however it is composed, confirmed or   *)
(* redrawn, and only the last one can be taken back.                       *)
(***************************************************************************)
EXTENDS Sequences, SequencesExt, Functions

CONSTANTS Docs,      \* the documents
          Syllables

VARIABLE text        \* text[d]: what stands in d

Init == text = [d \in Docs |-> <<>>]

Type(d, u) == /\ \A c \in Docs : u \notin Range(text[c])
              /\ text' = [text EXCEPT ![d] = Append(@, u)]
Erase(d, u) == /\ text[d] # <<>> /\ Last(text[d]) = u
               /\ text' = [text EXCEPT ![d] = Front(@)]

Next == \E d \in Docs, u \in Syllables : Type(d, u) \/ Erase(d, u)
Spec == Init /\ [][Next]_text
==============================================================================

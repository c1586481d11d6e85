---------------------------- MODULE LayoutBundle ----------------------------
(***************************************************************************)
(* An exported settings file carries the user's layout files (config.c):   *)
(* the name with '%' and ']' encoded, every line of the body behind a      *)
(* space, a sentinel at the end.  Import reads them back.  Both read lines  *)
(* with a buffer of LineCap characters (512 in the code), so a longer line *)
(* comes in pieces.  A text is a sequence of characters; "n" is the end of *)
(* a line and "E" stands for the text of the sentinel, [EndLayoutFile].    *)
(***************************************************************************)
EXTENDS Integers, Sequences, SequencesExt

CONSTANTS
    Names,    \* the layout file names tried, sequences of characters
    Texts,    \* the layout files tried
    LineCap   \* the size of the line buffer, with its terminating zero

LayoutBundleAssumption == LineCap \in Nat /\ LineCap > 2

VARIABLES
    store,    \* the user's layout file: its name and text
    bundle,   \* what the export wrote of it
    staged,   \* the files the import put in the staging folder
    phase

vars == <<store, bundle, staged, phase>>

------------------------------------------------------------------------------
(* Names *)

HexOf == [c \in {"%", "]"} |-> IF c = "%" THEN <<"2", "5">> ELSE <<"5", "D">>]

EncodeLayoutName(name) ==
    FlattenSeq([i \in 1..Len(name) |->
        IF name[i] \in DOMAIN HexOf THEN <<"%">> \o HexOf[name[i]] ELSE <<name[i]>>])

\* Any two hexadecimal digits after a '%' are one character; those that are no
\* letter of this model become "?".
Hex == {"2", "5", "D"}
Decoded(a, b) == IF \E c \in DOMAIN HexOf : HexOf[c] = <<a, b>>
                 THEN CHOOSE c \in DOMAIN HexOf : HexOf[c] = <<a, b>> ELSE "?"

DecodeLayoutName(s) ==
    LET from[i \in 1..Len(s) + 1] ==
            IF i > Len(s) THEN <<>>
            ELSE IF s[i] = "%" /\ i + 2 <= Len(s) /\ {s[i + 1], s[i + 2]} \subseteq Hex
            THEN <<Decoded(s[i + 1], s[i + 2])>> \o from[i + 3]
            ELSE <<s[i]>> \o from[i + 1]
    IN  from[1]

\* A base name without separators or wildcards.
IsSafeLayoutFileName(name) == name # <<>> /\ \A i \in 1..Len(name) : name[i] \notin {"/", "?"}

------------------------------------------------------------------------------
(* Lines *)

\* What successive calls of fgets return: up to LineCap - 1 characters, up to a line end.
Pieces(text) ==
    LET ends(i) == {j \in i..Len(text) : text[j] = "n" \/ j - i = LineCap - 2 \/ j = Len(text)}
        from[i \in 1..Len(text) + 1] ==
            IF i > Len(text) THEN <<>>
            ELSE LET j == CHOOSE k \in ends(i) : \A l \in ends(i) : k <= l
                 IN  <<SubSeq(text, i, j)>> \o from[j + 1]
    IN  from[1]

TrimCrLf(piece) == IF piece # <<>> /\ Last(piece) = "n" THEN Front(piece) ELSE piece

EndMark == <<"E">>

\* A wrong body: the lines as they are.
Unmarked(text) == FlattenSeq([i \in 1..Len(Pieces(text)) |-> TrimCrLf(Pieces(text)[i]) \o <<"n">>])

Marked(text) ==
    FlattenSeq([i \in 1..Len(Pieces(text)) |-> <<" ">> \o TrimCrLf(Pieces(text)[i]) \o <<"n">>])

BundleUserLayouts ==
    IF IsSafeLayoutFileName(store.name)
    THEN <<[name |-> EncodeLayoutName(store.name),
            body |-> Marked(store.text) \o EndMark \o <<"n">>]>>
    ELSE <<>>

\* The body up to the first piece that is the sentinel, each line without its marker.
Unmark(body) ==
    LET pieces == Pieces(body)
        ends   == {i \in 1..Len(pieces) : TrimCrLf(pieces[i]) = EndMark}
        last   == IF ends = {} THEN Len(pieces) ELSE (CHOOSE i \in ends : \A j \in ends : i <= j) - 1
        line(i) == LET l == TrimCrLf(pieces[i])
                   IN  IF l # <<>> /\ Head(l) = " " THEN Tail(l) ELSE l
    IN  FlattenSeq([i \in 1..last |-> line(i) \o <<"n">>])

------------------------------------------------------------------------------

Init ==
    /\ store \in [name : Names, text : Texts]
    /\ bundle = <<>> /\ staged = {} /\ phase = "idle"

Export == phase = "idle" /\ phase' = "exported" /\ bundle' = BundleUserLayouts
          /\ UNCHANGED <<store, staged>>

\* A restored file may exist already in the staging folder: it is not written over; a
\* write that fails leaves no file.
Import ==
    /\ phase = "exported" /\ phase' = "imported"
    /\ \/ staged' = {[name |-> DecodeLayoutName(b.name), text |-> Unmark(b.body)] :
                        b \in {c \in ToSet(bundle) : IsSafeLayoutFileName(DecodeLayoutName(c.name))}}
       \/ UNCHANGED staged
    /\ UNCHANGED <<store, bundle>>

Next == Export \/ Import

Spec == Init /\ [][Next]_vars

------------------------------------------------------------------------------

WithEnd(text) == IF text = <<>> \/ Last(text) = "n" THEN text ELSE Append(text, "n")

LinesFit(text) == \A i \in 1..Len(Pieces(text)) : Len(TrimCrLf(Pieces(text)[i])) < LineCap - 2

\* A file that comes out of the bundle has the name and the lines it went in with, even
\* if a line looks like the sentinel or the name like an escape, as long as its lines are
\* at least two characters shorter than the buffer.
RestoredAsExported ==
    LinesFit(store.text) =>
        staged \subseteq {[name |-> store.name, text |-> WithEnd(store.text)]}
=============================================================================

----------------------------- MODULE EditControl -----------------------------
(***************************************************************************)
(* Reading, selecting and replacing text in a control by its messages      *)
(* (edit_session.c, edit_verdict.c), the way that is left for programs      *)
(* which do not show their text to TSF.  A control counts positions in      *)
(* letters or in bytes and does not say which.  The control is external;    *)
(* its text is a sequence of letters, "w" wide and "n" narrow ones.         *)
(***************************************************************************)
EXTENDS Naturals, Sequences, FiniteSets

CONSTANTS Controls,   \* [class, ex, get, bytes, writable]: see Control
          Texts,      \* what stands in the control
          Strings,    \* words that are looked for, and texts that are put
          MaxLen,     \* 16: letters a dictionary is asked for
          MaxText     \* bound: letters in a control

Widths == {"w", "n"}
EditControlAssumption ==
  /\ {MaxLen, MaxText} \subseteq Nat
  /\ Texts \cup Strings \subseteq Seq(Widths) /\ <<>> \notin Strings
  /\ \A c \in Controls : c.bytes \in Nat \ {0}

(* A control: its class (EDIT, Scintilla, another); whether it answers      *)
(* EM_EXGETSEL and EM_GETSELTEXT, and EM_GETSEL; the positions a wide        *)
(* letter counts for; whether it takes text                                 *)
Control(class, ex, get, bytes, writable) ==
  [class |-> class, ex |-> ex, get |-> get, bytes |-> bytes, writable |-> writable]

VARIABLES control,    \* the control that has the focus
          ctlText,    \* its text
          ctlSel,     \* its selection, [from, to] in letters
          result      \* the last operation, its word, the text and the caret then, the answer
editVars == <<control, ctlText, ctlSel, result>>

-----------------------------------------------------------------------------
(* The control *)

Wide(t, i) == Cardinality({j \in 1..i : t[j] = "w"})
Pos(t, i) == i + (control.bytes - 1) * Wide(t, i)
CtlSelected == SubSeq(ctlText, ctlSel.from + 1, ctlSel.to)
(* A position inside a letter is taken back to its beginning *)
Edge(p) == CHOOSE i \in 0..Len(ctlText) :
             Pos(ctlText, i) <= p /\ (i < Len(ctlText) => Pos(ctlText, i + 1) > p)
CtlSetSel(p, q) == [from |-> Edge(p), to |-> Edge(q)]

-----------------------------------------------------------------------------
(* Reading *)

(* Where a selection is, as the message that is answered tells it *)
ReadSelSnap(t, s) ==
  IF control.ex \/ control.get THEN <<Pos(t, s.from), Pos(t, s.to)>> ELSE <<>>

(* Bytes of the code page, converted: the letters or nothing *)
ReadSelViaScintilla(s) ==
  IF control.class = "scintilla" /\ s.to - s.from <= MaxLen
  THEN SubSeq(ctlText, s.from + 1, s.to) ELSE <<>>
(* The control copies what is selected itself *)
ReadSelViaRichEdit(s) ==
  IF control.ex /\ Pos(ctlText, s.to) - Pos(ctlText, s.from) <= MaxLen
  THEN SubSeq(ctlText, s.from + 1, s.to) ELSE <<>>
(* The positions of the selection, taken for letters of the window's text *)
ReadSelViaEdit(s) ==
  LET from == Pos(ctlText, s.from)
      to == Pos(ctlText, s.to)
  IN  IF control.get /\ to - from <= MaxLen /\ to <= Len(ctlText)
      THEN SubSeq(ctlText, from + 1, to) ELSE <<>>
ReadSelFromCtl(s) ==
  CASE ReadSelViaScintilla(s) # <<>> -> ReadSelViaScintilla(s)
    [] ReadSelViaScintilla(s) = <<>> /\ ReadSelViaRichEdit(s) # <<>> -> ReadSelViaRichEdit(s)
    [] OTHER -> ReadSelViaEdit(s)

Answered(did, word, ok) ==
  result' = [did |-> did, word |-> word, was |-> ctlText, caret |-> Pos(ctlText, ctlSel.to), ok |-> ok]

EditCtl_ReadSelection ==
  /\ ctlSel.from < ctlSel.to
  /\ Answered("read", ReadSelFromCtl(ctlSel), ReadSelFromCtl(ctlSel) # <<>>)
  /\ UNCHANGED <<control, ctlText, ctlSel>>

-----------------------------------------------------------------------------
(* Selecting *)

(* Only a control of the EDIT family that answers *)
EditCtl_FocusEditWindow == control.class = "edit" /\ ReadSelSnap(ctlText, ctlSel) # <<>>

(* As many positions as the word has letters, then twice as many: the first  *)
(* that reads as the word.  A mutant believes the first.                     *)
Believed(word, caret) == {m \in {1} : Len(word) <= caret}
Matches(word, caret) ==
  {m \in {1, 2} : /\ Len(word) * m <= caret
                  /\ ReadSelFromCtl(CtlSetSel(caret - Len(word) * m, caret)) = word}
EditCtl_SelectWordBeforeCaret(word) ==
  LET caret == Pos(ctlText, ctlSel.to)
      span == Len(word) * (IF 1 \in Matches(word, caret) THEN 1 ELSE 2)
  IN  /\ EditCtl_FocusEditWindow /\ ctlSel.from = ctlSel.to /\ caret > 0
      /\ ctlSel' = IF Matches(word, caret) = {} THEN CtlSetSel(caret, caret)
                ELSE CtlSetSel(caret - span, caret)
      /\ Answered("select", word, Matches(word, caret) # {})
      /\ UNCHANGED <<control, ctlText>>

EditCtl_CollapseSelectionToEnd ==
  /\ EditCtl_FocusEditWindow /\ ctlSel.from < ctlSel.to
  /\ ctlSel' = [ctlSel EXCEPT !.from = ctlSel.to]
  /\ result' = [result EXCEPT !.did = "nothing"]
  /\ UNCHANGED <<control, ctlText>>

-----------------------------------------------------------------------------
(* Replacing *)

(* EM_REPLACESEL answers nothing: it has failed for certain only if the      *)
(* selection is where it was.  A mutant looks at its end alone.              *)
SameEnd(before, after, put) == before # <<>> /\ before[2] = after[2]
EditVerdict_Decide(before, after, put) == before # <<>> /\ before = after

(* A control takes the text, only its beginning (a limit), or nothing *)
Took(put) == IF control.writable THEN {put, <<Head(put)>>} ELSE {}
EditCtl_ReplaceSelection(put) ==
  /\ EditCtl_FocusEditWindow
  /\ \/ /\ Took(put) = {} /\ UNCHANGED <<ctlText, ctlSel>>
     \/ \E took \in Took(put) :
          LET head == SubSeq(ctlText, 1, ctlSel.from) \o took
          IN  /\ ctlText' = head \o SubSeq(ctlText, ctlSel.to + 1, Len(ctlText))
              /\ ctlSel' = [from |-> Len(head), to |-> Len(head)]
  /\ Len(ctlText') <= MaxText
  /\ Answered("replace", put,
           ~EditVerdict_Decide(ReadSelSnap(ctlText, ctlSel), ReadSelSnap(ctlText', ctlSel'), put))
  /\ UNCHANGED control

-----------------------------------------------------------------------------
(* The user selects, or sets the caret *)
UserSelects ==
  /\ \E f, t \in 0..Len(ctlText) : f <= t /\ ctlSel' = [from |-> f, to |-> t]
  /\ result' = [result EXCEPT !.did = "nothing"]
  /\ UNCHANGED <<control, ctlText>>

EditInit == /\ control \in Controls /\ ctlText \in Texts
            /\ ctlSel = [from |-> 0, to |-> 0]
            /\ result = [did |-> "nothing", word |-> <<>>, was |-> <<>>, caret |-> 0, ok |-> FALSE]
EditNext == \/ EditCtl_ReadSelection \/ EditCtl_CollapseSelectionToEnd \/ UserSelects
            \/ \E word \in Strings : \/ EditCtl_SelectWordBeforeCaret(word)
                                   \/ EditCtl_ReplaceSelection(word)
EditSpec == EditInit /\ [][EditNext]_editVars

-----------------------------------------------------------------------------
(* A control that copies its selection itself, or, in the text that stands   *)
(* there, counts as it does letters                                          *)
ReadsExactly ==
  control.class = "scintilla" \/ control.ex \/ Pos(ctlText, Len(ctlText)) = Len(ctlText)

(* The word that is said to be selected is the one right before the caret,   *)
(* and when none is, nothing is selected and the caret is where it was; a    *)
(* text is read whole or not at all; and a replacement that is called a      *)
(* failure left the text alone, so that writing the text again by another    *)
(* way does not write it twice (edit_session.c, SelectWordBeforeCaret and    *)
(* ReplaceSelection).  What a plain EDIT control reads that counts bytes and *)
(* holds a wide letter is not the selection: of it only the rest is said.    *)
OnlyWhatWasChecked ==
  /\ result.did = "select" =>
       /\ ctlText = result.was
       /\ Pos(ctlText, ctlSel.to) = result.caret
       /\ ~result.ok => CtlSelected = <<>>
       /\ result.ok /\ ReadsExactly => CtlSelected = result.word
  /\ result.did = "read" /\ ReadsExactly => result.word \in {<<>>, CtlSelected}
  /\ result.did = "replace" /\ ~result.ok => ctlText = result.was
==============================================================================

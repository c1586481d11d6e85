-------------------------------- MODULE Hanja --------------------------------
(***************************************************************************)
(* Hanja conversion (text_service.c, edit_session.c, hanja_txn.c).  The     *)
(* Hanja key looks up the syllable that is composed, the selection, a       *)
(* hexadecimal code or the word before the caret, and shows the candidates  *)
(* in a window of this process, in the helper's window, or, where neither   *)
(* can be shown, as a cycle: each press puts in the next one.  The choice   *)
(* comes later; by then the caret, the selection or the focus may be        *)
(* elsewhere.  How the window itself behaves is SeqInput's matter.          *)
(***************************************************************************)
EXTENDS Integers, Sequences, FiniteSets

CONSTANTS
    Docs,       \* the documents
    Kinds,      \* what they are: "edit" (EM_ messages), "native" (TSF), "terminal"
    Reporting,  \* the kinds whose host tells of a moved caret or selection
    Hosts,      \* the hosts: records [appContainer, ownWindow, helper, cycle] of BOOLEANs
    Keys,       \* the characters a key types
    Hex,        \* those that are hexadecimal digits
    Chars,      \* the characters of the texts
    Dict,       \* the dictionaries: a word (a sequence) to its candidates
    MaxActs     \* bound on the keys that type, the clicks and the changes of the focus

NoDoc == "none"
HanjaAssumption ==
    /\ Docs # {} /\ NoDoc \notin Docs
    /\ Reporting \subseteq Kinds /\ Hex \subseteq Keys /\ Keys \cup {"U"} \subseteq Chars
    /\ DOMAIN Dict \subseteq Seq(Chars) \ {<<>>}
    /\ \A w \in DOMAIN Dict : Dict[w] \in Seq(Seq(Chars)) \ {<<>>}
    /\ MaxActs \in Nat
    /\ Kinds \subseteq {"edit", "native", "terminal"}

VARIABLES
    kind, host,  \* the documents and the process they are in; they do not change
    text,        \* text[d], and in sel[d] the selection [from, to], a caret when empty
    sel,
    focus,
    held,        \* the composed syllable, a sequence of length 0 or 1
    inline,      \* it is shown in the document by a TSF composition
    list,        \* the candidates that are shown and by whom
    cand,        \* candCtx: the context, the EDIT window, the word
    refs,        \* the references taken on contexts
    cycle,       \* hanjaCycle
    acts

hanjaVars == <<kind, host, text, sel, focus, held, inline, list, cand, refs, cycle, acts>>
setting == <<kind, host>>

NoList == [by |-> "nobody"]
NoCycle == [active |-> FALSE]
NoCand == [pic |-> NoDoc, hwnd |-> NoDoc, word |-> <<>>, fromSelection |-> FALSE]

------------------------------------------------------------------------------
(* The documents *)

Before(d) == SubSeq(text[d], 1, sel[d].from)
Selected(d) == SubSeq(text[d], sel[d].from + 1, sel[d].to)
Caret(n) == [from |-> n, to |-> n]

\* The characters from..to of d become str, with the caret after them.
Put(d, from, to, str) ==
    /\ text' = [text EXCEPT ![d] = SubSeq(@, 1, from) \o str \o SubSeq(@, to + 1, Len(@))]
    /\ sel' = [sel EXCEPT ![d] = Caret(from + Len(str))]

Untouched == UNCHANGED <<text, sel>>

\* CommitText, EM_REPLACESEL: in place of the selection; it may fail.
Insert(d, str) == Put(d, sel[d].from, sel[d].to, str)
CommitText(str) == Insert(focus, str) \/ Untouched

\* RequestReplaceSessionString: so many characters before the caret.
RequestReplaceSessionString(d, n, str) ==
    \/ /\ kind[d] # "terminal"
       /\ LET from == IF sel[d].from > n THEN sel[d].from - n ELSE 0
          IN  Put(d, from, sel[d].to, str)
    \/ Untouched

FocusEditWindow == IF kind[focus] = "edit" THEN focus ELSE NoDoc

EndsWith(s, word) == Len(word) <= Len(s) /\ SubSeq(s, Len(s) - Len(word) + 1, Len(s)) = word

------------------------------------------------------------------------------
(* Looking up *)

Found(word) == word \in DOMAIN Dict

\* The digits before the caret: 2 to 6 of them are a code.
HexDigits(s) ==
    CHOOSE n \in 0 .. Len(s) :
        /\ \A i \in Len(s) - n + 1 .. Len(s) : s[i] \in Hex
        /\ n < Len(s) => s[Len(s) - n] \notin Hex

\* The longest word before the caret.
WordsBefore(d) == {w \in DOMAIN Dict : kind[d] # "terminal" /\ EndsWith(Before(d), w)}
LongestBefore(d) ==
    CHOOSE w \in WordsBefore(d) : \A v \in WordsBefore(d) : Len(v) <= Len(w)

\* A wrong policy: what is composed is put in first wherever it is.
CommitAlways == IF held = <<>> THEN "from_document" ELSE "commit_then_replace"

HanjaTxn_Mode ==
    IF held = <<>> THEN "from_document"
    ELSE IF inline THEN "commit_then_replace" ELSE "hold_original"

\* What is asked for: the word, how many characters of the document it is, and
\* where it stands.
Asked ==
    CASE held # <<>> ->
            {[word |-> held, fromSelection |-> FALSE,
              len |-> IF HanjaTxn_Mode = "commit_then_replace" THEN 1 ELSE 0]}
      [] held = <<>> /\ Selected(focus) # <<>> ->
            {[word |-> Selected(focus), len |-> 0, fromSelection |-> TRUE]}
      [] OTHER ->
            {[word |-> w, len |-> Len(w), fromSelection |-> FALSE] :
                 w \in IF WordsBefore(focus) = {} THEN {} ELSE {LongestBefore(focus)}}

------------------------------------------------------------------------------
(* The choice *)

\* A wrong check: whatever is selected by now is taken.
AnySelection(d, word) == TRUE

SelectionStillValid(d, word) == Selected(d) = word

SelectWordBeforeCaret(d, word) ==
    Selected(d) = <<>> /\ word # <<>> /\ EndsWith(Before(d), word)

\* ApplyHanjaChoice without the final ResetComposition: c is candCtx.
Applied(c, str, len) ==
    IF c.fromSelection
    THEN IF c.hwnd # NoDoc
         THEN IF SelectionStillValid(c.hwnd, c.word)
              THEN Insert(c.hwnd, str) \/ Untouched
              ELSE Untouched
         ELSE CommitText(str)
    ELSE IF len > 0
    THEN IF c.hwnd # NoDoc /\ SelectWordBeforeCaret(c.hwnd, c.word)
         THEN Put(c.hwnd, sel[c.hwnd].from - Len(c.word), sel[c.hwnd].from, str) \/ Untouched
         ELSE RequestReplaceSessionString(c.pic, len, str)
    ELSE CommitText(str)

Acts == acts < MaxActs /\ acts' = acts + 1

ResetComposed == held' = <<>> /\ inline' = FALSE

ApplyHanjaChoice(c, str, len) == Applied(c, str, len) /\ ResetComposed

------------------------------------------------------------------------------
(* Showing the candidates *)

ReleaseCand == cand' = [cand EXCEPT !.pic = NoDoc] /\ refs' = refs - 1

\* The list, with the text of the document that a choice is to replace: a held
\* back syllable goes, like any typing, in place of the selection.
Shown(by, ask) ==
    [by |-> by, doc |-> focus, cands |-> Dict[ask.word], len |-> ask.len,
     fromSelection |-> ask.fromSelection,
     original |-> IF ask.len = 0 /\ ~ask.fromSelection THEN Selected(focus) ELSE ask.word]

NotHeld == IF HanjaTxn_Mode = "commit_then_replace" THEN ResetComposed
           ELSE UNCHANGED <<held, inline>>

RefsLeft == refs - (IF cand.pic # NoDoc THEN 1 ELSE 0)    \* after the defensive release

OwnWindow(ask, c) ==
    /\ list' = Shown("own", ask) /\ cand' = c /\ refs' = RefsLeft + 1
    /\ NotHeld /\ Untouched /\ UNCHANGED cycle

\* UiCandShow; the helper may be out of reach.
HelperWindow(ask, c) ==
    /\ host.helper
    /\ list' = Shown("helper", ask) /\ cand' = [c EXCEPT !.pic = NoDoc] /\ refs' = RefsLeft
    /\ NotHeld /\ Untouched /\ UNCHANGED cycle

StartCycle(ask, c) ==
    /\ host.cycle
    /\ ApplyHanjaChoice(c, Dict[ask.word][1], ask.len)
    /\ cycle' = [active |-> TRUE, cands |-> Dict[ask.word], idx |-> 1, hwnd |-> c.hwnd,
                 applied |-> Dict[ask.word][1]]
    /\ cand' = [c EXCEPT !.pic = NoDoc] /\ refs' = RefsLeft /\ list' = NoList

UwpCandFallback(ask, c) == HelperWindow(ask, c) \/ StartCycle(ask, c)

LetReference(c) == cand' = [c EXCEPT !.pic = NoDoc] /\ refs' = RefsLeft

\* No window, no helper, no cycle: nothing is shown, nothing is lost.
NothingShown(c) ==
    /\ ~(host.appContainer /\ host.cycle)
    /\ LetReference(c) /\ list' = NoList /\ NotHeld /\ Untouched /\ UNCHANGED cycle

UwpDetour == host.appContainer /\ ~host.ownWindow

Show(ask) ==
    \E c \in {[pic |-> focus, hwnd |-> FocusEditWindow, word |-> ask.word,
               fromSelection |-> ask.fromSelection]} :
        \/ ~(UwpDetour /\ host.cycle) /\ OwnWindow(ask, c)
        \/ host.appContainer /\ UwpCandFallback(ask, c)
        \/ NothingShown(c)

NoAnswer == NotHeld /\ list' = NoList /\ Untouched /\ UNCHANGED <<cand, refs, cycle>>

IsHexCode ==
    /\ held = <<>> /\ Selected(focus) = <<>> /\ kind[focus] # "terminal"
    /\ HexDigits(Before(focus)) \in 2 .. 6

\* TryReplaceHexCodepoint: the digits become the character "U".
HexCode ==
    /\ IsHexCode
    /\ RequestReplaceSessionString(focus, HexDigits(Before(focus)), <<"U">>)
    /\ list' = NoList /\ UNCHANGED <<held, inline, cand, refs, cycle>>

Convert ==
    \/ HexCode
    \/ /\ ~IsHexCode
       /\ \/ \E ask \in Asked : Found(ask.word) /\ Show(ask)
          \/ (\A ask \in Asked : ~Found(ask.word)) /\ NoAnswer

\* The Hanja key while the cycle is on: the next candidate in place of the last.
NextOfCycle ==
    LET i == (cycle.idx % Len(cycle.cands)) + 1
        c == [cand EXCEPT !.pic = focus, !.hwnd = cycle.hwnd, !.fromSelection = FALSE]
    IN  /\ ApplyHanjaChoice(c, cycle.cands[i], Len(cycle.applied))
        /\ cycle' = [cycle EXCEPT !.idx = i, !.applied = cycle.cands[i]]
        /\ cand' = [c EXCEPT !.pic = NoDoc] /\ list' = NoList /\ UNCHANGED refs

HanjaKey ==
    /\ list.by # "own"
    /\ IF cycle.active THEN NextOfCycle ELSE Convert
    /\ UNCHANGED <<setting, focus, acts>>

------------------------------------------------------------------------------
(* While the candidates are shown *)

\* OnHanjaSelected: a digit, Enter or a click.
PickOwn ==
    /\ list.by = "own"
    /\ \E i \in 1 .. Len(list.cands) : ApplyHanjaChoice(cand, list.cands[i], list.len)
    /\ ReleaseCand /\ list' = NoList
    /\ UNCHANGED <<setting, focus, cycle, acts>>

\* UiCandHandleKey: the context is the one of the key.
PickHelper ==
    /\ list.by = "helper"
    /\ \E i \in 1 .. Len(list.cands) :
          ApplyHanjaChoice([cand EXCEPT !.pic = focus], list.cands[i], list.len)
    /\ list' = NoList
    /\ UNCHANGED <<setting, focus, cand, refs, cycle, acts>>

\* CandidateUI_Cancel calls OnHanjaCancelled; UiCandHide needs no context.
Dismissed == /\ list' = NoList
             /\ IF list.by = "own" THEN ReleaseCand ELSE UNCHANGED <<cand, refs>>

Escape ==
    /\ list.by # "nobody" /\ Dismissed
    /\ UNCHANGED <<setting, text, sel, focus, held, inline, cycle, acts>>

\* A wrong dismissal: the moved caret leaves the list open.
StaysOpen == UNCHANGED <<list, cand, refs>>

\* TES_OnEndEdit and TLS_OnLayoutChange: our list closes when the caret moves.
LightDismiss == IF list.by = "own" THEN Dismissed ELSE UNCHANGED <<list, cand, refs>>

\* The user clicks into the document or selects; a composition of ours ends there.
\* The caret of a terminal stays where its program puts it.
Click ==
    /\ Acts
    /\ kind[focus] # "terminal"
    /\ \E a, b \in 0 .. Len(text[focus]) :
          a <= b /\ sel[focus] # [from |-> a, to |-> b]
          /\ sel' = [sel EXCEPT ![focus] = [from |-> a, to |-> b]]
    /\ IF inline THEN ResetComposed ELSE UNCHANGED <<held, inline>>
    /\ IF kind[focus] \in Reporting THEN LightDismiss ELSE UNCHANGED <<list, cand, refs>>
    /\ UNCHANGED <<setting, text, focus, cycle>>

------------------------------------------------------------------------------
(* The other keys *)

\* A key of a Hangul layout begins a syllable, in the document where it can.
Compose ==
    /\ list.by # "own" /\ held = <<>> /\ Acts
    /\ \E k \in Keys :
        /\ held' = <<k>>
        /\ \/ inline' = FALSE /\ Untouched
           \/ kind[focus] = "native" /\ inline' = TRUE /\ Insert(focus, <<k>>)
    /\ list' = NoList /\ cycle' = NoCycle
    /\ UNCHANGED <<setting, focus, cand, refs>>

\* A space or another boundary ends it.
Boundary ==
    /\ list.by # "own" /\ held # <<>>
    /\ IF inline THEN Untouched ELSE CommitText(held)
    /\ ResetComposed /\ list' = NoList /\ cycle' = NoCycle
    /\ UNCHANGED <<setting, focus, cand, refs, acts>>

\* A key OnTestKeyDown does not eat never gets to OnKeyDown.
KeyOfTheApplication ==
    /\ list.by = "nobody" /\ held = <<>> /\ Acts
    /\ \E k \in Keys : Insert(focus, <<k>>)
    /\ UNCHANGED <<setting, focus, held, inline, list, cand, refs, cycle>>

\* Jamotong_Transition: what is composed is put in where it was begun.
FocusTo(d) ==
    /\ d # focus /\ focus' = d /\ Acts
    /\ IF held # <<>> /\ ~inline THEN CommitText(held) ELSE Untouched
    /\ ResetComposed /\ Dismissed
    /\ UNCHANGED <<setting, cycle>>

------------------------------------------------------------------------------

HanjaInit ==
    /\ kind \in [Docs -> Kinds] /\ host \in Hosts
    /\ text = [d \in Docs |-> <<>>] /\ sel = [d \in Docs |-> Caret(0)]
    /\ focus \in Docs
    /\ held = <<>> /\ inline = FALSE
    /\ list = NoList /\ cand = NoCand /\ refs = 0 /\ cycle = NoCycle
    /\ acts = 0

HanjaNext ==
    \/ HanjaKey \/ PickOwn \/ PickHelper \/ Escape \/ Click
    \/ Compose \/ Boundary \/ KeyOfTheApplication
    \/ \E d \in Docs : FocusTo(d)

HanjaSpec == HanjaInit /\ [][HanjaNext]_hanjaVars

------------------------------------------------------------------------------
(* Properties *)

(* d holds what it held, but one occurrence of the word is another string. *)
ReplacedIn(d, word, str) ==
    \E n \in 0 .. Len(text[d]) - Len(word) :
        /\ SubSeq(text[d], n + 1, n + Len(word)) = word
        /\ text'[d] = SubSeq(text[d], 1, n) \o str
                          \o SubSeq(text[d], n + Len(word) + 1, Len(text[d]))

(* A choice from our own list, made any time later, puts a candidate in      *)
(* place of the very text that was looked up, in the document it was looked  *)
(* up in, and nothing else goes (ApplyHanjaChoice; W1-02, B10).  Of a host   *)
(* that does not tell of a moved caret this is claimed for a selection in an *)
(* EDIT window, which is read again.                                          *)
OnlyTheOriginalIsReplaced ==
    \A d \in Docs :
        /\ list.by = "own" /\ text'[d] # text[d] /\ list' = NoList /\ focus' = focus
        /\ kind[d] \in Reporting \/ (kind[d] = "edit" /\ list.fromSelection)
        => /\ d = list.doc
           /\ \E i \in 1 .. Len(list.cands) : ReplacedIn(d, list.original, list.cands[i])

Whole(d) ==
    IF d = focus /\ ~inline
    THEN SubSeq(text[d], 1, sel[d].from) \o held \o SubSeq(text[d], sel[d].from + 1, Len(text[d]))
    ELSE text[d]

(* To ask costs nothing: when the candidates come up, the documents, the      *)
(* caret and the syllable are what they were (HANJA_HOLD_ORIGINAL; the        *)
(* syllable is not put in before the choice).                                 *)
AskingChangesNothing ==
    \A d \in Docs :
        list'.by # "nobody" /\ list' # list => Whole(d)' = Whole(d) /\ sel' = sel

(* Both, of every step *)
ConversionIsExact == [][OnlyTheOriginalIsReplaced /\ AskingChangesNothing]_hanjaVars

(* "순환 변환(UWP)은 한자키를 연달아 누르는 동안만 살아 있다 — 다른 키가 오면 그      *)
(* 자리에서 끝난다" (text_service.c:1582): when another key has typed text, no *)
(* cycle is left that would replace the characters before the caret.         *)
AnotherKeyEndsTheCycle ==
    focus' = focus /\ acts' # acts /\ text' # text => ~cycle'.active
==============================================================================

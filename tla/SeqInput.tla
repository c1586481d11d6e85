------------------------------ MODULE SeqInput -------------------------------
(***************************************************************************)
(* The text service with a sequence layout (text_service.c), its candidate *)
(* window (candidate_ui.c) and the documents.  Keys reach the service by   *)
(* two ways: the key sink, and the keyboard hook of an open window, which  *)
(* keeps the window's own keys from the application and posts them to the  *)
(* window.  A window that is destroyed takes its posted keys with it.      *)
(*                                                                         *)
(* Everything the handlers change is one record `w': the engine st, the    *)
(* list g_seqCands, the segments g_seqSegs and g_seqSegMode, the window    *)
(* win ("none", "own", or "host" when the application draws the list),     *)
(* its key callbacks onKey and onSegKey, the context candCtx.pic, the      *)
(* document the composition belongs to (compTargetCtx), the preview chip,  *)
(* and the documents' text.  The handlers are operators on it, so that one *)
(* can call another as the code does.                                      *)
(***************************************************************************)
EXTENDS SeqKb

CONSTANTS
    SeqLayouts,   \* the layouts a behaviour may use
    Docs, NoDoc,  \* the documents
    WindowKinds,  \* what CandidateUI_Show may come to: "own", "host", "none" (no window)
    MaxWaiting    \* bound on the keys pressed and not yet handled

VARIABLES
    lay,       \* the current layout
    w,         \* the text service, its window and the documents
    owner,     \* the document with the focus
    inbox,     \* the key in the thread's input queue, if any
    posted,    \* CANDMSG_HOOKKEY messages, oldest first
    typed      \* history: per document, the keys that are to be in its text

seqVars == <<lay, w, owner, inbox, posted, typed>>

\* A layout is what its parser lets through (seq_parse.c): no entry is empty, and Chinese
\* and Japanese layouts have a candidate dictionary; none is both.  Another layout may have
\* one too: candidates without a style.
SeqLayoutType ==
    [cand : BOOLEAN, zh : BOOLEAN, ja : BOOLEAN, conn : BOOLEAN, cancel : BOOLEAN,
     words : SUBSET (Seq(Printable) \ {<<>>}), known : SUBSET Seq(Seq(Printable))]
ASSUME SeqAssumption ==
    /\ \A l \in SeqLayouts : l \in SeqLayoutType /\ (l.zh \/ l.ja => l.cand) /\ ~(l.zh /\ l.ja)
    /\ Printable \cap {"space", "enter", "esc", "left", "right", "shrink", "grow", "pick",
                       "back", "fkey", "app"} = {}
    /\ WindowKinds \subseteq {"own", "host", "none"} /\ NoDoc \notin Docs
    /\ MaxReading \in Nat \ {0} /\ MaxWaiting \in Nat

Styled(l) == l.cand => l.zh \/ l.ja

\* A key as it enters a document: the application's own, or ours.
InApp(key)   == <<[keys |-> <<key>>, as |-> "app"]>>
Literal(key) == <<[keys |-> <<key>>, as |-> "literal"]>>
NoSep(keys)      == Only(Printable \ {Sep}, keys)        \* separators are no text
Letterly(pieces) == NoSep(KeysOf(pieces))

SeqInit ==
    /\ lay \in SeqLayouts /\ owner \in Docs /\ inbox = <<>> /\ posted = <<>>
    /\ typed = [d \in Docs |-> <<>>]
    /\ w = [st |-> Empty, cands |-> NoCands, segs |-> NoSegs, segMode |-> FALSE,
            win |-> "none", onKey |-> FALSE, onSegKey |-> FALSE, ctx |-> NoDoc,
            target |-> NoDoc, chip |-> <<>>, text |-> [d \in Docs |-> <<>>],
            out |-> <<>>, spilled |-> FALSE]

(***************************************************************************)
(* Parts of the handlers.                                                  *)
(***************************************************************************)
Insert(v, d, out) == [v EXCEPT !.text[d] = @ \o Letterly(out), !.out = @ \o out]
\* SeqApply, on a result and the composition to show
Apply(v, d, out, chip) ==
    IF d = NoDoc THEN v
    ELSE [Insert(v, d, out) EXCEPT !.chip = chip,
                   !.target = IF chip # <<>> /\ @ = NoDoc THEN d ELSE @]
ComposingReading(st) == AsTyped(st.reading)             \* mutant of Composing
Composing(st) == AsTyped(IF st.pending = <<>> THEN st.reading
                         ELSE Append(st.reading, st.pending))
ApplyResult(v, d, r) == Apply([v EXCEPT !.st = r.st], d, r.out, Composing(r.st))

LeaveSegments(v) ==
    IF v.segMode THEN [v EXCEPT !.segMode = FALSE, !.st.conv = <<>>] ELSE v
KeepCtx(v) == v                                         \* mutant of ReleaseCtx
ReleaseCtx(v) == [v EXCEPT !.ctx = NoDoc]

\* CandidateUI_Hide
Hide(v) == [v EXCEPT !.win = "none", !.onKey = FALSE, !.onSegKey = FALSE]

\* CandidateUI_Show: an open window is used again; `kind' is what a new one comes to.
\* Without a window the list is folded at once.
Show(v, kind) ==
    LET opened == IF v.win = "own" THEN "own" ELSE kind IN
    IF opened # "none" THEN [v EXCEPT !.win = opened]
    ELSE ReleaseCtx([LeaveSegments([v EXCEPT !.win = "none"])
                        EXCEPT !.st = SeqKb_CancelCandidates(@).st])

\* SeqOpenCandidates
Opened(v, c, d, how, kind) ==
    IF c.ok
    THEN [ok |-> TRUE,
          v |-> Show([Apply([v EXCEPT !.st = c.st], d, <<>>,
                            IF how = "live" THEN Composing(c.st) ELSE AsTyped(c.st.reading))
                        EXCEPT !.cands = c.cands, !.ctx = d, !.onKey = lay.zh,
                               !.spilled = @ \/ c.spilled], kind)]
    ELSE [ok |-> FALSE, v |-> IF c.st.reading = <<>> THEN v ELSE [v EXCEPT !.cands = c.cands]]
Open(v, d, how, kind) ==
    Opened(LeaveSegments(v), Convert(lay, LeaveSegments(v).st, how), d, how, kind)

\* SeqShowSegments
ShowSegs(v, d, kind) ==
    Show([Apply([v EXCEPT !.st = Sync(@, v.segs)], d, <<>>, SegText(v.st, v.segs))
            EXCEPT !.cands = SegCands(v.st, v.segs), !.segMode = TRUE, !.ctx = d,
                   !.onKey = FALSE, !.onSegKey = TRUE], kind)

RefreshOnly(v, d, kind) ==                              \* mutant of LiveRefresh
    IF lay.zh THEN Open(v, d, "live", kind).v ELSE v
\* SeqLiveRefresh: while the user types Chinese
Refreshed(v, o) ==
    IF ~Idle(v.st) /\ o.ok THEN o.v
    ELSE ReleaseCtx(Hide(IF Idle(v.st) THEN v ELSE o.v))
LiveRefresh(v, d, kind) == IF lay.zh THEN Refreshed(v, Open(v, d, "live", kind)) ELSE v

(***************************************************************************)
(* What the window's callbacks do.  `n' is the item chosen or highlighted. *)
(***************************************************************************)
\* OnSeqCandidateCancelled, and CandidateUI_Cancel
AnswerKey(v, r) == ReleaseCtx(IF v.ctx # NoDoc /\ r.eaten THEN ApplyResult(v, v.ctx, r) ELSE v)
Cancelled(v) ==
    LET r == SeqKb_CancelCandidates(v.st)
    IN  ReleaseCtx(IF r.eaten THEN ApplyResult(v, v.ctx, r) ELSE v)
OnCancelled(v) == Cancelled(LeaveSegments(v))
CancelWindow(v) == IF v.win = "none" THEN v ELSE Hide(OnCancelled(v))

\* OnSeqCandidateSelected, after SelectIndex has closed the window
NextSegment(v, n, kind) ==
    IF v.ctx # NoDoc /\ v.segs.gen = v.st.gen
    THEN ShowSegs([v EXCEPT !.segs = Move(SegChoose(v.st, v.segs, v.cands, n), 1)], v.ctx, kind)
    ELSE ReleaseCtx(LeaveSegments(v))
Reopened(o) == IF o.ok THEN o.v ELSE ReleaseCtx(o.v)
AfterChoice(v, kind) ==
    IF v.st.reading # <<>> /\ v.ctx # NoDoc
    THEN Reopened(Open(v, v.ctx, IF lay.zh THEN "live" ELSE "asked", kind))
    ELSE ReleaseCtx(v)
Chosen(v, r, kind) ==
    IF r.eaten
    THEN AfterChoice([ApplyResult(v, v.ctx, r) EXCEPT
                         !.spilled = @ \/ v.st.pending # r.st.pending], kind)
    ELSE ReleaseCtx(v)
Selected(v, n, kind) ==
    IF v.segMode THEN NextSegment(v, n, kind)
    ELSE Chosen(v, SeqKb_Choose(lay, v.st, v.cands, n), kind)
OnSelected(v, n, kind) == Selected(Hide(v), n, kind)

\* OnSeqCandidateKey: Enter commits what was typed, Esc drops the reading
OnPinyinKey(v, key) ==
    AnswerKey(Hide(v), IF key = "enter" THEN SeqKb_Flush(lay, v.st) ELSE SeqKb_Cancel(v.st))

\* OnSeqSegmentKey
OnSegmentKey(v0, key, n, cut, kind) ==
    LET v == Hide(v0)
        picked == SegChoose(v.st, v.segs, v.cands, n)
        Again(sg) == ShowSegs([v EXCEPT !.segs = sg], v.ctx, kind)
        reading == LeaveSegments(v)
        done == SeqKb_Flush(lay, Sync(v.st, picked))
    IN  IF ~v.segMode \/ v.ctx = NoDoc THEN ReleaseCtx(LeaveSegments(v))
        ELSE IF v.segs.gen # v.st.gen THEN ReleaseCtx(LeaveSegments(v))
        ELSE IF key \in {"shrink", "grow"} THEN
             Again(Resize(v.st, v.segs, IF key = "grow" THEN 1 ELSE -1, cut))
        ELSE IF key \in {"left", "right"} THEN
             Again(Move(picked, IF key = "right" THEN 1 ELSE -1))
        ELSE IF key \in {"back", "fkey"} THEN
             ReleaseCtx(Apply(reading, v.ctx, <<>>, AsTyped(reading.st.reading)))
        ELSE ReleaseCtx(LeaveSegments(ApplyResult([v EXCEPT !.segMode = FALSE], v.ctx, done)))

\* CandidateUI_HandleKey: what becomes of the service, which keys the window takes,
\* and whether it was destroyed (with the keys posted to it) on the way
HandleKey(v, key, n, cut, kind) ==
    LET Keeps(taken) == [taken |-> taken, hidden |-> FALSE, v |-> v]
        Closes(taken, after) == [taken |-> taken, hidden |-> TRUE, v |-> after]
    IN  IF v.win # "own" THEN Keeps({})
        ELSE IF v.onSegKey /\ key \notin {"space", "esc", "pick"} THEN
             Closes({"left", "right", "shrink", "grow", "enter", "back"},
                    OnSegmentKey(v, key, n, cut, kind))
        ELSE IF v.onSegKey /\ key = "space" THEN Keeps({"space"})
        ELSE IF v.onKey /\ key \in {"space", "pick"} THEN
             Closes({"space", "pick"}, OnSelected(v, n, kind))
        ELSE IF v.onKey /\ key \in {"enter", "esc"} THEN
             Closes({"enter", "esc"}, OnPinyinKey(v, key))
        ELSE IF v.onKey THEN Keeps({"left", "right", "shrink", "grow"})
        ELSE IF key = "esc" THEN Closes({"esc"}, Hide(OnCancelled(v)))
        ELSE IF key \in {"enter", "pick"} THEN
             Closes({"enter", "pick"}, OnSelected(v, n, kind))
        ELSE Keeps({key})                           \* turns pages, or is ignored

(***************************************************************************)
(* KES_OnKeyDown with a sequence layout: the result, whether the service   *)
(* took the key, and the keys its document is owed on that account.        *)
(***************************************************************************)
Took(v)      == [eaten |-> TRUE, v |-> v]
NotTaken(v)  == [eaten |-> FALSE, v |-> v]
Closed(v)    == ReleaseCtx(Hide(v))

InSegments(v, s, kind) ==
    IF s.ok THEN [ok |-> TRUE, v |-> ShowSegs([v EXCEPT !.st = s.st, !.segs = s.segs,
                                                       !.spilled = @ \/ s.spilled], owner, kind)]
    ELSE Open(v, owner, "asked", kind)
OnConvertKey(v, cut, kind) == InSegments(v, Segments(lay, v.st, cut), kind)

BoundaryPasses(v, key) == Took(Insert(v, owner, InApp(key)))   \* mutant of OnBoundary
\* A boundary key: the reading first; the space in the same insertion, Enter of a
\* Chinese or Japanese layout used up by it, any other sent again after it
Bounded(v, key, r) ==
    Took(Apply([v EXCEPT !.st = r.st], owner,
               IF key = "enter" /\ (lay.zh \/ lay.ja) THEN r.out ELSE r.out \o InApp(key), <<>>))
OnBoundary(v, key) == Bounded(v, key, SeqKb_Flush(lay, v.st))

AfterConvert(o) == IF o.ok THEN Took(o.v) ELSE OnBoundary(o.v, "space")
\* A key the layout does not know: the conversion, then the key itself
WithLiteral(v, key, r) == Took(Apply([v EXCEPT !.st = r.st], owner, r.out \o Literal(key), <<>>))
\* With candidates without a style such a key passes the reading; the ledger starts over.
Passed(v) == [v EXCEPT !.spilled = TRUE]
InKana(v, r) ==
    Took(Apply([v EXCEPT !.st = r.st], owner, <<[keys |-> KeysOf(r.out), as |-> "kana"]>>, <<>>))
Keyed(v, r, kind) ==
    IF r.eaten THEN Took(LiveRefresh(ApplyResult(v, owner, r), owner, kind)) ELSE NotTaken(v)

OnKeyDown(v, key, cut, kind) ==
    LET busy == ~Idle(v.st) IN
    IF key = "space" /\ SeqKb_CanConvert(lay, v.st) THEN AfterConvert(OnConvertKey(v, cut, kind))
    ELSE IF key \in Printable /\ ~SeqKb_WouldEat(lay, v.st, key) THEN
         IF (lay.zh \/ lay.ja) /\ busy
         THEN WithLiteral(Closed(v), key,
                          IF lay.zh THEN SeqKb_CommitBest(lay, v.st) ELSE SeqKb_Flush(lay, v.st))
         ELSE NotTaken(IF busy THEN Passed(v) ELSE v)
    ELSE IF key = "fkey" /\ lay.ja /\ busy THEN InKana(Closed(v), SeqKb_Flush(lay, v.st))
    ELSE IF key \in Printable \cup {"back", "esc"} THEN
         Keyed(v, CASE key = "back" -> SeqKb_Backspace(v.st)
                    [] key = "esc"  -> SeqKb_Cancel(v.st)
                    [] OTHER        -> SeqKb_Key(lay, v.st, key), kind)
    ELSE IF busy /\ key = "enter" THEN Took(LiveRefresh(OnBoundary(v, key).v, owner, kind))
    ELSE IF busy THEN OnBoundary(v, key)
    ELSE NotTaken(v)

\* The end of a step.  Only equality of generations matters: they are renumbered
\* from the engine's.  Only what the two ledgers disagree on matters: the keys at the
\* head of both are dropped, and both start over after a loss that is excepted.
Renumber(v) ==
    LET Off(g) == IF g = v.st.gen THEN 0 ELSE -1 IN
    [v EXCEPT !.st = [@ EXCEPT !.gen = 0,
                               !.convGen = IF v.st.conv = <<>> THEN 0 ELSE Off(v.st.convGen)],
              !.cands = IF v.win = "none" THEN NoCands ELSE [@ EXCEPT !.gen = Off(v.cands.gen)],
              !.segs = IF v.segMode THEN [@ EXCEPT !.gen = Off(v.segs.gen)] ELSE NoSegs]
Becomes(v, owed) ==
    LET same(d) == Len(LongestCommonPrefix({v.text[d], owed[d]}))
        rest(d, s) == IF v.spilled THEN <<>> ELSE SubSeq(s, same(d) + 1, Len(s))
    IN  /\ w' = [Renumber(v) EXCEPT !.text = [d \in Docs |-> rest(d, @[d])], !.spilled = FALSE]
        /\ typed' = [d \in Docs |-> IF v.spilled /\ d = v.target THEN NoSep(Typed(v.st))
                                    ELSE rest(d, owed[d])]
Fresh == [w EXCEPT !.out = <<>>]

(***************************************************************************)
(* The keys.  The hook of our own window decides when a key is pressed;    *)
(* the thread takes posted messages before input.  Keys of the input queue *)
(* are handled in order, so one waiting at a time stands for all.          *)
(***************************************************************************)
HookKeys == {"space", "enter", "esc", "left", "right", "shrink", "grow", "pick"}
AnyKey   == HookKeys \cup Printable \cup {"back", "fkey", "app"}
Cuts     == SUBSET (1 .. MaxReading - 1)
Items    == IF w.cands.items = <<>> THEN {0} ELSE DOMAIN w.cands.items

Press(key) ==
    /\ Len(inbox) + Len(posted) < MaxWaiting
    /\ IF w.win = "own" /\ key \in HookKeys
       THEN posted' = Append(posted, [key |-> key, seen |-> w.cands.items])
            /\ UNCHANGED inbox
       ELSE inbox = <<>> /\ inbox' = <<key>> /\ UNCHANGED posted
    /\ UNCHANGED <<lay, w, owner, typed>>

\* What the user's text is once `key' has been handled: the ledger the code is
\* compared with.  A list that is not Chinese ignores letters, and its Esc and
\* Backspace leave the reading alone, as Backspace does in a window that edits
\* segments; an unmatched sequence may be cancelled, and a full reading in V mode
\* refuses a digit.
Owed(old, key) ==
    LET st == w.st
        Less(keys) == SubSeq(old, 1, Len(old) - Len(NoSep(keys)))
        last == IF st.pending # <<>> THEN <<Last(st.pending)>>
                ELSE IF st.reading # <<>> THEN Last(st.reading) ELSE <<>>
        listed == w.win = "own" /\ ~w.onKey
        editing == w.win = "own" /\ w.onSegKey
        buf == Append(st.pending, key)
        cancelled == /\ lay.cancel /\ st.pending # <<>> /\ ~(lay.zh /\ key = Sep)
                     /\ ~HasLonger(lay, buf) /\ ~Exact(lay, buf)
        refused == /\ st.pending = <<>> /\ IsVMode(lay, st.reading) /\ key \in Digits
                   /\ Len(st.reading) = MaxReading
    IN  CASE key = "back" /\ ~listed /\ ~editing -> Less(last)
          [] key = "esc" /\ ~listed -> Less(Typed(st))
          [] key \in Printable /\ (~listed \/ editing) ->
                 IF cancelled THEN Less(st.pending)
                 ELSE IF refused THEN old ELSE old \o NoSep(<<key>>)
          [] OTHER -> old

\* What stays posted after a key: a destroyed window takes the rest with it.
TailOfPosted(h) == Tail(posted)                         \* mutant of StillPosted
StillPosted(h) == IF h.hidden THEN <<>> ELSE Tail(posted)

\* CANDMSG_HOOKKEY
HandlePosted(n, cut, kind) ==
    /\ posted # <<>> /\ n \in Items
    /\ \E h \in {HandleKey(Fresh, Head(posted).key, n, cut, kind)} :
          /\ Becomes(h.v, [typed EXCEPT ![owner] = Owed(@, Head(posted).key)])
          /\ posted' = StillPosted(h)
    /\ UNCHANGED <<lay, owner, inbox>>

\* KES_OnTestKeyDown and KES_OnKeyDown: the window first, then the layout.  A key
\* nobody takes is the application's; so is an application's shortcut ("app"),
\* before which pending keys are flushed.
AfterWindow(h, key, cut, kind) ==
    IF key \in h.taken THEN Took(h.v)
    ELSE IF key # "app" THEN OnKeyDown(h.v, key, cut, kind)
    ELSE NotTaken(IF w.win = "none" /\ w.st.pending # <<>>
                  THEN ApplyResult(Fresh, owner, SeqKb_Flush(lay, w.st)) ELSE h.v)
HandleKeyDown(n, cut, kind) ==
    /\ inbox # <<>> /\ posted = <<>> /\ n \in Items
    /\ \E key \in {Head(inbox)} :
       \E d \in {AfterWindow(HandleKey(Fresh, key, n, cut, kind), key, cut, kind)} :
          Becomes(IF d.eaten \/ key \in {"back", "esc"} THEN d.v
                  ELSE Insert(d.v, owner, InApp(key)),
                  [typed EXCEPT ![owner] = Owed(@, key)])
    /\ inbox' = Tail(inbox)
    /\ UNCHANGED <<lay, owner, posted>>

\* The mouse: an item of the list, or its close button
Click(n, kind) ==
    /\ w.win = "own" /\ n \in Items
    /\ Becomes(OnSelected(Fresh, n, kind), typed) /\ posted' = <<>>
    /\ UNCHANGED <<lay, owner, inbox>>
CloseWindow ==          \* also WM_NCDESTROY, when the owner's window goes first
    /\ w.win = "own" /\ Becomes(CancelWindow(Fresh), typed) /\ posted' = <<>>
    /\ UNCHANGED <<lay, owner, inbox>>

(***************************************************************************)
(* Boundaries (Jamotong_Transition): the reading goes to the document it   *)
(* was begun in, then everything is folded.                                *)
(***************************************************************************)
FoldInput(v) ==
    [CancelWindow([v EXCEPT !.st = Restart(@), !.target = NoDoc, !.chip = <<>>])
        EXCEPT !.target = NoDoc, !.chip = <<>>]
FlushNowhere(v, d) == [v EXCEPT !.st = SeqKb_Flush(lay, @).st]   \* mutant of FlushTo
Flushed(v, d, r) ==
    IF d = NoDoc THEN [v EXCEPT !.st = r.st] ELSE Insert([v EXCEPT !.st = r.st], d, r.out)
FlushTo(v, d) == Flushed(v, d, SeqKb_Flush(lay, v.st))

FocusTo(d) ==
    /\ d # owner /\ owner' = d
    /\ Becomes(FoldInput(FlushTo(Fresh, w.target)), typed)
    /\ inbox' = <<>> /\ posted' = <<>> /\ UNCHANGED lay
SwitchLayout(l) ==      \* by a key, or from outside: RotateLayoutFromKey, OnLayoutSwitched
    /\ \/ inbox = <<>> /\ posted = <<>> /\ Becomes(FoldInput(FlushTo(Fresh, owner)), typed)
       \/ Becomes(FoldInput(FlushTo(Fresh, w.target)), typed)
    /\ lay' = l /\ posted' = <<>>
    /\ UNCHANGED <<owner, inbox>>

SeqNext ==
    \/ \E key \in AnyKey : Press(key)
    \/ \E n \in Items, cut \in Cuts, kind \in WindowKinds :
           HandlePosted(n, cut, kind) \/ HandleKeyDown(n, cut, kind)
    \/ \E n \in Items, kind \in WindowKinds : Click(n, kind)
    \/ CloseWindow
    \/ \E d \in Docs : FocusTo(d)
    \/ \E l \in SeqLayouts : SwitchLayout(l)

SeqSpec == SeqInit /\ [][SeqNext]_seqVars

(***************************************************************************)
(* Properties.                                                             *)
(***************************************************************************)
SeqTypeOK ==
    /\ lay \in SeqLayouts /\ owner \in Docs
    /\ w.win \in WindowKinds \cup {"none"} /\ w.ctx \in Docs \cup {NoDoc}
    /\ w.target \in Docs \cup {NoDoc} /\ DOMAIN w.text = Docs
    /\ Len(w.st.reading) <= MaxReading
    /\ Len(inbox) + Len(posted) <= MaxWaiting

\* Every key the user typed for a document is in its text or, when it is the one being
\* composed in, still waits in the engine; in the order typed, none twice, whatever was
\* converted, cut into segments, cancelled, picked by mouse or folded on a boundary.
\* Three losses are excepted (`spilled'): what a full reading pushes out while it is
\* converted, a half typed syllable when a live list's whole reading is picked, and the
\* place of a key the layout does not know, which passes a reading without a style.
TypedInOrder ==
    \A d \in Docs :
        w.text[d] \o (IF d = w.target THEN NoSep(Typed(w.st)) ELSE <<>>) = typed[d]

\* A window on screen holds the document it will write to, and the document is the one
\* with the focus; without a window none is held (candCtx.pic is released on every path).
WindowHoldsItsDocument == w.ctx = IF w.win = "none" THEN NoDoc ELSE owner

\* The list in our own window is of the reading in the engine: a pick is never refused
\* because the reading moved on, and the engine knows a list is open.
ListIsCurrent ==
    w.win = "own" /\ ~Idle(w.st) =>
        w.cands.items # <<>> /\ w.cands.gen = w.st.gen /\ w.st.open

\* A list is of something: it is closed when the reading is gone.
NoListWithoutReading == w.win = "own" => ~Idle(w.st)

\* What is on screen belongs to the document and to the reading of now.
WindowIsCurrent == SeqTypeOK /\ WindowHoldsItsDocument /\ ListIsCurrent

\* The chip shows what waits in the engine, a segmented sentence included: no more, no less.
ChipShowsWhatWaits == KeysOf(w.chip) = Typed(w.st)

\* Under a segment window the chip is the sentence a flush would commit.
SegmentsAreTheSentence ==
    w.win = "own" /\ w.segMode => w.chip = w.st.conv /\ w.st.convGen = w.st.gen

\* The chip never shows anything but what a commit would write.
ChipIsWhatWaits == ChipShowsWhatWaits /\ SegmentsAreTheSentence

\* No step of the window breaks this: a key the hook took is handled with the list its
\* presser saw.
PicksWhatWasSeen ==
    posted # <<>> /\ posted' # posted /\ Len(posted') < Len(posted) /\ owner' = owner
         => w.win = "own" /\ Head(posted).seen = w.cands.items

\* Nor does a step break this: a boundary in the middle of a segmented sentence leaves
\* the sentence on the chip in the document it was typed in, form by form.
BoundaryKeepsTheSentence ==
    owner' # owner /\ w.win = "own" /\ w.segMode => w'.out = w.chip

\* The user gets what the screen promised, whatever comes between.
ScreenIsKept == [][PicksWhatWasSeen /\ BoundaryKeepsTheSentence]_seqVars

\* A key that goes on to the application, alone or with a Tab or an arrow sent again,
\* finds no reading in front of it.  (A Ctrl shortcut does: only pending keys are flushed
\* before it.  So does a printed key a layout with candidates but no style does not know.)
NoKeyOvertakesTheReading ==
    w.out # <<>> /\ Last(w.out).as = "app" /\ Last(w.out).keys # <<"app">> =>
        Idle(w.st) \/ (~Styled(lay) /\ \E key \in Printable : Last(w.out).keys = <<key>>)
=============================================================================

------------------------------ MODULE Delivery -------------------------------
(***************************************************************************)
(* Where the text the user composes goes (text_service.c, comp_inline.c,   *)
(* transition.c).  A unit is one syllable of the automaton, one syllable   *)
(* of a simultaneous (moachigi) chord, or one reading of a sequence        *)
(* layout.  It starts in the document that has the focus and must reach    *)
(* that document: by the key that ends it or, when the focus or the layout *)
(* changes first, from outside any key event, through the remembered EDIT  *)
(* window, an asynchronous edit session, or the pending slot that the next *)
(* key in that document empties.                                           *)
(*                                                                         *)
(* Every handler runs on the input thread; TSF, the applications and the   *)
(* user are the environment.  A window or document that was destroyed is   *)
(* one whose sessions and EM_REPLACESEL fail from then on.                 *)
(***************************************************************************)
EXTENDS Naturals, Sequences, FiniteSets

CONSTANTS
    Ctxs,            \* the documents (ITfContext, with its window)
    NoCtx,
    EditCtxs,        \* those whose focus window is an EDIT control
    InlineCtxs,      \* those that take a standard composition (JamoPath_Decide)
    Layouts,         \* the kinds of layout in use, named by the unit they compose
    MaxUnits         \* bound on the units a behaviour starts

ASSUME DeliveryAssumption ==
    /\ NoCtx \notin Ctxs /\ Ctxs # {}
    /\ EditCtxs \subseteq Ctxs /\ InlineCtxs \subseteq Ctxs
    /\ Layouts \subseteq {"syllable", "chord", "reading"} /\ Layouts # {}
    /\ MaxUnits \in Nat

VARIABLES
    prompt,      \* whether this TSF runs asynchronous insertions before the next event
    focus,       \* the document with the focus
    pc,          \* "idle", or "key" between OnTestKeyDown and OnKeyDown
    layout,      \* kind of the current layout
    held,        \* the unit in its engine (fsm, chord or seqKb), 0 for none
    target,      \* compTargetCtx (compTargetHwnd is its EDIT window)
    comp,        \* pComposition: its document and the unit it shows
    demoted,     \* pathKind is COMMIT by demotion
    pending,     \* the slot cpPendingCommit, for cpPendingCtx
    queue,       \* per document, the insertions of asynchronous sessions
    docs,        \* per document, the units in its text outside any composition
    origin,      \* history: the document and the kind of each unit, as it started
    gone,        \* history: why a unit is in no document
    stranded     \* history: units whose failed composition left its text behind

deliveryVars == <<prompt, focus, pc, layout, held, target, comp, demoted, pending, queue,
                  docs, origin, gone, stranded>>

NoUnit  == 0
Units   == 1 .. MaxUnits
NoComp  == [ctx |-> NoCtx, unit |-> NoUnit]
NoSlot  == [ctx |-> NoCtx, unit |-> NoUnit]
Reasons == {"erased", "failed", "replaced", "folded", "dropped", "deactivated"}

DeliveryInit ==
    /\ prompt \in BOOLEAN
    /\ focus \in Ctxs /\ pc = "idle" /\ layout \in Layouts
    /\ held = NoUnit /\ target = NoCtx /\ comp = NoComp /\ demoted = FALSE
    /\ pending = NoSlot
    /\ queue = [c \in Ctxs |-> <<>>] /\ docs = [c \in Ctxs |-> <<>>]
    /\ origin = <<>> /\ gone = [u \in Units |-> ""] /\ stranded = {}

-----------------------------------------------------------------------------
Kind(u)          == IF u = NoUnit THEN "none" ELSE origin[u].kind
With(text, c, u) == [text EXCEPT ![c] = Append(@, u)]
Lost(u, why)     == [gone EXCEPT ![u] = why]

\* A new unit begins, in the focused document, with the current layout.
Begin == origin' = Append(origin, [home |-> focus, kind |-> layout])
NextUnit == Len(origin) + 1

\* pComposition is one whose finalize is queued: it does not show what is composed now.
Ending == comp # NoComp /\ comp.unit # held

\* The environment runs a queued finalize before the next key event in its document, and
\* where it is prompt whatever is queued before any.
Settled ==
    /\ Ending => comp.ctx # focus
    /\ prompt => ~Ending /\ \A c \in Ctxs : queue[c] = <<>>

\* JamoComp_Finalize, when the documents have this text: at once, refused (the text of
\* the composition stays in its document all the same), or queued.
Finalize(text) ==
    \/ comp' = NoComp
       /\ docs' = IF comp = NoComp THEN text ELSE With(text, comp.ctx, comp.unit)
    \/ comp # NoComp /\ comp' = comp /\ docs' = text

\* CommitText, in a key event: EM_REPLACESEL or a synchronous session.
CommitText(u) ==
    \/ docs' = With(docs, focus, u) /\ UNCHANGED gone
    \/ gone' = Lost(u, "failed") /\ UNCHANGED docs

\* CompTarget_Remember: once until ResetComposition clears it.
Remember == target' = IF target = NoCtx THEN focus ELSE target

\* JamoComp_PathForContext of the focused document.
Standard == focus \in InlineCtxs /\ ~demoted

\* FoldInput and ResetComposition: every engine is emptied and the target
\* forgotten.  Mutant: the chord is not (its keys are still down).
Fold_KeepsChord ==
    /\ held' = IF Kind(held) = "chord" THEN held ELSE NoUnit
    /\ target' = NoCtx /\ demoted' = FALSE
Fold == held' = NoUnit /\ target' = NoCtx /\ demoted' = FALSE

-----------------------------------------------------------------------------
\* Trans_PendingMatches: the user is back in its document (or EDIT window).
PendingMatches == pending.unit # NoUnit /\ pending.ctx \in {NoCtx, focus}

\* The slot after the retry.  Mutant: only a success empties it.
SlotAfterRetry_IfInserted == IF gone' = gone THEN NoSlot ELSE pending
SlotAfterRetry == NoSlot

\* OnTestKeyDown first retries the pending syllable, once, whatever comes of it.
TestKeyDown ==
    /\ pc = "idle" /\ Settled
    /\ pc' = "key"
    /\ \/ /\ PendingMatches
          /\ CommitText(pending.unit) /\ pending' = SlotAfterRetry
       \/ /\ ~PendingMatches
          /\ UNCHANGED <<docs, gone, pending>>
    /\ UNCHANGED <<focus, layout, held, target, comp, demoted, queue, origin, stranded>>

\* The key is the application's (or changes no unit).
KeyNotEaten ==
    /\ pc = "key" /\ pc' = "idle"
    /\ UNCHANGED <<focus, layout, held, target, comp, demoted, pending, queue, docs,
                   origin, gone, stranded>>

\* What a jamo key makes of the automaton: a first syllable, the same one grown,
\* or the held one completed (commitChar) by the next (preeditChar).
JamoResults ==
    {r \in [commit : {NoUnit, held}, preedit : {held, NextUnit} \intersect Units] :
        \/ held = NoUnit /\ r.commit = NoUnit
        \/ held # NoUnit /\ (r.commit = NoUnit <=> r.preedit = held)}

\* OutputResult: the completed syllable is inserted; if that fails the key is
\* undone (fsmBefore is put back).
OutputResult(r, text) ==
    \/ /\ docs' = IF r.commit = NoUnit THEN text ELSE With(text, focus, r.commit)
       /\ held' = r.preedit
    \/ /\ r.commit # NoUnit
       /\ docs' = text
       /\ held' = held

BeginsIfNew == IF held' = NextUnit THEN Begin ELSE UNCHANGED origin

\* A jamo key in a document that takes only commits; a composition of another is let be.
JamoKeyCommit ==
    /\ pc = "key" /\ pc' = "idle" /\ layout = "syllable" /\ ~Standard
    /\ Remember
    /\ \E r \in JamoResults : OutputResult(r, docs) /\ BeginsIfNew
    /\ UNCHANGED <<focus, layout, comp, demoted, pending, queue, gone, stranded>>

\* In a document with a standard composition one synchronous session makes the
\* composition show the new syllable and moves the completed one out of it.
JamoKeyInline ==
    /\ pc = "key" /\ pc' = "idle" /\ layout = "syllable" /\ Standard /\ ~Ending
    /\ Remember
    /\ \E r \in JamoResults :
        /\ docs' = IF r.commit = NoUnit THEN docs ELSE With(docs, focus, r.commit)
        /\ held' = r.preedit
        /\ comp' = [ctx |-> focus, unit |-> r.preedit]
    /\ BeginsIfNew
    /\ UNCHANGED <<focus, layout, demoted, pending, queue, gone, stranded>>

\* What the composition may show when the session that should update it fails and the
\* cancelling session too, and so leaves behind: nothing, the text of before the key,
\* or the new one.
LeftBehind(r) ==
    {<<>>} \union (IF comp = NoComp THEN {} ELSE {<<comp.unit>>})
           \union {IF r.commit = NoUnit THEN <<r.preedit>> ELSE <<r.commit, r.preedit>>}

\* That session fails: JamoComp_Apply cancels the composition and demotes the
\* document, and the key's result goes the commit-only way.
JamoKeyDemotes ==
    /\ pc = "key" /\ pc' = "idle" /\ layout = "syllable" /\ Standard /\ ~Ending
    /\ Remember
    /\ comp' = NoComp /\ demoted' = TRUE
    /\ \E r \in JamoResults : \E left \in LeftBehind(r) :
        /\ stranded' = stranded \union {left[i] : i \in DOMAIN left}
        /\ OutputResult(r, [docs EXCEPT ![focus] = @ \o left])
    /\ IF NextUnit \in {held'} \union stranded' THEN Begin ELSE UNCHANGED origin
    /\ UNCHANGED <<focus, layout, pending, queue, gone>>

\* EnsureComposition finds the composition that ends elsewhere in place of one of the
\* focused document, and a session of this one may not write there.  JamoComp_Cancel then
\* asks that document: the text is removed, or the session is refused or queued (behind
\* the finalize).
JamoKeyElsewhere ==
    /\ pc = "key" /\ pc' = "idle" /\ layout = "syllable" /\ Standard /\ Ending
    /\ Remember /\ demoted' = TRUE
    /\ \E r \in JamoResults :
        \/ comp' = NoComp /\ gone' = Lost(comp.unit, "dropped") /\ OutputResult(r, docs)
        \/ comp' = NoComp /\ UNCHANGED gone /\ OutputResult(r, With(docs, comp.ctx, comp.unit))
        \/ UNCHANGED <<comp, gone>> /\ OutputResult(r, docs)
    /\ BeginsIfNew
    /\ UNCHANGED <<focus, layout, pending, queue, stranded>>

\* The first key of a moachigi syllable; the syllable is inserted when its last
\* key goes up, neither remembered nor undone.
ChordKeyDown ==
    /\ pc = "key" /\ pc' = "idle" /\ layout = "chord"
    /\ held = NoUnit /\ NextUnit \in Units
    /\ Begin /\ held' = NextUnit
    /\ UNCHANGED <<focus, layout, target, comp, demoted, pending, queue, docs, gone, stranded>>

ChordKeyUp ==
    /\ pc = "idle" /\ Settled
    /\ Kind(held) = "chord"
    /\ CommitText(held) /\ held' = NoUnit
    /\ UNCHANGED <<focus, pc, layout, target, comp, demoted, pending, queue, origin, stranded>>

\* A key of a sequence layout begins a reading, shown only in the overlay.
SeqKey ==
    /\ pc = "key" /\ pc' = "idle" /\ layout = "reading"
    /\ held = NoUnit /\ NextUnit \in Units
    /\ Begin /\ held' = NextUnit /\ Remember
    /\ UNCHANGED <<focus, layout, comp, demoted, pending, queue, docs, gone, stranded>>

\* What ends the held unit in a key event: an inline composition is in the
\* document already, a commit-only syllable or a reading is inserted, and a failure to
\* insert it is not looked at.  A composition that ends elsewhere is met by the fold after
\* it, if one follows; and it is taken for the syllable's own, which is then inserted
\* nowhere, by the space and where compositions are standard.
EndInKey(folds) ==
    /\ Kind(held) \notin {"none", "chord"}
    /\ \/ /\ comp.unit = held
          /\ comp' = NoComp /\ docs' = With(docs, comp.ctx, held) /\ UNCHANGED gone
       \/ /\ comp.unit # held
          /\ \/ /\ ~folds /\ UNCHANGED comp /\ CommitText(held)
             \/ folds /\ Finalize(With(docs, focus, held)) /\ UNCHANGED gone
             \/ folds /\ Finalize(docs) /\ gone' = Lost(held, "failed")
       \/ /\ Ending /\ Kind(held) = "syllable" /\ (Standard \/ ~folds)
          /\ Finalize(docs) /\ gone' = Lost(held, "dropped")

\* Space, Enter, an arrow, an application's shortcut: the unit ends there.  TSF
\* sends a preserved key without OnTestKeyDown before it.
BoundaryKey ==
    /\ Settled /\ pc' = "idle"
    /\ EndInKey(FALSE) /\ held' = NoUnit
    /\ UNCHANGED <<focus, layout, target, demoted, pending, queue, origin, stranded>>

\* Esc, or Backspace on the last jamo, takes the unit back; text that the
\* cancelling session could not remove stays.  Esc resets, Backspace does not; the reset
\* cancels or finalizes a composition that ends elsewhere too.
Erase ==
    /\ pc = "key" /\ pc' = "idle"
    /\ held # NoUnit
    /\ \/ /\ ~Ending /\ comp' = NoComp
          /\ \/ gone' = Lost(held, "erased") /\ UNCHANGED docs
             \/ comp # NoComp /\ docs' = With(docs, comp.ctx, held) /\ UNCHANGED gone
          /\ \/ Fold
             \/ held' = NoUnit /\ UNCHANGED <<target, demoted>>
       \/ /\ Ending /\ Fold
          /\ \/ Finalize(docs) /\ gone' = Lost(held, "erased")
             \/ /\ comp' = NoComp /\ UNCHANGED docs
                /\ gone' = [Lost(held, "erased") EXCEPT ![comp.unit] = "dropped"]
       \/ /\ Ending /\ held' = NoUnit
          /\ gone' = Lost(held, "erased") /\ UNCHANGED <<comp, docs, target, demoted>>
    /\ UNCHANGED <<focus, layout, pending, queue, origin, stranded>>

-----------------------------------------------------------------------------
\* Outside a key event the remembered EDIT window takes the unit, or a session
\* on the remembered document is accepted.  Mutant: the document that now has
\* the focus is used.
Destination_Focus == focus'
Destination       == target

\* Either way the fold that follows finalizes a composition.
DeliverOutside(u) ==
    IF target \in EditCtxs
    THEN Finalize(With(docs, Destination, u)) /\ UNCHANGED queue
    ELSE Finalize(docs) /\ queue' = With(queue, Destination, u)

\* Pending_Set: there is one slot; what was in it is dropped.  Mutant: the unit is
\* folded away instead.
PendingSet_Dropped(u) == gone' = Lost(u, "folded") /\ UNCHANGED <<docs, queue, comp, pending>>
PendingSet(u) ==
    /\ pending' = [ctx |-> target, unit |-> u]
    /\ gone' = IF pending.unit = NoUnit THEN gone ELSE Lost(pending.unit, "replaced")
    /\ UNCHANGED <<docs, queue, comp>>

\* Transition_FlushComposition, for a syllable while there is no composition.
FlushComposition ==
    /\ Kind(held) = "syllable" /\ comp = NoComp
    /\ \/ DeliverOutside(held) /\ UNCHANGED <<gone, pending>>
       \/ PendingSet(held)

\* There is one, and it is taken to be the syllable's: one that ends elsewhere has the
\* syllable dropped (Trans_FlushAction).
LeftToComposition ==
    /\ Kind(held) = "syllable" /\ comp # NoComp
    /\ \/ /\ comp.unit = held
          /\ Finalize(docs) /\ UNCHANGED gone
       \/ /\ Ending
          /\ Finalize(docs) /\ gone' = Lost(held, "dropped")
    /\ UNCHANGED <<queue, pending>>

\* Transition_FlushSeq: the reading, if the current layout is a sequence layout.
FlushSeq(current) ==
    /\ Kind(held) = "reading" /\ current = "reading"
    /\ \/ DeliverOutside(held) /\ UNCHANGED gone
       \/ gone' = Lost(held, "failed") /\ Finalize(docs) /\ UNCHANGED queue
    /\ UNCHANGED pending

\* An engine's unit that neither of them takes is folded away.
FoldedAway(current) ==
    /\ \/ Kind(held) = "chord"
       \/ Kind(held) = "reading" /\ current # "reading"
    /\ gone' = IF held' = held THEN gone ELSE Lost(held, "folded")
    /\ Finalize(docs)
    /\ UNCHANGED <<queue, pending>>

\* Nothing is composed.
NothingHeld ==
    /\ held = NoUnit /\ Finalize(docs)
    /\ UNCHANGED <<queue, pending, gone>>

\* Jamotong_Transition outside a key event, with `current` the current layout.
TransitionOutside(current) ==
    /\ Fold
    /\ \/ FlushComposition \/ LeftToComposition
       \/ FlushSeq(current)
       \/ FoldedAway(current)
       \/ NothingHeld
    /\ UNCHANGED <<origin, stranded>>

\* KES_OnSetFocus and TMES_OnSetFocus: the focus is already in the other document.
FocusChange(c) ==
    /\ pc = "idle" /\ c # focus
    /\ focus' = c
    /\ TransitionOutside(layout)
    /\ UNCHANGED <<pc, layout>>

\* The language bar and the menu finish the unit, then change the layout.
LangBarSwitch ==
    /\ pc = "idle" /\ UNCHANGED <<focus, pc>>
    /\ TransitionOutside(layout)
    /\ layout' \in Layouts

\* A change of the compartment (CES_OnChange) changes the layout first.
CompartmentSwitch ==
    /\ pc = "idle" /\ UNCHANGED <<focus, pc>>
    /\ layout' \in Layouts
    /\ TransitionOutside(layout')

\* RotateLayoutFromKey: the unit ends in the key event (a chord is folded).
RotateKey ==
    /\ Settled /\ pc' = "idle"
    /\ Fold
    /\ \/ EndInKey(TRUE) /\ UNCHANGED <<queue, pending>>
       \/ FoldedAway("reading")
       \/ NothingHeld
    /\ layout' \in Layouts
    /\ UNCHANGED <<focus, origin, stranded>>

\* The key that turns pass-through on: a syllable ends in the key event, then
\* Jamotong_SetPassthrough makes the transition from outside.
PassthroughKey ==
    /\ Settled /\ pc' = "idle" /\ UNCHANGED <<focus, layout>>
    /\ \/ /\ Kind(held) = "syllable"
          /\ EndInKey(TRUE) /\ Fold
          /\ UNCHANGED <<queue, pending, origin, stranded>>
       \/ /\ Kind(held) # "syllable"
          /\ TransitionOutside(layout)

\* TIP_Deactivate folds without a flush, forgets the composition (its text stays),
\* what it does not show and the pending syllable; sessions already accepted still run.
Deactivate ==
    /\ pc = "idle"
    /\ Fold
    /\ comp' = NoComp /\ pending' = NoSlot
    /\ docs' = IF comp = NoComp THEN docs ELSE With(docs, comp.ctx, comp.unit)
    /\ gone' = [u \in Units |->
                   IF u = pending.unit \/ (u = held /\ comp.unit # held) THEN "deactivated"
                   ELSE gone[u]]
    /\ UNCHANGED <<focus, pc, layout, queue, origin, stranded>>

-----------------------------------------------------------------------------
\* TSF grants an accepted session: its insertion succeeds or not.
RunInsert(c) ==
    /\ pc = "idle" /\ queue[c] # <<>>
    /\ queue' = [queue EXCEPT ![c] = Tail(@)]
    /\ \/ docs' = With(docs, c, Head(queue[c])) /\ UNCHANGED gone
       \/ gone' = Lost(Head(queue[c]), "failed") /\ UNCHANGED docs
    /\ UNCHANGED <<focus, pc, layout, held, target, comp, demoted, pending, origin, stranded>>

\* TSF grants the queued finalize, whatever is composed elsewhere by then.
RunFinalize ==
    /\ pc = "idle" /\ Ending
    /\ comp' = NoComp /\ docs' = With(docs, comp.ctx, comp.unit)
    /\ UNCHANGED <<focus, pc, layout, held, target, demoted, pending, queue, origin,
                   gone, stranded>>

\* The host ends the composition by itself (CS_OnCompositionTerminated, which may demote
\* the current document): the text stays and the automaton starts afresh, even when what
\* it holds is another document's syllable.
Terminated ==
    /\ pc = "idle" /\ comp # NoComp
    /\ comp' = NoComp /\ docs' = With(docs, comp.ctx, comp.unit)
    /\ IF Kind(held) = "syllable"
       THEN held' = NoUnit /\ gone' = IF Ending THEN Lost(held, "dropped") ELSE gone
       ELSE UNCHANGED <<held, gone>>
    /\ demoted' \in {demoted, TRUE}
    /\ UNCHANGED <<focus, pc, layout, target, pending, queue, origin, stranded>>

Key ==
    \/ TestKeyDown \/ KeyNotEaten
    \/ JamoKeyCommit \/ JamoKeyInline \/ JamoKeyDemotes \/ JamoKeyElsewhere
    \/ ChordKeyDown \/ ChordKeyUp \/ SeqKey
    \/ BoundaryKey \/ Erase \/ RotateKey \/ PassthroughKey

Outside ==
    \/ \E c \in Ctxs : FocusChange(c)
    \/ LangBarSwitch \/ CompartmentSwitch \/ Deactivate

Environment ==
    \/ \E c \in Ctxs : RunInsert(c)
    \/ RunFinalize \/ Terminated

DeliveryNext == (Key \/ Outside \/ Environment) /\ UNCHANGED prompt

DeliverySpec == DeliveryInit /\ [][DeliveryNext]_deliveryVars

-----------------------------------------------------------------------------
\* Every variable has its type: the reader's summary of the state.
DeliveryTypeOK ==
    /\ prompt \in BOOLEAN
    /\ focus \in Ctxs /\ pc \in {"idle", "key"} /\ layout \in Layouts
    /\ held \in {NoUnit} \union Units
    /\ target \in Ctxs \union {NoCtx} /\ demoted \in BOOLEAN
    /\ comp \in [ctx : Ctxs, unit : Units] \union {NoComp}
    /\ pending \in [ctx : Ctxs \union {NoCtx}, unit : Units] \union {NoSlot}
    /\ queue \in [Ctxs -> Seq(Units)] /\ docs \in [Ctxs -> Seq(Units)]
    /\ origin \in Seq([home : Ctxs, kind : Layouts]) /\ Len(origin) <= MaxUnits
    /\ gone \in [Units -> Reasons \union {""}]
    /\ stranded \subseteq Units

Begun == 1 .. Len(origin)

\* Where unit u stands in a family of texts or queues, and everything that has it: a
\* document, a queue, the engine or the composition, the slot, or the list of losses.
Places(text, u) == UNION {{<<c, i>> : i \in {j \in DOMAIN text[c] : text[c][j] = u}} : c \in Ctxs}
Holders(u) ==
    {<<"doc", p>> : p \in Places(docs, u)} \union {<<"queue", p>> : p \in Places(queue, u)}
      \union {<<x, <<>>>> : x \in {y \in {"engine", "slot", "gone"} :
                                      CASE y = "engine" -> held = u \/ comp.unit = u
                                        [] y = "slot" -> pending.unit = u
                                        [] OTHER -> gone[u] # ""}}

\* "Exactly once" (transition.h:3): each unit the user began is in one place, in
\* one document once, in the engine or the composition, queued, pending, or
\* accounted for as lost; only the text of a failed composition that could not
\* be taken back may be there a second time.
ExactlyOnePlace ==
    \A u \in Begun \ stranded : \E x \in Holders(u) : Holders(u) = {x}

\* Text goes to "the target where the composition started, not where the focus
\* is now" (transition.h:4): no unit is, or is on its way, in another document.
RightDocument ==
    \A u \in Begun :
        /\ \A p \in Places(docs, u) \union Places(queue, u) : p[1] = origin[u].home
        /\ pending.unit = u => pending.ctx = origin[u].home

\* What the user is composing started in the focused document, the target that
\* will be used if the focus leaves is that document, and a composition in it shows
\* exactly this unit (one that a late finalize left in another document does not).
ComposedWhereStarted ==
    held # NoUnit =>
        /\ origin[held].home = focus
        /\ Kind(held) # "chord" => target = focus
        /\ comp.ctx = focus => comp.unit = held

\* Where the sessions run in time, the units stand in each document in the order in
\* which they were begun (those whose failed composition stayed behind apart).
InOrder ==
    prompt => \A c \in Ctxs : \A i, j \in 1 .. Len(docs[c]) :
        i < j /\ {docs[c][i], docs[c][j]} \intersect stranded = {} => docs[c][i] < docs[c][j]

\* "Not thrown away" (transition.h:3) for a syllable of the automaton: outside
\* key events it is never folded away unconfirmed; nor, where the sessions run in time,
\* dropped because the composition of another document was still to end.
SyllableNeverFolded ==
    \A u \in Begun :
        Kind(u) = "syllable" => gone[u] # "folded" /\ (prompt => gone[u] # "dropped")

\* The same however late the sessions run; this does not hold (text_service.c:209 and
\* 2038 take any composition for the syllable's own).
SyllableNeverDropped ==
    \A u \in Begun : Kind(u) = "syllable" => gone[u] # "dropped"

\* Both: what was typed is kept, in order.
KeptInOrder == InOrder /\ SyllableNeverFolded

\* The same for a reading: "the reading, too, is not lost when the focus moves
\* or the layout is switched from outside" (text_service.c:228).
ReadingNeverFolded ==
    \A u \in Begun : Kind(u) = "reading" => gone[u] # "folded"

\* The same for a moachigi syllable: "the remaining syllable is confirmed
\* exactly once (not thrown away)" (transition.h:3).
ChordNeverFolded ==
    \A u \in Begun : Kind(u) = "chord" => gone[u] # "folded"
=============================================================================

----------------------------- MODULE InlineComp ------------------------------
(***************************************************************************)
(* The composition in the document, call by call (comp_inline.c, and its   *)
(* callers OutputResultSeq and KES_OnKeyDown of text_service.c; Delivery   *)
(* has the same code with a session as one call).  In a key event a        *)
(* session is granted at once; outside one it is refused and asked for     *)
(* again, asynchronously.  Each event meets at most one call of TSF that   *)
(* fails.  The caret is at the end of the document.                        *)
(***************************************************************************)
EXTENDS Naturals, Sequences, SequencesExt

CONSTANTS
    Ctxs,         \* the documents (ITfContext)
    NoCtx,
    InlineCtxs,   \* those that take a standard composition
    DemoteLimit,  \* JAMO_PATH_DEMOTE_LIMIT
    MayFail,      \* <<event, call>>: the calls that may fail
    Late,         \* whether a key may overtake an accepted session
    MaxUnits,     \* bound: syllables begun
    MaxFaults,    \* bound: calls that fail
    MaxQueue      \* bound: sessions waiting

InlineCompAssumption ==
    /\ NoCtx \notin Ctxs /\ InlineCtxs \subseteq Ctxs
    /\ DemoteLimit \in Nat \ {0} /\ Late \in BOOLEAN
    /\ {MaxUnits, MaxFaults, MaxQueue} \subseteq Nat

VARIABLES
    focusCtx,     \* the document of the keys
    syllable,     \* the syllable in the automaton, 0 for none
    pComp,        \* pComposition, by its document (pCompContext)
    shown,        \* the text in its range
    updated,      \* compUpdatedOnce
    demerits,     \* pathDemerits
    demoted,      \* pathKind is COMMIT though the document could
    docs,         \* docs[c]: the text outside that range
    left,         \* left[c]: compositions of ours still open that are forgotten
    queue,        \* sessions accepted and not yet run, by what they do
    begun,        \* syllables begun
    faults,       \* calls that failed
    crashed       \* a null composition was used

compVars == <<focusCtx, syllable, pComp, shown, updated, demerits, demoted, docs, left,
              queue, begun, faults, crashed>>

Syllables == 1 .. MaxUnits

CompInit ==
    /\ focusCtx \in Ctxs /\ syllable = 0
    /\ pComp = NoCtx /\ shown = <<>> /\ updated = FALSE
    /\ demerits = 0 /\ demoted = FALSE
    /\ docs = [c \in Ctxs |-> <<>>] /\ left = [c \in Ctxs |-> 0]
    /\ queue = <<>> /\ begun = 0 /\ faults = 0 /\ crashed = FALSE

-----------------------------------------------------------------------------
(* One edit session, from a record of what it works on to the same record.  *)
(* call is the call in it that fails, or "none".                            *)

Here == [comp |-> pComp, shown |-> shown, updated |-> updated, demerits |-> demerits,
         demoted |-> demoted, docs |-> docs, left |-> left, held |-> syllable,
         crashed |-> crashed, ok |-> TRUE]
Failed(s) == [s EXCEPT !.ok = FALSE]

(* ForgetComposition after the composition was ended, and without: its text *)
(* stays where it is                                                        *)
ForgetComposition(s) ==
    [s EXCEPT !.comp = NoCtx, !.shown = <<>>, !.updated = FALSE, !.docs[s.comp] = @ \o s.shown]
Abandon(s) == [ForgetComposition(s) EXCEPT !.left[s.comp] = @ + 1]
End(s, call) == IF call = "end" THEN Failed(Abandon(s)) ELSE ForgetComposition(s)

(* A composition that lives is used again, and the document is sound; one   *)
(* that cannot be had is rolled back                                        *)
EnsureComposition(s, c, call) ==
    CASE call \in {"range", "start"} /\ (s.comp = NoCtx \/ call = "range") -> Failed(s)
      [] s.comp # NoCtx /\ call # "range" -> [s EXCEPT !.updated = TRUE, !.demerits = 0]
      [] OTHER -> [s EXCEPT !.comp = c, !.shown = <<>>, !.updated = FALSE]

(* CS_OnCompositionTerminated for our composition: the text stays, the next *)
(* key begins afresh, and a document that keeps ending compositions which   *)
(* never lived to an update is given up                                     *)
Terminated(s) ==
    LET n == IF s.updated THEN 0 ELSE IF s.demerits < DemoteLimit THEN s.demerits + 1 ELSE s.demerits
    IN  [ForgetComposition(s) EXCEPT !.held = 0, !.demerits = n,
                                     !.demoted = @ \/ (~s.updated /\ n = DemoteLimit)]

(* The text of the range is replaced; a composition made just now for a     *)
(* text that cannot be set is ended.  The document may answer by ending it. *)
SetText(s, c, text, made, call) ==
    LET set == [s EXCEPT !.shown = text]
    IN  CASE call = "setText" \/ s.comp # c -> Failed(IF made THEN ForgetComposition(s) ELSE s)
          [] call = "select" -> Failed(set)
          [] call = "terminated" -> Terminated(set)
          [] OTHER -> set

CommitPrefix(s, call) ==
    CASE s.comp = NoCtx -> [s EXCEPT !.crashed = TRUE]
      [] s.comp # NoCtx /\ call = "shift" -> Failed(s)
      [] OTHER -> [s EXCEPT !.docs[s.comp] = Append(@, Head(s.shown)), !.shown = Tail(@)]

(* COMP_OP_FINALIZE and COMP_OP_CANCEL; whatever fails, the composition is   *)
(* forgotten, and what SetText answers is not looked at                      *)
EndWork(s, op, call) ==
    LET clear == op = "cancel" /\ call \notin {"range", "setText"}
        ended == End(IF clear THEN [s EXCEPT !.shown = <<>>] ELSE s, call)
    IN  IF s.comp = NoCtx THEN s ELSE [ended EXCEPT !.ok = @ /\ call # "range"]

(* A syllable, or no one, as text                                            *)
Drawn(u) == IF u = 0 THEN <<>> ELSE <<u>>

(* COMP_OP_UPDATE: [commit][preedit] replaces the text, then the commit      *)
(* leaves the range; nothing at all cancels                                  *)
UpdateWork(s, c, r, call) ==
    LET text == Drawn(r.commit) \o Drawn(r.preedit)
        ensured == EnsureComposition(s, c, call)
        set == SetText(ensured, c, text, s.comp = NoCtx, call)
        pushed == CommitPrefix(set, call)
    IN  CASE text = <<>> -> EndWork(s, "cancel", call)
          [] text # <<>> /\ ~ensured.ok -> ensured
          [] text # <<>> /\ ensured.ok /\ (~set.ok \/ r.commit = 0) -> set
          [] OTHER -> IF pushed.ok /\ r.preedit = 0 /\ ~pushed.crashed THEN ForgetComposition(pushed)
                      ELSE pushed

(* JamoComp_Finalize and JamoComp_Cancel in a key event *)
InKey(s, op, call) ==
    LET done == EndWork(s, op, call)
    IN  IF s.comp = NoCtx THEN s
        ELSE IF call = "request" THEN Abandon(s) ELSE [done EXCEPT !.ok = TRUE]

(* JamoComp_Apply: what failed is cancelled, and the document is given up.   *)
(* A mutant gives it up and leaves what it wrote.                            *)
Apply_Leaves(s, c, r, call) ==
    LET done == IF call = "request" THEN Failed(s) ELSE UpdateWork(s, c, r, call)
    IN  IF done.ok \/ done.comp = NoCtx THEN done
        ELSE [ForgetComposition(done) EXCEPT !.ok = FALSE, !.demerits = DemoteLimit, !.demoted = TRUE]
JamoComp_Apply(s, c, r, call) ==
    LET done == IF call = "request" THEN Failed(s) ELSE UpdateWork(s, c, r, call)
    IN  IF done.ok THEN done
        ELSE [InKey(done, "cancel", "none") EXCEPT !.ok = FALSE, !.demerits = DemoteLimit, !.demoted = TRUE]

-----------------------------------------------------------------------------
(* Events *)

Calls(event) == {"none"} \cup {m[2] : m \in {x \in MayFail : x[1] = event /\ faults < MaxFaults}}

Becomes(s) ==
    /\ pComp' = s.comp /\ shown' = s.shown /\ updated' = s.updated
    /\ demerits' = s.demerits /\ demoted' = s.demoted
    /\ docs' = s.docs /\ left' = s.left /\ syllable' = s.held /\ crashed' = s.crashed
Charge(call) == faults' = IF call = "none" THEN faults ELSE faults + 1

Ready == ~crashed /\ (Late \/ queue = <<>>)
Standard == focusCtx \in InlineCtxs /\ ~demoted

(* OutputResultSeq with a result that is no flush: in the document, else     *)
(* the confirmed syllable alone (OutputResult); when that fails the key is   *)
(* taken back                                                                *)
OutputResultSeq(r, call) ==
    LET applied == JamoComp_Apply([Here EXCEPT !.held = r.preedit], focusCtx, r, call)
        tried == IF Standard THEN applied ELSE Failed([Here EXCEPT !.held = r.preedit])
        put == IF r.commit = 0 THEN tried.docs ELSE [tried.docs EXCEPT ![focusCtx] = Append(@, r.commit)]
    IN  IF tried.ok THEN tried
        ELSE IF call = "insert" /\ r.commit # 0 THEN [tried EXCEPT !.held = syllable]
        ELSE [tried EXCEPT !.docs = put]

(* A letter: a first syllable, the same one grown, or the next one begun *)
Letter ==
    /\ Ready
    /\ \E r \in [commit : {0, syllable}, preedit : {syllable, begun + 1} \cap Syllables],
          call \in Calls("letter") :
        /\ (syllable = 0 /\ r.commit = 0) \/ (syllable # 0 /\ (r.commit = 0 <=> r.preedit = syllable))
        /\ Becomes(OutputResultSeq(r, call))
        /\ begun' = IF r.preedit > begun THEN r.preedit ELSE begun
        /\ Charge(call)
    /\ UNCHANGED <<focusCtx, queue>>

(* Backspace takes a letter of the syllable, or the last one *)
Backspace ==
    /\ Ready /\ syllable # 0
    /\ \E rest \in {0, syllable}, call \in Calls("backspace") :
        /\ Becomes(OutputResultSeq([commit |-> 0, preedit |-> rest], call))
        /\ Charge(call)
    /\ UNCHANGED <<focusCtx, queue, begun>>

(* Space, Enter, an arrow: a syllable in a composition is there already; one *)
(* that is not is inserted, and gone when that fails.  A mutant inserts it   *)
(* in any case.                                                              *)
Inserted(s, call) ==
    [s EXCEPT !.docs[focusCtx] = IF call = "insert" THEN @ ELSE Append(@, syllable)]
FlushKey_Again(call) == [Inserted(InKey(Here, "finalize", call), call) EXCEPT !.held = 0]
FlushKey(call) ==
    [(IF pComp # NoCtx THEN InKey(Here, "finalize", call) ELSE Inserted(Here, call)) EXCEPT !.held = 0]
BoundaryFlush(call) ==
    /\ Ready /\ syllable # 0
    /\ Becomes(FlushKey(call)) /\ Charge(call)
    /\ UNCHANGED <<focusCtx, queue, begun>>
BoundaryKey == \E call \in Calls("boundary") : BoundaryFlush(call)

(* ResetComposition forgets what it knew of the document *)
Fresh(s) == [s EXCEPT !.held = 0, !.demerits = 0, !.demoted = FALSE]
EscapeKey ==
    /\ Ready /\ syllable # 0
    /\ \E call \in Calls("escape") : Becomes(Fresh(InKey(Here, "cancel", call))) /\ Charge(call)
    /\ UNCHANGED <<focusCtx, queue, begun>>

(* Outside a key event: the syllable that is in no composition goes to its   *)
(* document (Transition_FlushComposition); the composition is finalized at   *)
(* once, by a session that waits, or not at all                              *)
Delivered ==
    IF syllable # 0 /\ pComp = NoCtx THEN [Here EXCEPT !.docs[focusCtx] = Append(@, syllable)] ELSE Here
Finalize(s, call) ==
    \/ /\ Becomes(InKey(s, "finalize", call)) /\ UNCHANGED queue
    \/ /\ s.comp # NoCtx /\ call = "none" /\ Len(queue) < MaxQueue
       /\ Becomes(s) /\ queue' = Append(queue, "finalize")
FocusChange(c) ==
    /\ ~crashed /\ c # focusCtx /\ focusCtx' = c
    /\ \E call \in Calls("outside") : Finalize(Fresh(Delivered), call) /\ Charge(call)
    /\ UNCHANGED begun
LayoutSwitch ==
    /\ ~crashed
    /\ \E call \in Calls("outside") : Finalize(Fresh(Delivered), call) /\ Charge(call)
    /\ UNCHANGED <<focusCtx, begun>>

(* TIP_Deactivate folds without a flush: a syllable that is in no            *)
(* composition is gone.  JamoComp_Release forgets the composition even when  *)
(* its session waits.                                                        *)
DeactivateService ==
    /\ ~crashed
    /\ \E call \in Calls("outside") :
        /\ \/ Becomes(InKey(Fresh(Here), "finalize", call)) /\ UNCHANGED queue
           \/ /\ pComp # NoCtx /\ call = "none" /\ Len(queue) < MaxQueue
              /\ Becomes(Abandon(Fresh(Here))) /\ queue' = Append(queue, "finalize")
        /\ Charge(call)
    /\ UNCHANGED <<focusCtx, begun>>

(* A session that waited works on the composition there is when it runs *)
RunSession ==
    /\ ~crashed /\ queue # <<>> /\ queue' = Tail(queue)
    /\ \E call \in Calls("outside") \ {"request"} : Becomes(EndWork(Here, Head(queue), call)) /\ Charge(call)
    /\ UNCHANGED <<focusCtx, begun>>

(* The host ends a composition: ours, or one that is forgotten, which the    *)
(* sink tells by its pointer                                                 *)
HostEnds ==
    /\ ~crashed /\ pComp # NoCtx /\ Becomes(Terminated(Here))
    /\ UNCHANGED <<focusCtx, queue, begun, faults>>
HostEndsForgotten(c) ==
    /\ ~crashed /\ left[c] > 0 /\ left' = [left EXCEPT ![c] = @ - 1]
    /\ UNCHANGED <<focusCtx, syllable, pComp, shown, updated, demerits, demoted, docs, queue,
                   begun, faults, crashed>>

CompNext ==
    \/ Letter \/ Backspace \/ BoundaryKey \/ EscapeKey \/ LayoutSwitch \/ DeactivateService
    \/ RunSession \/ HostEnds
    \/ \E c \in Ctxs : FocusChange(c) \/ HostEndsForgotten(c)
CompSpec == CompInit /\ [][CompNext]_compVars

-----------------------------------------------------------------------------
(* Properties *)

Text == [c \in Ctxs |->
           docs[c] \o (IF pComp = c THEN shown ELSE <<>>)
                   \o (IF pComp = NoCtx /\ focusCtx = c THEN Drawn(syllable) ELSE <<>>)]
Abstract == INSTANCE TypedText WITH Docs <- Ctxs, Syllables <- Syllables, text <- Text

(* What takes back the syllable that is held: the user, and, while it is in  *)
(* no composition, a boundary key whose insertion fails and a deactivation   *)
TakesBack ==
    \/ Backspace \/ EscapeKey
    \/ pComp = NoCtx /\ (DeactivateService \/ BoundaryFlush("insert"))

(* While no key comes before a session that waits (~Late): however it is     *)
(* composed, moved out of the composition, redrawn, refused or ended by the  *)
(* host, and whichever one call of an event fails, a syllable stands once in *)
(* its document or waits in the automaton to be put there (DoInlineWork,     *)
(* JamoComp_Apply, CS_OnCompositionTerminated); a step types at the keys'    *)
(* document, and only TakesBack takes the held one back.  It is the          *)
(* refinement of TypedText: [][Abstract!Next]_Text follows.  That Text stays *)
(* where no variable changes is seen before TLC computes it.                 *)
TypesOrTakesBack ==
    \/ \E u \in Syllables : Abstract!Type(focusCtx, u)
    \/ TakesBack /\ Abstract!Erase(focusCtx, syllable)
TextIsAsTyped ==
    Abstract!Init /\ [][compVars' # compVars => [TypesOrTakesBack]_Text]_compVars

(* A key of one synchronous transaction never works on a composition that    *)
(* the document has ended in the middle of it (CommitPrefix)                  *)
NeverANullComposition == ~crashed

(* What remains is confirmed: once nothing waits, no composition of ours     *)
(* stays open without a call having failed (JamoComp_Release)                 *)
NoneLeftOpen == queue = <<>> /\ faults = 0 => \A c \in Ctxs : left[c] = 0
==============================================================================

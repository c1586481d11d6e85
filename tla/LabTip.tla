------------------------------- MODULE LabTip --------------------------------
(***************************************************************************)
(* The text service of the TSF laboratory (examples/standard-tsf-lab): it   *)
(* composes Hangul2's syllables in a real composition of the application,   *)
(* one synchronous edit session per key, and publishes the automaton's next *)
(* state only when the session succeeded.                                   *)
(*                                                                         *)
(* A call of TSF may fail: a session meets at most one failing call.  Of a  *)
(* document the model keeps the text before the composition's range, the    *)
(* text in it and what the application put behind it; a backspace that      *)
(* reaches the application is not modelled.                                 *)
(***************************************************************************)
EXTENDS Hangul2, FiniteSets, Functions

CONSTANTS
    Ctxs,       \* the contexts of the thread
    Keys,       \* letters (JamoKey) and the other keys, [kind, index]
    MayFail,    \* <<command, call>>: the calls that may fail, by the session they are in
    MaxKeys,    \* bound: keys that stand in the documents
    MaxFaults   \* bound: failing calls

VARIABLES
    active,     \* the service is activated
    open,       \* fallback_open
    cell,       \* GUID_COMPARTMENT_KEYBOARD_OPENCLOSE: "empty", "on" or "off"
    disabled,   \* contexts that switch the keyboard off, such as a password field
    states,     \* the contexts the service keeps a LabContextState of
    hangul,     \* its automaton
    known,      \* st->composition is set
    alive,      \* the application has a composition of ours
    doc,        \* the document
    typed,      \* history: how often each key shall stand in the document
    upset,      \* history: contexts in which a call failed that is not made up for
    faults, crashed

vars == <<active, open, cell, disabled, states, hangul, known, alive, doc, typed, upset, faults,
          crashed>>
serviceVars == <<active, open, cell, disabled>>
contextVars == <<states, hangul, known, alive, doc, typed, upset, crashed>>

NoText == [before |-> <<>>, comp |-> <<>>, after |-> <<>>]
WholeText(d) == d.before \o d.comp \o d.after
IsLetter(key) == key.kind \in {"initial", "vowel"}

Init ==
    /\ active = TRUE /\ open = FALSE /\ cell = "off"
    /\ disabled \in SUBSET Ctxs
    /\ states = {}
    /\ hangul = [c \in Ctxs |-> Hangul2_Reset]
    /\ known = [c \in Ctxs |-> FALSE]
    /\ alive = [c \in Ctxs |-> FALSE]
    /\ doc = [c \in Ctxs |-> NoText]
    /\ typed = [c \in Ctxs |-> [key \in Keys |-> 0]]
    /\ upset = {} /\ faults = 0
    /\ crashed = FALSE

\* The call of this session that fails, or "none".
Failing(command) ==
    {"none"} \cup {call \in {m[2] : m \in MayFail} : <<command, call>> \in MayFail /\ faults < MaxFaults}
Charge(call) == faults' = faults + (IF call = "none" THEN 0 ELSE 1)

\* The service makes nothing up: when a session that ends a composition is refused, the automaton
\* is reset all the same and the next letter overwrites the text; the clearing of a cancelled one is
\* not looked at; and when a step fails, or its composition is ended, after its text was written,
\* the key goes to the application too.
Unmended ==
    {"finalize", "cancel"} \X {"request"} \cup {<<"cancel", "setText">>}
    \cup {"step"} \X {"selection", "shift", "terminated"}
Upsets(c, command, call) ==
    upset' = IF <<command, call>> \in Unmended THEN upset \cup {c} ELSE upset

------------------------------------------------------------------------------
(* The open state of the keyboard.                                           *)

Lab_IsKeyboardOpen == IF cell = "empty" THEN open ELSE cell = "on"

\* Our own copy first; the compartment may refuse.
Lab_SetKeyboardOpen(on, fails) ==
    /\ open' = on
    /\ cell' = IF fails = "write" THEN cell ELSE IF on THEN "on" ELSE "off"
    /\ UNCHANGED <<active, disabled>>

Lab_ClassifyKey(c, key) ==
    LET composing == c \in states /\ ~Hangul2_IsEmpty(hangul[c])
    IN  CASE key.kind = "toggle" -> "TOGGLE"
          [] key.kind # "toggle" /\ c \in disabled -> "PASS"
          [] c \notin disabled /\ key.kind = "shortcut" -> IF composing THEN "FINALIZE" ELSE "PASS"
          [] c \notin disabled /\ key.kind \in {"boundary", "digit"} ->
                IF Lab_IsKeyboardOpen /\ composing THEN "FINALIZE" ELSE "PASS"
          [] c \notin disabled /\ key.kind = "back" ->
                IF Lab_IsKeyboardOpen /\ composing THEN "BACKSPACE" ELSE "PASS"
          [] c \notin disabled /\ IsLetter(key) -> IF Lab_IsKeyboardOpen THEN "HANGUL" ELSE "PASS"

------------------------------------------------------------------------------
(* An edit session.  Context is what it reads and leaves: the automaton, the  *)
(* two views of the composition and the document; ok is its result.           *)

Context(c) == [hangul |-> hangul[c], known |-> known[c], alive |-> alive[c], doc |-> doc[c],
               crashed |-> crashed, ok |-> TRUE]
Failed(s) == [s EXCEPT !.ok = FALSE]
Lab_ForgetComposition(s) == [s EXCEPT !.known = FALSE]
Ended(s) == [s EXCEPT !.alive = FALSE,
                      !.doc = [NoText EXCEPT !.before = WholeText(s.doc)]]

\* A composition that cannot be used at once is rolled back.
EnsureComposition(s, call) ==
    IF call = "range" \/ (call = "start" /\ ~s.known) THEN Failed(s)
    ELSE IF s.known THEN s
    ELSE [s EXCEPT !.known = TRUE, !.alive = TRUE,
                   !.doc = [NoText EXCEPT !.before = WholeText(s.doc)]]

CS_OnCompositionTerminated(s) ==
    [Lab_ForgetComposition(Ended(s)) EXCEPT !.hangul = IF s.known THEN Hangul2_Reset ELSE @]

\* The application may answer the text by terminating the composition.
ReplacePreedit(s, chars, call) ==
    LET written == [s EXCEPT !.doc.comp = chars]
        next == IF call = "terminated" THEN CS_OnCompositionTerminated(written) ELSE written
    IN  CASE call = "setText" -> Failed(s)
          [] call = "selection" -> Failed(next)
          [] OTHER -> next

\* The committed characters leave the range; without a composition this is a null pointer.
CommitPrefix(s, n, call) ==
    CASE ~s.known -> [s EXCEPT !.crashed = TRUE, !.ok = FALSE]
      [] s.known /\ call = "shift" -> Failed(s)
      [] OTHER -> [s EXCEPT !.doc.before = @ \o SubSeq(s.doc.comp, 1, n),
                            !.doc.comp = SubSeq(@, n + 1, Len(@))]

UpdateOrCommit(s, step, call) ==
    LET n == Len(step.committed)
        preedit == Hangul2_Preedit(step.next)
        ensured == EnsureComposition(s, call)
        replaced == ReplacePreedit(ensured, step.committed \o preedit, call)
        pushed == CommitPrefix(replaced, n, call)
    IN  CASE ~ensured.ok -> ensured
          [] ensured.ok /\ (~replaced.ok \/ n = 0) -> replaced
          [] OTHER -> IF pushed.ok /\ preedit = <<>> THEN Lab_ForgetComposition(Ended(pushed)) ELSE pushed

\* Whatever fails inside, the composition is forgotten.
FinalizeOrCancel(s, command, call) ==
    LET read == IF command = "cancel" /\ call \notin {"range", "setText"}
                THEN [s EXCEPT !.doc.comp = <<>>] ELSE s
        left == IF call = "end" THEN read ELSE Ended(read)
    IN  IF s.known THEN [Lab_ForgetComposition(left) EXCEPT !.ok = call # "range"] ELSE s

\* A wrong one: the automaton moves before the session has.
PublishAnyway(s, step, call) ==
    [(IF call = "request" THEN Failed(s) ELSE UpdateOrCommit(s, step, call)) EXCEPT !.hangul = step.next]

\* Only a session that succeeded moves the automaton.
Lab_ApplyStep(s, step, call) ==
    LET done == IF call = "request" THEN Failed(s) ELSE UpdateOrCommit(s, step, call)
    IN  IF done.ok THEN [done EXCEPT !.hangul = step.next] ELSE done

\* The automaton is reset even when the session was refused.
Lab_FinalizeComposition(s, command, call) ==
    IF ~s.known /\ Hangul2_IsEmpty(s.hangul) THEN s
    ELSE [(IF call = "request" THEN Failed(s) ELSE FinalizeOrCancel(s, command, call))
             EXCEPT !.hangul = Hangul2_Reset]

\* The call cannot fail in a session that is not asked for.
NeedsSession(c, call) == call = "none" \/ known[c] \/ ~Hangul2_IsEmpty(hangul[c])

\* A key that nobody took is typed by the application.
Raw(d, key) == [d EXCEPT !.after = Append(@, key)]

------------------------------------------------------------------------------

Leave(c, s) ==
    /\ hangul' = [hangul EXCEPT ![c] = s.hangul]
    /\ known' = [known EXCEPT ![c] = s.known]
    /\ alive' = [alive EXCEPT ![c] = s.alive]
    /\ doc' = [doc EXCEPT ![c] = s.doc]
    /\ crashed' = s.crashed

Lab_EnsureContext(c) == states' = states \cup {c}
Typed(c, key) == typed' = [typed EXCEPT ![c][key] = @ + 1]
TypedKeys == SumFunction([c \in Ctxs |-> SumFunction(typed[c])])

\* A wrong fold: the composition stays ours.
ResetAndPass(s, key) == [s EXCEPT !.hangul = Hangul2_Reset, !.doc = Raw(@, key)]

\* A refused step folds the composition and hands the key to the application.
FoldAndPass(s, key) ==
    [Lab_ForgetComposition(s) EXCEPT !.hangul = Hangul2_Reset, !.doc = Raw(@, key)]

HandleHangul(c, key) ==
    \E call \in Failing("step") :
        LET s == Lab_ApplyStep(Context(c), Hangul2_Step(hangul[c], key), call)
        IN  /\ Lab_EnsureContext(c)
            /\ Leave(c, IF s.ok THEN s ELSE FoldAndPass(s, key))
            /\ Typed(c, key)
            /\ Charge(call) /\ Upsets(c, "step", call)
            /\ UNCHANGED serviceVars

HandleBackspace(c) ==
    LET step == Hangul2_Backspace(hangul[c])
        command == IF Hangul2_IsEmpty(step.next) THEN "cancel" ELSE "step"
    IN  \E call \in Failing(command) :
            LET s == IF command = "cancel" THEN Lab_FinalizeComposition(Context(c), "cancel", call)
                     ELSE Lab_ApplyStep(Context(c), step, call)
            IN  /\ Leave(c, s)
                /\ typed' = IF s.ok THEN [typed EXCEPT ![c][Last(hangul[c].history)] = @ - 1] ELSE typed
                /\ Charge(call) /\ Upsets(c, command, call)
                /\ UNCHANGED <<states, serviceVars>>

\* OnTestKeyDown does it already; the key itself goes to the application.
FinalizeAndPass(c, key) ==
    \E call \in Failing("finalize") :
        LET s == Lab_FinalizeComposition(Context(c), "finalize", call)
        IN  /\ Leave(c, [s EXCEPT !.doc = Raw(@, key)])
            /\ Typed(c, key)
            /\ Charge(call) /\ Upsets(c, "finalize", call)
            /\ UNCHANGED <<states, serviceVars>>

Pass(c, key) ==
    /\ key.kind # "back"
    /\ doc' = [doc EXCEPT ![c] = Raw(@, key)]
    /\ Typed(c, key)
    /\ UNCHANGED <<states, hangul, known, alive, upset, crashed, faults, serviceVars>>

HandleToggle(c) ==
    \E call \in Failing("finalize"), fails \in Failing("open") :
        /\ call = "none" \/ (fails = "none" /\ c \in states /\ NeedsSession(c, call))
        /\ IF c \in states THEN Leave(c, Lab_FinalizeComposition(Context(c), "finalize", call))
           ELSE UNCHANGED <<hangul, known, alive, doc, crashed>>
        /\ Lab_SetKeyboardOpen(~Lab_IsKeyboardOpen, fails)
        /\ faults' = faults + (IF call = "none" /\ fails = "none" THEN 0 ELSE 1)
        /\ Upsets(c, "finalize", call)
        /\ UNCHANGED <<states, typed>>

KS_OnKeyDown(c, key) ==
    /\ active /\ ~crashed
    /\ TypedKeys < MaxKeys
    /\ \/ Lab_ClassifyKey(c, key) = "TOGGLE" /\ HandleToggle(c)
       \/ Lab_ClassifyKey(c, key) = "HANGUL" /\ HandleHangul(c, key)
       \/ Lab_ClassifyKey(c, key) = "BACKSPACE" /\ HandleBackspace(c)
       \/ Lab_ClassifyKey(c, key) = "FINALIZE" /\ FinalizeAndPass(c, key)
       \/ Lab_ClassifyKey(c, key) = "PASS" /\ Pass(c, key)

\* Shift+Space comes here, before any key handler.
KS_OnPreservedKey ==
    /\ active /\ ~crashed
    /\ \E fails \in Failing("open") :
          Lab_SetKeyboardOpen(~Lab_IsKeyboardOpen, fails) /\ Charge(fails)
    /\ UNCHANGED contextVars

\* The application ends the composition on its own.
HostTerminates(c) ==
    /\ alive[c]
    /\ Leave(c, CS_OnCompositionTerminated(Context(c)))
    /\ UNCHANGED <<states, typed, upset, faults, serviceVars>>

TS_OnPushContext(c) ==
    /\ active /\ c \notin states
    /\ Lab_EnsureContext(c)
    /\ UNCHANGED <<hangul, known, alive, doc, typed, upset, crashed, faults, serviceVars>>

\* The context is gone with its document.
TS_OnPopContext(c) ==
    /\ c \in states
    /\ states' = states \ {c}
    /\ Leave(c, [hangul |-> Hangul2_Reset, known |-> FALSE, alive |-> FALSE, doc |-> NoText,
                 crashed |-> crashed])
    /\ typed' = [typed EXCEPT ![c] = [key \in Keys |-> 0]] /\ upset' = upset \ {c}
    /\ UNCHANGED <<faults, serviceVars>>

\* Compositions are finalized; then every state is released.
SVC_Deactivate ==
    /\ active /\ ~crashed
    /\ \E call \in Failing("finalize"), at \in Ctxs :
          /\ call = "none" \/ known[at]
          /\ LET left == [c \in Ctxs |->
                            IF known[c] THEN Lab_FinalizeComposition(Context(c), "finalize",
                                                IF c = at THEN call ELSE "none")
                            ELSE Context(c)]
             IN  /\ alive' = [c \in Ctxs |-> left[c].alive]
                 /\ doc' = [c \in Ctxs |-> left[c].doc]
          /\ Charge(call)
    /\ hangul' = [c \in Ctxs |-> Hangul2_Reset]
    /\ known' = [c \in Ctxs |-> FALSE]
    /\ states' = {}
    /\ active' = FALSE
    /\ UNCHANGED <<open, cell, disabled, typed, upset, crashed>>

\* It never starts switched on.
SVC_Activate ==
    /\ ~active
    /\ active' = TRUE /\ open' = FALSE /\ cell' = "off"
    /\ UNCHANGED <<disabled, contextVars, faults>>

Next ==
    \/ \E c \in Ctxs, key \in Keys : KS_OnKeyDown(c, key)
    \/ KS_OnPreservedKey
    \/ \E c \in Ctxs : HostTerminates(c) \/ TS_OnPushContext(c) \/ TS_OnPopContext(c)
    \/ SVC_Deactivate
    \/ SVC_Activate

Spec == Init /\ [][Next]_vars

------------------------------------------------------------------------------

\* The keys a character was typed with.
KeysOf(char) ==
    IF "kind" \in DOMAIN char THEN <<char>>
    ELSE (IF char.l >= 0 THEN <<JamoKey("initial", char.l)>> ELSE <<>>)
         \o (IF char.v >= 0 THEN <<JamoKey("vowel", char.v)>> ELSE <<>>)
         \o (IF char.t > 0 THEN <<JamoKey("initial", Hangul2_FinalToInitial(char.t))>> ELSE <<>>)

Times(key, keys) == Cardinality({i \in DOMAIN keys : keys[i] = key})

\* Whichever call of a session fails, save those the service makes nothing up for, each key that
\* was typed in a context stands in its document once, in a syllable or as the plain letter the
\* application put there; and what goes wrong in another context changes nothing in this one.
EveryKeyOnce ==
    ~crashed => \A c \in Ctxs \ upset :
        LET whole == WholeText(doc[c])
            keys == FlattenSeq([i \in DOMAIN whole |-> KeysOf(whole[i])])
        IN  \A key \in Keys : Times(key, keys) = typed[c][key]

\* What the automaton composes is what the application shows underlined.
ComposedIsShown ==
    ~crashed => \A c \in Ctxs \ upset : ~Hangul2_IsEmpty(hangul[c]) =>
        known[c] /\ alive[c] /\ doc[c].comp = Hangul2_Preedit(hangul[c])

\* Switching the keyboard off leaves no composition behind (text_service.c:155).
ClosedHasNoComposition == active /\ ~Lab_IsKeyboardOpen => \A c \in Ctxs : ~known[c]

\* An application may terminate a composition while we write (composition.c:749).
NeverANullComposition == ~crashed
==============================================================================

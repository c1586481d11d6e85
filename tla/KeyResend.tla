------------------------------ MODULE KeyResend ------------------------------
(***************************************************************************)
(* Boundary keys sent again (text_service.c 909-1002, 1165-1179;           *)
(* Trans_ResendRoute of transition.c).  A key that ends a composition      *)
(* (Enter, an arrow) is eaten, the syllable is committed, and about 30 ms  *)
(* later the key is sent to the window again: posted to its queue if it is *)
(* of the EDIT family, else through SendInput.  There is one slot for the  *)
(* whole process, shared by the instances of the service.                  *)
(*                                                                         *)
(* Everything the user does is an event in the system's input queue, taken *)
(* by the window that has the focus at that time.  A window takes posted   *)
(* messages and input in any order.  Time is not modelled: the timer may   *)
(* fire at any moment.                                                     *)
(***************************************************************************)
EXTENDS Naturals, Sequences, FiniteSets

CONSTANTS
    Windows,
    NoWindow,
    Services,        \* the instances of the service in the process
    NoService,
    ServiceOf,       \* window -> its instance, NoService in another process
    EditFamily,      \* the windows that answer EM_GETSEL (IsEditFamily)
    Queued,          \* those that get committed text by a message (CUAS)
    MaxEvents,       \* bound on the user's events
    MayFail          \* whether system calls may fail

ASSUME ResendAssumption ==
    /\ NoWindow \notin Windows /\ NoService \notin Services
    /\ ServiceOf \in [Windows -> Services \union {NoService}]
    /\ EditFamily \subseteq Windows /\ Queued \subseteq Windows
    /\ MaxEvents \in Nat /\ MayFail \in BOOLEAN

VARIABLES
    focus,           \* the window with the focus
    alive,           \* the windows that exist
    active,          \* the instances between Activate and Deactivate
    composing,       \* per instance, the syllable in its automaton, 0 for none
    slot,            \* g_pendResendVk, g_pendResendHwnd, g_pendResendOwner
    timer,           \* g_pendResendTimer # 0
    input,           \* the system's input queue
    posted,          \* per window, its posted messages
    docs,            \* per window, the text and the keys it has received
    typed,           \* history: the number of events so far
    resent,          \* history: key -> the window it was typed in, when eaten
    dropped,         \* history: the keys given up
    failed           \* history: a call has failed (focus window, timer, post, injection)

vars == <<focus, alive, active, composing, slot, timer, input, posted, docs,
          typed, resent, dropped, failed>>

Events == 1 .. MaxEvents
Items  == [kind : {"text", "key"}, n : Events]
Inputs == [kind : {"jamo", "key", "sent"}, n : Events] \union [kind : {"click"}, to : Windows]
NoKey  == 0
Text(n) == [kind |-> "text", n |-> n]
Key(n)  == [kind |-> "key", n |-> n]
Put(queues, w, item) == [queues EXCEPT ![w] = Append(@, item)]

Init ==
    /\ focus \in Windows /\ alive = Windows /\ active = Services
    /\ composing = [s \in Services |-> NoKey]
    /\ slot = [key |-> NoKey, target |-> NoWindow, owner |-> NoService] /\ timer = FALSE
    /\ input = <<>> /\ posted = [w \in Windows |-> <<>>] /\ docs = [w \in Windows |-> <<>>]
    /\ typed = 0 /\ resent = [n \in {} |-> NoWindow] /\ dropped = {} /\ failed = FALSE

-----------------------------------------------------------------------------
\* The user presses a jamo key, a boundary key, or clicks into a window.
Press ==
    /\ typed < MaxEvents /\ typed' = typed + 1
    /\ \/ \E kind \in {"jamo", "key"} : input' = Append(input, [kind |-> kind, n |-> typed + 1])
       \/ \E w \in alive : input' = Append(input, [kind |-> "click", to |-> w])
    /\ UNCHANGED <<focus, alive, active, composing, slot, timer, posted, docs, resent, dropped, failed>>

\* CommitText of the syllable m in w: into the text, or as a message to the window.
DocsAfter(w, m)   == IF m = NoKey \/ w \in Queued THEN docs ELSE Put(docs, w, Text(m))
PostedAfter(w, m) == IF m # NoKey /\ w \in Queued THEN Put(posted, w, Text(m)) ELSE posted

\* Trans_ResendRoute.  Mutants: an EDIT window is treated as any other; it is posted
\* to only when it has lost the focus.
Route_NeverPost(target) ==
    IF target = NoWindow THEN "sendinput"
    ELSE IF target \in alive /\ focus = target THEN "sendinput" ELSE "drop"
Route_FocusFirst(target) ==
    IF target = NoWindow THEN "sendinput"
    ELSE IF target \notin alive THEN "drop"
    ELSE IF focus = target THEN "sendinput"
    ELSE IF target \in EditFamily THEN "post" ELSE "drop"
Route(target) ==
    IF target = NoWindow THEN "sendinput"
    ELSE IF target \notin alive THEN "drop"
    ELSE IF target \in EditFamily THEN "post"
    ELSE IF focus = target THEN "sendinput" ELSE "drop"

\* What sending key k makes of the queues q = [input, posted, dropped, failed].
Dropped(k, q) == [q EXCEPT !.dropped = @ \union {k}]
Failed(q)     == [q EXCEPT !.failed = TRUE]

\* SendKeyThrough: a marked key at the end of the input queue, or nothing (UIPI).
SendKeyThrough(k, q) ==
    {[q EXCEPT !.input = Append(@, [kind |-> "sent", n |-> k])]}
    \union (IF MayFail THEN {Dropped(k, Failed(q))} ELSE {})

ResendKeyNow(k, target, q) ==
    CASE Route(target) = "sendinput" -> SendKeyThrough(k, q)
      [] Route(target) = "drop"      -> {Dropped(k, q)}
      [] Route(target) = "post"      ->
            {[q EXCEPT !.posted[target] = Append(@, Key(k))]}
            \union (IF ~MayFail THEN {}
                    ELSE IF focus = target THEN SendKeyThrough(k, Failed(q))
                    ELSE {Dropped(k, Failed(q))})

Queues(i, p) == [input |-> i, posted |-> p, dropped |-> dropped, failed |-> failed]
Become(q) == /\ input' = q.input /\ posted' = q.posted
             /\ dropped' = q.dropped /\ failed' = q.failed

\* ScheduleKeyResend, first half: the key that still waits is sent now.
\* Mutant: it is overwritten.
Emitted_Overwrites(q) == {q}
Emitted(q) == IF timer THEN ResendKeyNow(slot.key, slot.target, q) ELSE {q}

\* Second half: the slot takes key n and the timer is set; if that fails, the key
\* is sent at once.  Mutant: it waits all the same.
Untimed_Waits(n, target, q) == {q}
Untimed(n, target, q)       == ResendKeyNow(n, target, q)
Schedule(n, s, q) ==
    \E target \in {focus} \union (IF MayFail THEN {NoWindow} ELSE {}) :
        /\ slot' = [key |-> n, target |-> target, owner |-> s]
        /\ \/ timer' = TRUE /\ Become(IF target = NoWindow THEN Failed(q) ELSE q)
           \/ MayFail /\ timer' = FALSE /\ \E r \in Untimed(n, target, Failed(q)) : Become(r)

-----------------------------------------------------------------------------
Serviced == ServiceOf[focus] \in active

\* A jamo key in the automaton: it extends the syllable, or begins the next one.
TakeJamo ==
    /\ input # <<>> /\ Head(input).kind = "jamo"
    /\ LET s == ServiceOf[focus]
           n == Head(input).n
       IN  \/ /\ Serviced
              /\ docs' = DocsAfter(focus, composing[s])
              /\ posted' = PostedAfter(focus, composing[s])
              /\ composing' = [composing EXCEPT ![s] = n]
           \/ /\ Serviced /\ composing[s] # NoKey
              /\ UNCHANGED <<docs, posted, composing>>
           \/ /\ ~Serviced
              /\ docs' = Put(docs, focus, Key(n)) /\ UNCHANGED <<posted, composing>>
    /\ input' = Tail(input)
    /\ UNCHANGED <<focus, alive, active, slot, timer, typed, resent, dropped, failed>>

\* OnKeyDown of a boundary key during a composition: the syllable is committed,
\* then ScheduleKeyResend.
EatKey ==
    /\ input # <<>> /\ Head(input).kind = "key"
    /\ Serviced /\ composing[ServiceOf[focus]] # NoKey
    /\ LET s == ServiceOf[focus]
           n == Head(input).n
           q == Queues(Tail(input), PostedAfter(focus, composing[s]))
       IN  /\ docs' = DocsAfter(focus, composing[s])
           /\ composing' = [composing EXCEPT ![s] = NoKey]
           /\ resent' = [k \in DOMAIN resent \union {n} |-> IF k = n THEN focus ELSE resent[k]]
           /\ \E r \in Emitted(q) : Schedule(n, s, r)
    /\ UNCHANGED <<focus, alive, active, typed>>

\* Without one the key is not eaten; a marked key never is.
TakeKey ==
    /\ input # <<>>
    /\ \/ Head(input).kind = "sent"
       \/ /\ Head(input).kind = "key"
          /\ Serviced => composing[ServiceOf[focus]] = NoKey
    /\ docs' = Put(docs, focus, Key(Head(input).n))
    /\ input' = Tail(input)
    /\ UNCHANGED <<focus, alive, active, composing, slot, timer, posted, typed, resent, dropped, failed>>

\* The focus goes to w; what was being composed is confirmed where it was.
FocusTo(w) ==
    /\ focus' = w
    /\ IF Serviced /\ w # focus
       THEN /\ docs' = DocsAfter(focus, composing[ServiceOf[focus]])
            /\ posted' = PostedAfter(focus, composing[ServiceOf[focus]])
            /\ composing' = [composing EXCEPT ![ServiceOf[focus]] = NoKey]
       ELSE UNCHANGED <<docs, posted, composing>>
    /\ UNCHANGED <<alive, active, slot, timer, typed, resent, dropped, failed>>

\* By a click, which the window may have lost by now, or by a program.
TakeClick ==
    /\ input # <<>> /\ Head(input).kind = "click"
    /\ input' = Tail(input)
    /\ FocusTo(IF Head(input).to \in alive THEN Head(input).to ELSE focus)

FocusMoves == \E w \in alive \ {focus} : FocusTo(w) /\ UNCHANGED input

\* A window takes its next posted message.
TakePosted(w) ==
    /\ posted[w] # <<>>
    /\ docs' = Put(docs, w, Head(posted[w]))
    /\ posted' = [posted EXCEPT ![w] = Tail(@)]
    /\ UNCHANGED <<focus, alive, active, composing, slot, timer, input, typed, resent, dropped, failed>>

\* ResendTimerProc.
ResendTimerProc ==
    /\ timer /\ timer' = FALSE
    /\ \E r \in ResendKeyNow(slot.key, slot.target, Queues(input, posted)) : Become(r)
    /\ UNCHANGED <<focus, alive, active, composing, slot, docs, typed, resent>>

\* FlushPendingKeyResend of s: only its own key.  Mutant: no instance's.
IsOwn_Nobody(s) == FALSE
IsOwn(s)        == slot.owner \in {s, NoService}
Deactivate(s) ==
    /\ s \in active /\ active' = active \ {s}
    /\ composing' = [composing EXCEPT ![s] = NoKey]
    /\ IF timer /\ IsOwn(s)
       THEN /\ timer' = FALSE /\ slot' = [slot EXCEPT !.owner = NoService]
            /\ \E r \in ResendKeyNow(slot.key, slot.target, Queues(input, posted)) : Become(r)
       ELSE UNCHANGED <<timer, slot, input, posted, dropped, failed>>
    /\ UNCHANGED <<focus, alive, docs, typed, resent>>

Activate(s) ==
    /\ s \notin active /\ active' = active \union {s}
    /\ UNCHANGED <<focus, alive, composing, slot, timer, input, posted, docs, typed, resent, dropped, failed>>

\* A window without the focus is destroyed, with its messages.
Destroy(w) ==
    /\ w \in alive \ {focus} /\ alive' = alive \ {w}
    /\ dropped' = dropped \union {posted[w][i].n : i \in {j \in DOMAIN posted[w] : posted[w][j].kind = "key"}}
    /\ posted' = [posted EXCEPT ![w] = <<>>]
    /\ UNCHANGED <<focus, active, composing, slot, timer, input, docs, typed, resent, failed>>

TakeInput == TakeJamo \/ EatKey \/ TakeKey \/ TakeClick

Next ==
    \/ Press \/ TakeInput \/ FocusMoves \/ ResendTimerProc
    \/ \E w \in Windows : TakePosted(w) \/ Destroy(w)
    \/ \E s \in Services : Activate(s) \/ Deactivate(s)

\* The threads pump their messages: input, posted messages and timers are taken in
\* the end.  Nothing is assumed of the user and of the applications.
Fairness ==
    /\ WF_vars(TakeInput) /\ WF_vars(ResendTimerProc)
    /\ \A w \in Windows : WF_vars(TakePosted(w))

Spec     == Init /\ [][Next]_vars
FairSpec == Spec /\ Fairness

-----------------------------------------------------------------------------
\* Every variable has its type, and no key floods the queue: it never holds more
\* events than the user made.
TypeOK ==
    /\ focus \in alive /\ alive \subseteq Windows /\ active \subseteq Services
    /\ composing \in [Services -> Events \union {NoKey}]
    /\ slot \in [key : Events \union {NoKey}, target : Windows \union {NoWindow},
                 owner : Services \union {NoService}]
    /\ timer \in BOOLEAN
    /\ input \in Seq(Inputs) /\ posted \in [Windows -> Seq(Items)] /\ docs \in [Windows -> Seq(Items)]
    /\ typed \in 0 .. MaxEvents /\ Len(input) <= typed
    /\ DOMAIN resent \subseteq Events /\ resent \in [DOMAIN resent -> Windows]
    /\ dropped \subseteq Events /\ failed \in BOOLEAN

At(seq, item)        == {i \in DOMAIN seq : seq[i] = item}
Places(queues, item) == UNION {{w} \X At(queues[w], item) : w \in Windows}

\* Everything that has the key k: the input queue, a window's messages, a text, the slot
\* while its timer runs, or the list of what was given up.
Holders(k) ==
    {<<"input", i>> : i \in At(input, [kind |-> "sent", n |-> k])}
      \union {<<"posted", p>> : p \in Places(posted, Key(k))}
      \union {<<"docs", p>> : p \in Places(docs, Key(k))}
      \union {<<x, 0>> : x \in {y \in {"slot", "dropped"} :
                                   IF y = "slot" THEN timer /\ slot.key = k ELSE k \in dropped}}

\* An eaten key is not lost and not doubled ("not thrown away but sent at once",
\* text_service.c:989): it waits in the slot, is in one queue, was received once, or
\* was given up, whatever instances come and go.
EachKeyOnce == \A k \in DOMAIN resent : \E x \in Holders(k) : Holders(k) = {x}

\* While the timer runs its instance is active: no callback comes into a service
\* that was deactivated, and none is forgotten (W0-02).
TimerHasOwner == timer => slot.owner \in active

\* A key typed in an EDIT window comes to that window or to none, wherever the
\* focus is when the timer fires (transition.h: "only to the window of the booking"),
\* unless a call failed.
EditKeyStaysHome ==
    \A k \in DOMAIN resent, w \in Windows :
        /\ ~failed
        /\ resent[k] \in EditFamily /\ At(docs[w], Key(k)) # {}
        => w = resent[k]

\* In an EDIT window the key comes after all the text typed before it, also if that
\* text travels as a message (text_service.c:929: it "cannot overtake").
KeyAfterItsText ==
    \A w \in EditFamily, k \in DOMAIN resent : \A i \in DOMAIN docs[w] :
        ~failed /\ resent[k] = w /\ docs[w][i] = Key(k) =>
            /\ \A j \in i + 1 .. Len(docs[w]) : docs[w][j].kind = "text" => docs[w][j].n > k
            /\ \A j \in DOMAIN posted[w] : posted[w][j].kind = "text" => posted[w][j].n > k

\* Keys sent again reach their window in the order in which they were typed.
ResentInOrder ==
    \A w \in Windows : \A i, j \in DOMAIN docs[w] :
        LET a == docs[w][i]
            b == docs[w][j]
        IN  /\ ~failed
            /\ i < j /\ a.kind = "key" /\ b.kind = "key"
            /\ {a.n, b.n} \subseteq DOMAIN resent
            /\ resent[a.n] = w /\ resent[b.n] = w
            => a.n < b.n

\* Both, of the keys that are sent again.
KeysArriveInOrder == KeyAfterItsText /\ ResentInOrder

\* Every eaten key is received or given up in the end.
EveryKeySettles ==
    \A k \in Events : (k \in DOMAIN resent) ~>
        (k \in dropped \/ Places(docs, Key(k)) # {})

\* "When another boundary key comes meanwhile, the waiting one is sent first: the
\* order is kept" (text_service.c:927), for keys typed in one window that keeps the focus.
BoundaryInOrder ==
    \A w \in Windows : \A i, j \in DOMAIN docs[w] :
        i < j /\ docs[w][i].kind = "key" /\ docs[w][j].kind = "key"
            => docs[w][i].n < docs[w][j].n
=============================================================================

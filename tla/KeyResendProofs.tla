--------------------------- MODULE KeyResendProofs ---------------------------
(***************************************************************************)
(* Proofs about KeyResend, for any windows, any instances of the service,  *)
(* any number of events and with or without failing calls.  First the      *)
(* types and the timer's owner; then the window of the keys sent again;    *)
(* then that each stays in one place; then their order, and the text's.    *)
(***************************************************************************)
EXTENDS KeyResend, Integers, TLAPS

\* What a call that sends a key may return.
IsQueues(q) == q \in [input : Seq(Inputs), posted : [Windows -> Seq(Items)],
                      dropped : SUBSET Events, failed : BOOLEAN]

\* Appending to one of a family of queues.
LEMMA PutType ==
    ASSUME NEW queues \in [Windows -> Seq(Items)], NEW w \in Windows, NEW item \in Items
    PROVE  Put(queues, w, item) \in [Windows -> Seq(Items)]
BY DEF Put

LEMMA ItemType == \A n \in Events : Text(n) \in Items /\ Key(n) \in Items
BY DEF Text, Key, Items

\* Giving a key up, and noting a failure, leave the input queue.
LEMMA DropType ==
    ASSUME NEW k \in Events, NEW q, IsQueues(q)
    PROVE  IsQueues(Dropped(k, q)) /\ Dropped(k, q).input = q.input
BY DEF IsQueues, Dropped

LEMMA FailType ==
    ASSUME NEW q, IsQueues(q)
    PROVE  IsQueues(Failed(q)) /\ Failed(q).input = q.input /\ Failed(q).failed
BY DEF IsQueues, Failed

\* Sending a key keeps the types and lengthens the input queue by one at most.
LEMMA SendType ==
    ASSUME NEW k \in Events, NEW q, IsQueues(q), NEW r \in SendKeyThrough(k, q)
    PROVE  IsQueues(r) /\ Len(r.input) <= Len(q.input) + 1
<1>1. CASE r = [q EXCEPT !.input = Append(@, [kind |-> "sent", n |-> k])]
    <2>1. [kind |-> "sent", n |-> k] \in Inputs
        BY DEF Inputs
    <2>2. Append(q.input, [kind |-> "sent", n |-> k]) \in Seq(Inputs)
        BY <2>1 DEF IsQueues
    <2>3. Len(r.input) = Len(q.input) + 1
        BY <1>1, <2>1 DEF IsQueues
    <2>4. IsQueues(r)
        BY <1>1, <2>2 DEF IsQueues
    <2> QED BY <2>3, <2>4 DEF IsQueues
<1>2. CASE r = Dropped(k, Failed(q))
    <2>1. IsQueues(r) /\ r.input = q.input
        BY <1>2, DropType, FailType
    <2> QED BY <2>1 DEF IsQueues
<1> QED BY <1>1, <1>2 DEF SendKeyThrough

LEMMA ResendType ==
    ASSUME TypeOK, NEW k \in Events, NEW target, NEW q, IsQueues(q),
           NEW r \in ResendKeyNow(k, target, q)
    PROVE  IsQueues(r) /\ Len(r.input) <= Len(q.input) + 1
<1>1. CASE r \in SendKeyThrough(k, q)
    BY <1>1, SendType
<1>2. CASE r = Dropped(k, q)
    BY <1>2, DropType DEF IsQueues
<1>3. CASE r = [q EXCEPT !.posted[target] = Append(@, Key(k))] /\ Route(target) = "post"
    <2>1. target \in Windows
        <3>1. alive \subseteq Windows
            BY DEF TypeOK
        <3>2. target \in alive
            BY <1>3 DEF Route
        <3> QED BY <3>1, <3>2
    <2>2. Append(q.posted[target], Key(k)) \in Seq(Items)
        BY <2>1, ItemType DEF IsQueues
    <2>3. [q.posted EXCEPT ![target] = Append(@, Key(k))] \in [Windows -> Seq(Items)]
        BY <2>1, <2>2 DEF IsQueues
    <2>4. r = [q EXCEPT !.posted = [q.posted EXCEPT ![target] = Append(@, Key(k))]]
        BY <1>3 DEF IsQueues
    <2>5. r.input = q.input
        BY <2>4 DEF IsQueues
    <2>6. IsQueues(r)
        BY <2>3, <2>4 DEF IsQueues
    <2> QED BY <2>5, <2>6 DEF IsQueues
<1>4. CASE r \in SendKeyThrough(k, Failed(q))
    BY <1>4, SendType, FailType
<1>5. CASE r = Dropped(k, Failed(q))
    <2>1. IsQueues(r) /\ r.input = q.input
        BY <1>5, DropType, FailType
    <2> QED BY <2>1 DEF IsQueues
<1> QED BY <1>1, <1>2, <1>3, <1>4, <1>5 DEF ResendKeyNow, Route

\* A committed syllable leaves texts and messages in their types.
LEMMA CommitType ==
    ASSUME TypeOK, NEW w \in Windows, NEW m \in Events \union {NoKey}
    PROVE  DocsAfter(w, m) \in [Windows -> Seq(Items)] /\ PostedAfter(w, m) \in [Windows -> Seq(Items)]
BY PutType, ItemType DEF TypeOK, DocsAfter, PostedAfter, NoKey

LEMMA QueuesType ==
    ASSUME TypeOK, NEW i \in Seq(Inputs), NEW p \in [Windows -> Seq(Items)]
    PROVE  IsQueues(Queues(i, p)) /\ Queues(i, p).input = i
BY DEF TypeOK, IsQueues, Queues

-----------------------------------------------------------------------------
One(condition) == IF condition THEN 1 ELSE 0

\* The timer accounts for a place in the input queue: its key was taken from there and
\* may come back.
TypeInv ==
    /\ TypeOK /\ TimerHasOwner
    /\ Len(input) + One(timer) <= typed
    /\ timer => slot.key \in Events

\* What taking the head of the input queue gives.
LEMMA HeadType ==
    ASSUME TypeOK, input # <<>>
    PROVE  /\ Head(input) \in Inputs /\ Tail(input) \in Seq(Inputs)
           /\ Len(Tail(input)) = Len(input) - 1
           /\ Head(input).kind \in {"jamo", "key", "sent"} => Head(input).n \in Events
           /\ Head(input).kind = "click" => Head(input).to \in Windows
<1>1. input \in Seq(Inputs)
    BY DEF TypeOK
<1>2. Head(input) \in Inputs /\ Tail(input) \in Seq(Inputs) /\ Len(Tail(input)) = Len(input) - 1
    BY <1>1
<1> QED BY <1>2 DEF Inputs

LEMMA ServicedType == TypeOK /\ Serviced => /\ ServiceOf[focus] \in Services
                                          /\ ServiceOf[focus] \in active
                                          /\ composing[ServiceOf[focus]] \in Events \union {NoKey}
BY DEF TypeOK, Serviced

LEMMA InitTypes == Init => TypeInv
<1> SUFFICES ASSUME Init PROVE TypeInv
    OBVIOUS
<1>1. input = <<>> /\ typed = 0 /\ timer = FALSE
    BY DEF Init
<1>2. TypeOK
    <2>1. DOMAIN resent = {} /\ resent \in [DOMAIN resent -> Windows]
        BY DEF Init
    <2>2. slot \in [key : Events \union {NoKey}, target : Windows \union {NoWindow},
                    owner : Services \union {NoService}]
        BY DEF Init
    <2>3. input \in Seq(Inputs) /\ posted \in [Windows -> Seq(Items)] /\ docs \in [Windows -> Seq(Items)]
        BY DEF Init
    <2>4. typed \in 0 .. MaxEvents /\ Len(input) <= typed
        BY <1>1, ResendAssumption
    <2>5. composing \in [Services -> Events \union {NoKey}]
        BY DEF Init
    <2> QED BY <2>1, <2>2, <2>3, <2>4, <2>5 DEF Init, TypeOK
<1> QED BY <1>1, <1>2 DEF TypeInv, TimerHasOwner, One

LEMMA PressTypes == TypeInv /\ Press => TypeInv'
<1> SUFFICES ASSUME TypeInv, Press PROVE TypeInv'
    OBVIOUS
<1>1. typed \in Nat /\ typed + 1 \in Events /\ typed' = typed + 1
    BY ResendAssumption DEF Press, TypeInv, TypeOK, Events
<1>2. PICK item \in Inputs : input' = Append(input, item)
    BY <1>1 DEF Press, Inputs, TypeInv, TypeOK
<1>3. input' \in Seq(Inputs) /\ Len(input') = Len(input) + 1
    BY <1>2 DEF TypeInv, TypeOK
<1>4. UNCHANGED <<focus, alive, active, composing, slot, timer, posted, docs, resent, dropped, failed>>
    BY DEF Press
<1>5. typed' \in 0 .. MaxEvents /\ Len(input') <= typed'
    BY <1>1, <1>3, ResendAssumption DEF Press, TypeInv, TypeOK, Events
<1>6. TypeOK'
    BY <1>3, <1>4, <1>5 DEF TypeInv, TypeOK
<1> QED BY <1>1, <1>3, <1>4, <1>6 DEF TypeInv, TimerHasOwner, One, TypeOK

LEMMA JamoTypes == TypeInv /\ TakeJamo => TypeInv'
<1> SUFFICES ASSUME TypeInv, TakeJamo PROVE TypeInv'
    OBVIOUS
<1> DEFINE s == ServiceOf[focus]
           n == Head(input).n
<1>1. n \in Events /\ focus \in Windows /\ TypeOK
    BY HeadType DEF TakeJamo, TypeInv, TypeOK
<1>2. /\ docs' \in [Windows -> Seq(Items)] /\ posted' \in [Windows -> Seq(Items)]
      /\ composing' \in [Services -> Events \union {NoKey}]
    <2>1. CASE Serviced /\ docs' = DocsAfter(focus, composing[s]) /\ posted' = PostedAfter(focus, composing[s])
                 /\ composing' = [composing EXCEPT ![s] = n]
        <3>1. docs' \in [Windows -> Seq(Items)] /\ posted' \in [Windows -> Seq(Items)]
            BY <1>1, <2>1, CommitType, ServicedType
        <3> QED BY <1>1, <2>1, <3>1, ServicedType DEF TypeOK
    <2>2. CASE UNCHANGED <<docs, posted, composing>>
        BY <1>1, <2>2 DEF TypeOK
    <2>3. CASE docs' = Put(docs, focus, Key(n)) /\ UNCHANGED <<posted, composing>>
        BY <1>1, <2>3, PutType, ItemType DEF TypeOK
    <2> QED BY <2>1, <2>2, <2>3 DEF TakeJamo
<1>3. input' \in Seq(Inputs) /\ Len(input') = Len(input) - 1
    BY <1>1, HeadType DEF TakeJamo
<1>4. UNCHANGED <<focus, alive, active, slot, timer, typed, resent, dropped, failed>>
    BY DEF TakeJamo
<1>5. TypeOK'
    BY <1>1, <1>2, <1>3, <1>4 DEF TypeOK
<1> QED BY <1>1, <1>3, <1>4, <1>5 DEF TypeInv, TimerHasOwner, One, TypeOK

\* Sending the waiting key first: the queue grows by at most the place the timer holds.
LEMMA EmittedType ==
    ASSUME TypeInv, NEW q, IsQueues(q), NEW r \in Emitted(q)
    PROVE  IsQueues(r) /\ Len(r.input) <= Len(q.input) + One(timer)
<1>1. TypeOK /\ (timer => slot.key \in Events) /\ timer \in BOOLEAN
    BY DEF TypeInv, TypeOK
<1>2. CASE timer
    BY <1>1, <1>2, ResendType DEF Emitted, One
<1>3. CASE ~timer
    BY <1>3 DEF Emitted, One, IsQueues
<1> QED BY <1>1, <1>2, <1>3

\* Whether the timer is set or the key goes at once, one more place is taken.
LEMMA ScheduleTypes ==
    ASSUME TypeInv, NEW n \in Events, NEW s \in Services, NEW q, IsQueues(q), Schedule(n, s, q)
    PROVE  /\ input' \in Seq(Inputs) /\ posted' \in [Windows -> Seq(Items)]
           /\ dropped' \subseteq Events /\ failed' \in BOOLEAN /\ timer' \in BOOLEAN
           /\ Len(input') + One(timer') <= Len(q.input) + 1
           /\ slot' \in [key : Events \union {NoKey}, target : Windows \union {NoWindow},
                         owner : Services \union {NoService}]
           /\ slot'.key = n /\ slot'.owner = s
<1>0. TypeOK
    BY DEF TypeInv
<1>1. PICK target \in Windows \union {NoWindow} :
        /\ slot' = [key |-> n, target |-> target, owner |-> s]
        /\ \/ timer' = TRUE /\ Become(IF target = NoWindow THEN Failed(q) ELSE q)
           \/ timer' = FALSE /\ \E r \in Untimed(n, target, Failed(q)) : Become(r)
    <2>1. focus \in Windows
        BY <1>0 DEF TypeOK
    <2>2. PICK target \in {focus} \union (IF MayFail THEN {NoWindow} ELSE {}) :
            /\ slot' = [key |-> n, target |-> target, owner |-> s]
            /\ \/ timer' = TRUE /\ Become(IF target = NoWindow THEN Failed(q) ELSE q)
               \/ MayFail /\ timer' = FALSE /\ \E r \in Untimed(n, target, Failed(q)) : Become(r)
        BY Zenon DEF Schedule
    <2>3. target \in Windows \union {NoWindow}
        BY <2>1
    <2> QED BY <2>2, <2>3, Zenon
<1>2. CASE timer' = TRUE /\ Become(IF target = NoWindow THEN Failed(q) ELSE q)
    <2>1. PICK r : IsQueues(r) /\ r.input = q.input /\ Become(r)
        BY <1>2, FailType
    <2> QED BY <1>1, <1>2, <2>1 DEF Become, IsQueues, One
<1>3. CASE timer' = FALSE /\ \E r \in Untimed(n, target, Failed(q)) : Become(r)
    <2>1. PICK r \in ResendKeyNow(n, target, Failed(q)) : Become(r)
        BY <1>3 DEF Untimed
    <2>2. IsQueues(r) /\ Len(r.input) <= Len(q.input) + 1
        BY <1>0, <2>1, FailType, ResendType
    <2>3. Len(q.input) \in Nat /\ Len(r.input) \in Nat
        BY <2>2 DEF IsQueues
    <2>4. input' = r.input /\ posted' = r.posted /\ dropped' = r.dropped /\ failed' = r.failed
        BY <2>1 DEF Become
    <2>5. Len(input') + One(timer') <= Len(q.input) + 1
        BY <1>3, <2>2, <2>3, <2>4 DEF One
    <2> QED BY <1>1, <1>3, <2>2, <2>4, <2>5 DEF IsQueues
<1> QED BY <1>1, <1>2, <1>3

LEMMA EatTypes == TypeInv /\ EatKey => TypeInv'
<1> SUFFICES ASSUME TypeInv, EatKey PROVE TypeInv'
    OBVIOUS
<1> DEFINE s == ServiceOf[focus]
           n == Head(input).n
           q == Queues(Tail(input), PostedAfter(focus, composing[s]))
<1>1. TypeOK /\ focus \in Windows
    BY DEF TypeInv, TypeOK
<1>2. n \in Events /\ Tail(input) \in Seq(Inputs) /\ Len(Tail(input)) = Len(input) - 1
    BY <1>1, HeadType DEF EatKey
<1>3. s \in Services /\ s \in active /\ composing[s] \in Events \union {NoKey}
    BY <1>1, ServicedType DEF EatKey
<1>4. docs' \in [Windows -> Seq(Items)] /\ PostedAfter(focus, composing[s]) \in [Windows -> Seq(Items)]
    BY <1>1, <1>3, CommitType DEF EatKey
<1>5. IsQueues(q) /\ q.input = Tail(input)
    BY <1>1, <1>2, <1>4, QueuesType
<1>6. PICK r \in Emitted(q) : Schedule(n, s, r)
    BY DEF EatKey
<1>7. IsQueues(r) /\ Len(r.input) <= Len(Tail(input)) + One(timer)
    BY <1>5, <1>6, EmittedType
<1>8. /\ input' \in Seq(Inputs) /\ posted' \in [Windows -> Seq(Items)]
      /\ dropped' \subseteq Events /\ failed' \in BOOLEAN /\ timer' \in BOOLEAN
      /\ Len(input') + One(timer') <= Len(r.input) + 1
      /\ slot' \in [key : Events \union {NoKey}, target : Windows \union {NoWindow},
                    owner : Services \union {NoService}]
      /\ slot'.key = n /\ slot'.owner = s
    BY <1>2, <1>3, <1>6, <1>7, ScheduleTypes
<1>9. Len(input') + One(timer') <= Len(input) + One(timer)
    <2>1. Len(r.input) \in Nat /\ Len(input') \in Nat /\ Len(input) \in Nat /\ Len(Tail(input)) \in Nat
        BY <1>1, <1>2, <1>7, <1>8 DEF IsQueues, TypeOK
    <2>2. One(timer) \in Nat /\ One(timer') \in Nat
        BY DEF One
    <2> QED BY <1>2, <1>7, <1>8, <2>1, <2>2
<1>10. composing' \in [Services -> Events \union {NoKey}]
    BY <1>1, <1>3 DEF EatKey, TypeOK
<1>11. DOMAIN resent' \subseteq Events /\ resent' \in [DOMAIN resent' -> Windows]
    <2>1. resent' = [k \in DOMAIN resent \union {n} |-> IF k = n THEN focus ELSE resent[k]]
        BY DEF EatKey
    <2> QED BY <1>1, <1>2, <2>1 DEF TypeOK
<1>12. UNCHANGED <<focus, alive, active, typed>>
    BY DEF EatKey
<1>13. Len(input') <= typed' /\ Len(input') + One(timer') <= typed'
    BY <1>8, <1>9, <1>12 DEF TypeInv, TypeOK, One
<1>14. TypeOK'
    BY <1>1, <1>4, <1>8, <1>10, <1>11, <1>12, <1>13 DEF TypeOK
<1> QED BY <1>2, <1>3, <1>8, <1>12, <1>13, <1>14 DEF TypeInv, TimerHasOwner

LEMMA TakeKeyTypes == TypeInv /\ TakeKey => TypeInv'
<1> SUFFICES ASSUME TypeInv, TakeKey PROVE TypeInv'
    OBVIOUS
<1>1. TypeOK /\ focus \in Windows
    BY DEF TypeInv, TypeOK
<1>2. Head(input).n \in Events /\ Tail(input) \in Seq(Inputs) /\ Len(Tail(input)) = Len(input) - 1
    BY <1>1, HeadType DEF TakeKey
<1>3. docs' \in [Windows -> Seq(Items)]
    BY <1>1, <1>2, PutType, ItemType DEF TakeKey, TypeOK
<1>4. input' = Tail(input)
      /\ UNCHANGED <<focus, alive, active, composing, slot, timer, posted, typed, resent, dropped, failed>>
    BY DEF TakeKey
<1>5. TypeOK'
    BY <1>1, <1>2, <1>3, <1>4 DEF TypeOK
<1> QED BY <1>1, <1>2, <1>4, <1>5 DEF TypeInv, TimerHasOwner, One, TypeOK

\* What the focus going to w leaves.
LEMMA FocusTypes ==
    ASSUME TypeOK, NEW w \in alive, FocusTo(w)
    PROVE  /\ docs' \in [Windows -> Seq(Items)] /\ posted' \in [Windows -> Seq(Items)]
           /\ composing' \in [Services -> Events \union {NoKey}] /\ focus' = w
           /\ UNCHANGED <<alive, active, slot, timer, typed, resent, dropped, failed>>
<1> DEFINE s == ServiceOf[focus]
<1>1. focus \in Windows /\ NoKey \in Events \union {NoKey}
    BY DEF TypeOK
<1>2. CASE Serviced /\ w # focus
    <2>1. s \in Services /\ composing[s] \in Events \union {NoKey}
        BY <1>2, ServicedType
    <2>2. /\ docs' = DocsAfter(focus, composing[s]) /\ posted' = PostedAfter(focus, composing[s])
          /\ composing' = [composing EXCEPT ![s] = NoKey] /\ focus' = w
          /\ UNCHANGED <<alive, active, slot, timer, typed, resent, dropped, failed>>
        BY <1>2 DEF FocusTo
    <2>3. docs' \in [Windows -> Seq(Items)] /\ posted' \in [Windows -> Seq(Items)]
        BY <1>1, <2>1, <2>2, CommitType
    <2>4. composing' \in [Services -> Events \union {NoKey}]
        BY <2>1, <2>2 DEF TypeOK
    <2> QED BY <2>2, <2>3, <2>4
<1>3. CASE ~(Serviced /\ w # focus)
    BY <1>3 DEF FocusTo, TypeOK
<1> QED BY <1>2, <1>3

LEMMA MoveTypes == TypeInv /\ (TakeClick \/ FocusMoves) => TypeInv'
<1> SUFFICES ASSUME TypeInv, TakeClick \/ FocusMoves PROVE TypeInv'
    OBVIOUS
<1>1. TypeOK
    BY DEF TypeInv
<1>2. \E w \in alive : FocusTo(w)
    BY <1>1 DEF TakeClick, FocusMoves, TypeOK
<1>3. input' \in Seq(Inputs) /\ Len(input') \in Nat /\ Len(input) \in Nat /\ Len(input') <= Len(input)
    <2>1. input \in Seq(Inputs)
        BY <1>1 DEF TypeOK
    <2>2. CASE TakeClick
        BY <1>1, <2>1, <2>2, HeadType DEF TakeClick
    <2>3. CASE FocusMoves
        BY <2>1, <2>3 DEF FocusMoves
    <2> QED BY <2>2, <2>3
<1>4. PICK w \in alive : FocusTo(w)
    BY <1>2
<1>5. /\ docs' \in [Windows -> Seq(Items)] /\ posted' \in [Windows -> Seq(Items)]
      /\ composing' \in [Services -> Events \union {NoKey}] /\ focus' = w
      /\ UNCHANGED <<alive, active, slot, timer, typed, resent, dropped, failed>>
    BY <1>1, <1>4, FocusTypes
<1>6. TypeOK'
    BY <1>1, <1>3, <1>5 DEF TypeOK
<1>7. typed \in Nat /\ One(timer) \in Nat /\ Len(input) + One(timer) <= typed
    BY <1>1, ResendAssumption DEF TypeInv, TypeOK, One
<1>8. Len(input') + One(timer) <= typed
    BY <1>3, <1>7
<1>9. timer' = timer /\ slot' = slot /\ active' = active /\ typed' = typed
    BY <1>5
<1> QED BY <1>6, <1>8, <1>9 DEF TypeInv, TimerHasOwner, One

LEMMA PostedTypes == TypeInv /\ (\E w \in Windows : TakePosted(w) \/ Destroy(w)) => TypeInv'
<1> SUFFICES ASSUME TypeInv, NEW w \in Windows, TakePosted(w) \/ Destroy(w) PROVE TypeInv'
    OBVIOUS
<1>1. TypeOK
    BY DEF TypeInv
<1>2. CASE TakePosted(w)
    <2>1. posted[w] \in Seq(Items) /\ posted[w] # <<>>
        BY <1>1, <1>2 DEF TypeOK, TakePosted
    <2>2. Head(posted[w]) \in Items /\ Tail(posted[w]) \in Seq(Items)
        BY <2>1
    <2>3. docs' \in [Windows -> Seq(Items)] /\ posted' \in [Windows -> Seq(Items)]
        BY <1>1, <1>2, <2>2, PutType DEF TypeOK, TakePosted
    <2>4. UNCHANGED <<focus, alive, active, composing, slot, timer, input, typed, resent, dropped, failed>>
        BY <1>2 DEF TakePosted
    <2>5. TypeOK'
        BY <1>1, <2>3, <2>4 DEF TypeOK
    <2> QED BY <2>4, <2>5 DEF TypeInv, TimerHasOwner, One
<1>3. CASE Destroy(w)
    <2>1. dropped' \subseteq Events
        <3>1. \A i \in DOMAIN posted[w] : posted[w][i] \in Items
            BY <1>1 DEF TypeOK
        <3>2. \A i \in DOMAIN posted[w] : posted[w][i].n \in Events
            BY <3>1 DEF Items
        <3> QED BY <1>1, <1>3, <3>2 DEF Destroy, TypeOK
    <2>2. posted' \in [Windows -> Seq(Items)]
        BY <1>1, <1>3 DEF Destroy, TypeOK
    <2>3. focus' \in alive' /\ alive' \subseteq Windows
        BY <1>1, <1>3 DEF Destroy, TypeOK
    <2>4. UNCHANGED <<focus, active, composing, slot, timer, input, docs, typed, resent, failed>>
        BY <1>3 DEF Destroy
    <2>5. TypeOK'
        BY <1>1, <2>1, <2>2, <2>3, <2>4 DEF TypeOK
    <2> QED BY <2>4, <2>5 DEF TypeInv, TimerHasOwner, One
<1> QED BY <1>2, <1>3

\* Sending the key that waits: its place in the queue is the timer's.
LEMMA SlotSentTypes ==
    ASSUME TypeInv, timer, timer' = FALSE,
           \E r \in ResendKeyNow(slot.key, slot.target, Queues(input, posted)) : Become(r)
    PROVE  /\ input' \in Seq(Inputs) /\ posted' \in [Windows -> Seq(Items)]
           /\ dropped' \subseteq Events /\ failed' \in BOOLEAN
           /\ Len(input') <= typed
<1>1. TypeOK /\ slot.key \in Events /\ Len(input) + 1 <= typed
    BY DEF TypeInv, One
<1>2. IsQueues(Queues(input, posted)) /\ Queues(input, posted).input = input
    BY <1>1, QueuesType DEF TypeOK
<1>3. PICK r \in ResendKeyNow(slot.key, slot.target, Queues(input, posted)) : Become(r)
    OBVIOUS
<1>4. IsQueues(r) /\ Len(r.input) <= Len(input) + 1
    BY <1>1, <1>2, <1>3, ResendType
<1>5. input' = r.input /\ posted' = r.posted /\ dropped' = r.dropped /\ failed' = r.failed
    BY <1>3 DEF Become
<1>6. Len(r.input) \in Nat /\ Len(input) \in Nat /\ typed \in Nat
    BY <1>1, <1>4 DEF IsQueues, TypeOK
<1> QED BY <1>1, <1>4, <1>5, <1>6 DEF IsQueues

LEMMA TimerTypes == TypeInv /\ ResendTimerProc => TypeInv'
<1> SUFFICES ASSUME TypeInv, ResendTimerProc PROVE TypeInv'
    OBVIOUS
<1>1. timer /\ timer' = FALSE /\ UNCHANGED <<focus, alive, active, composing, slot, docs, typed, resent>>
    BY DEF ResendTimerProc
<1>2. /\ input' \in Seq(Inputs) /\ posted' \in [Windows -> Seq(Items)]
      /\ dropped' \subseteq Events /\ failed' \in BOOLEAN
      /\ Len(input') <= typed
    BY <1>1, SlotSentTypes DEF ResendTimerProc
<1>3. TypeOK'
    BY <1>1, <1>2 DEF TypeInv, TypeOK
<1> QED BY <1>1, <1>2, <1>3 DEF TypeInv, TimerHasOwner, One, TypeOK

LEMMA InstanceTypes == TypeInv /\ (\E s \in Services : Activate(s) \/ Deactivate(s)) => TypeInv'
<1> SUFFICES ASSUME TypeInv, NEW s \in Services, Activate(s) \/ Deactivate(s) PROVE TypeInv'
    OBVIOUS
<1>1. TypeOK /\ NoService \notin Services
    BY ResendAssumption DEF TypeInv
<1>2. CASE Activate(s)
    <2>1. TypeOK'
        BY <1>1, <1>2 DEF Activate, TypeOK
    <2> QED BY <1>2, <2>1 DEF Activate, TypeInv, TimerHasOwner, One
<1>3. CASE Deactivate(s)
    <2>1. /\ active' = active \ {s} /\ UNCHANGED <<focus, alive, docs, typed, resent>>
          /\ composing' \in [Services -> Events \union {NoKey}]
        BY <1>1, <1>3 DEF Deactivate, TypeOK
    <2>2. CASE timer /\ IsOwn(s)
        <3>1. timer' = FALSE /\ slot' = [slot EXCEPT !.owner = NoService]
            BY <1>3, <2>2 DEF Deactivate
        <3>2. /\ input' \in Seq(Inputs) /\ posted' \in [Windows -> Seq(Items)]
              /\ dropped' \subseteq Events /\ failed' \in BOOLEAN
              /\ Len(input') <= typed
            BY <1>3, <2>2, <3>1, SlotSentTypes DEF Deactivate
        <3>3. slot' \in [key : Events \union {NoKey}, target : Windows \union {NoWindow},
                        owner : Services \union {NoService}]
            BY <1>1, <3>1 DEF TypeOK
        <3>4. TypeOK'
            BY <1>1, <2>1, <3>1, <3>2, <3>3 DEF TypeOK
        <3> QED BY <1>1, <2>1, <3>1, <3>2, <3>4 DEF TypeInv, TimerHasOwner, One, TypeOK
    <2>3. CASE ~(timer /\ IsOwn(s))
        <3>1. UNCHANGED <<timer, slot, input, posted, dropped, failed>>
            BY <1>3, <2>3 DEF Deactivate
        <3>2. TypeOK'
            BY <1>1, <2>1, <3>1 DEF TypeOK
        <3>3. timer => slot.owner \in active \ {s}
            BY <2>3 DEF TypeInv, TimerHasOwner, IsOwn
        <3> QED BY <2>1, <3>1, <3>2, <3>3 DEF TypeInv, TimerHasOwner, One
    <2> QED BY <2>2, <2>3
<1> QED BY <1>2, <1>3

LEMMA NextTypes == TypeInv /\ [Next]_vars => TypeInv'
<1> SUFFICES ASSUME TypeInv, [Next]_vars PROVE TypeInv'
    OBVIOUS
<1>1. CASE UNCHANGED vars
    BY <1>1 DEF vars, TypeInv, TypeOK, TimerHasOwner, One
<1>2. CASE Next
    BY <1>2, PressTypes, JamoTypes, EatTypes, TakeKeyTypes, MoveTypes, PostedTypes, TimerTypes,
       InstanceTypes, Zenon DEF Next, TakeInput
<1> QED BY <1>1, <1>2

\* The invariant that carries the types and the timer's owner through every handler.
THEOREM TypesStay == Spec => []TypeInv
<1> QED BY InitTypes, NextTypes, PTL DEF Spec

\* The variables keep their types, and the input queue never holds more events than the
\* user made: no key is sent again twice, whatever fails.
THEOREM TypeCorrect == Spec => []TypeOK
<1>1. TypeInv => TypeOK
    BY DEF TypeInv
<1> QED BY <1>1, TypesStay, PTL

\* While the timer runs, its instance is active: FlushPendingKeyResend leaves no callback
\* into a service that is gone, and no other instance's key behind.
THEOREM TimersAreOwned == Spec => []TimerHasOwner
<1>1. TypeInv => TimerHasOwner
    BY DEF TypeInv
<1> QED BY <1>1, TypesStay, PTL

-----------------------------------------------------------------------------
(***************************************************************************)
(* The place of the keys.  While no call fails, the waiting key knows the  *)
(* window it was typed in, an EDIT window's key is never on the way to     *)
(* whoever has the focus, and a number in the input queue is new.          *)
(***************************************************************************)
In(seq, x) == \E i \in DOMAIN seq : seq[i] = x
Sent(k)    == [kind |-> "sent", n |-> k]
User(x)    == x.kind \in {"jamo", "key"}

\* The user's events in a queue have different numbers.
Distinct(seq) == \A i, j \in DOMAIN seq :
    i < j /\ User(seq[i]) /\ User(seq[j]) => seq[i].n # seq[j].n

\* What is on its way, given where the keys were typed.
Underway(q, typedIn) ==
    /\ \A n \in Events : In(q.input, Sent(n)) => n \in DOMAIN typedIn
    /\ \A w \in Windows, n \in Events : In(q.posted[w], Key(n)) => n \in DOMAIN typedIn
    /\ ~q.failed => \A k \in DOMAIN typedIn : typedIn[k] \in EditFamily =>
            /\ ~In(q.input, Sent(k))
            /\ \A w \in Windows : In(q.posted[w], Key(k)) => w = typedIn[k]

\* The number of an event that is still to be taken.
New(n) == n \notin DOMAIN resent /\ \A w \in Windows : ~In(docs[w], Key(n))

PlaceInv ==
    /\ Underway(Queues(input, posted), resent)
    /\ Distinct(input)
    /\ \A x \in Inputs : In(input, x) /\ User(x) => New(x.n) /\ x.n <= typed
    /\ \A n \in Events : n > typed => New(n)
    /\ ~failed => \A k \in DOMAIN resent, w \in Windows :
            resent[k] \in EditFamily /\ In(docs[w], Key(k)) => w = resent[k]
    /\ timer => slot.key \in DOMAIN resent /\ (~failed => slot.target = resent[slot.key])

\* Appending and taking the head, as far as what a queue holds is concerned.
LEMMA InAppend ==
    ASSUME NEW S, NEW seq \in Seq(S), NEW e \in S, NEW x
    PROVE  In(Append(seq, e), x) => In(seq, x) \/ x = e
BY DEF In

LEMMA InTail ==
    ASSUME NEW S, NEW seq \in Seq(S), seq # <<>>
    PROVE  In(seq, Head(seq)) /\ \A x : In(Tail(seq), x) => In(seq, x)
<1>1. Len(seq) \in Nat \ {0} /\ DOMAIN seq = 1 .. Len(seq) /\ Head(seq) = seq[1]
    OBVIOUS
<1>2. DOMAIN Tail(seq) = 1 .. Len(seq) - 1 /\ \A i \in 1 .. Len(seq) - 1 : Tail(seq)[i] = seq[i + 1]
    OBVIOUS
<1> QED BY <1>1, <1>2 DEF In

LEMMA DistinctAppend ==
    ASSUME NEW seq \in Seq(Inputs), Distinct(seq), NEW e \in Inputs,
           User(e) => \A x \in Inputs : In(seq, x) /\ User(x) => x.n # e.n
    PROVE  Distinct(Append(seq, e))
<1> DEFINE s == Append(seq, e)
<1>1. DOMAIN s = 1 .. Len(seq) + 1 /\ s[Len(seq) + 1] = e /\ \A i \in DOMAIN seq : s[i] = seq[i]
    OBVIOUS
<1>2. DOMAIN seq = 1 .. Len(seq) /\ Len(seq) \in Nat /\ \A i \in DOMAIN seq : seq[i] \in Inputs
    OBVIOUS
<1> HIDE DEF s
<1>3. SUFFICES ASSUME NEW i \in DOMAIN s, NEW j \in DOMAIN s, i < j, User(s[i]), User(s[j])
               PROVE  s[i].n # s[j].n
    BY DEF Distinct, s
<1>4. i \in DOMAIN seq
    BY <1>1, <1>2, <1>3
<1>5. CASE j \in DOMAIN seq
    BY <1>1, <1>3, <1>4, <1>5 DEF Distinct
<1>6. CASE j \notin DOMAIN seq
    <2>1. j = Len(seq) + 1
        BY <1>1, <1>2, <1>6
    <2>2. In(seq, seq[i]) /\ seq[i] \in Inputs /\ s[i] = seq[i] /\ s[j] = e
        BY <1>1, <1>2, <1>4, <2>1 DEF In
    <2> QED BY <1>3, <2>2
<1> QED BY <1>5, <1>6

LEMMA DistinctTail ==
    ASSUME NEW seq \in Seq(Inputs), seq # <<>>, Distinct(seq)
    PROVE  /\ Distinct(Tail(seq))
           /\ User(Head(seq)) => \A x \in Inputs : In(Tail(seq), x) /\ User(x) => x.n # Head(seq).n
<1>1. Len(seq) \in Nat \ {0} /\ DOMAIN seq = 1 .. Len(seq) /\ Head(seq) = seq[1]
    OBVIOUS
<1>2. DOMAIN Tail(seq) = 1 .. Len(seq) - 1 /\ \A i \in 1 .. Len(seq) - 1 : Tail(seq)[i] = seq[i + 1]
    OBVIOUS
<1>3. \A i \in DOMAIN Tail(seq) : i \in Int /\ 1 < i + 1 /\ 1 \in DOMAIN seq /\ i + 1 \in DOMAIN seq /\ Tail(seq)[i] = seq[i + 1]
    BY <1>1, <1>2
<1>4. Distinct(Tail(seq))
    <2> SUFFICES ASSUME NEW i \in DOMAIN Tail(seq), NEW j \in DOMAIN Tail(seq), i < j,
                        User(Tail(seq)[i]), User(Tail(seq)[j])
                 PROVE  Tail(seq)[i].n # Tail(seq)[j].n
        BY DEF Distinct
    <2>1. i + 1 < j + 1
        BY <1>3
    <2> QED BY <1>3, <2>1 DEF Distinct
<1>5. ASSUME User(Head(seq)), NEW x \in Inputs, In(Tail(seq), x), User(x)
      PROVE  x.n # Head(seq).n
    <2>1. PICK i \in DOMAIN Tail(seq) : Tail(seq)[i] = x
        BY <1>5 DEF In
    <2> QED BY <1>1, <1>3, <1>5, <2>1 DEF Distinct
<1> QED BY <1>4, <1>5

\* What sending a key does to the queues beside its own place.
Follows(r, q) ==
    /\ q.failed => r.failed
    /\ Distinct(q.input) => Distinct(r.input)
    /\ \A x \in Inputs : User(x) /\ In(r.input, x) => In(q.input, x)

\* Giving up and failing move no key.
LEMMA UnderwayLess ==
    ASSUME NEW q, IsQueues(q), NEW typedIn, Underway(q, typedIn), NEW k \in Events
    PROVE  /\ Underway(Dropped(k, q), typedIn) /\ Follows(Dropped(k, q), q)
           /\ Underway(Failed(q), typedIn) /\ Follows(Failed(q), q)
<1>1. /\ Dropped(k, q).input = q.input /\ Dropped(k, q).posted = q.posted /\ Dropped(k, q).failed = q.failed
      /\ Failed(q).input = q.input /\ Failed(q).posted = q.posted /\ Failed(q).failed = TRUE
    BY DEF IsQueues, Dropped, Failed
<1> QED BY <1>1, Zenon DEF Underway, Follows

LEMMA FollowsTransitive == \A q, r, s : Follows(r, q) /\ Follows(s, r) => Follows(s, q)
BY DEF Follows

\* A key that does not belong to an EDIT window may join the input queue; after a failure any may.
LEMMA UnderwaySend ==
    ASSUME NEW q, IsQueues(q), NEW typedIn, Underway(q, typedIn),
           NEW k \in Events, k \in DOMAIN typedIn, ~q.failed => typedIn[k] \notin EditFamily,
           NEW r \in SendKeyThrough(k, q)
    PROVE  Underway(r, typedIn) /\ Follows(r, q)
<1>1. CASE r = [q EXCEPT !.input = Append(@, [kind |-> "sent", n |-> k])]
    <2>1. Sent(k) \in Inputs /\ ~User(Sent(k)) /\ Sent(k).n = k
        BY DEF Inputs, Sent, User
    <2>2. q.input \in Seq(Inputs)
        BY DEF IsQueues
    <2>3. r.input = Append(q.input, Sent(k)) /\ r.posted = q.posted /\ r.failed = q.failed
        BY <1>1 DEF IsQueues, Sent
    <2>4. \A x : In(r.input, x) => In(q.input, x) \/ x = Sent(k)
        BY <2>1, <2>2, <2>3, InAppend
    <2>5. \A n : Sent(n).n = n
        BY DEF Sent
    <2>6. \A n : In(r.input, Sent(n)) => In(q.input, Sent(n)) \/ n = k
        BY <2>4, <2>5
    <2>7. Underway(r, typedIn)
        BY <2>3, <2>6 DEF Underway
    <2>8. Distinct(q.input) => Distinct(r.input)
        BY <2>1, <2>2, <2>3, DistinctAppend
    <2> QED BY <2>1, <2>3, <2>4, <2>7, <2>8 DEF Follows
<1>2. CASE r = Dropped(k, Failed(q))
    BY <1>2, UnderwayLess, FailType, FollowsTransitive
<1> QED BY <1>1, <1>2 DEF SendKeyThrough

\* ResendKeyNow sends a key to its own window or, unless that is an EDIT window, into the
\* input queue.
LEMMA UnderwayResend ==
    ASSUME TypeOK, NEW q, IsQueues(q), NEW typedIn, Underway(q, typedIn),
           NEW k \in Events, k \in DOMAIN typedIn, typedIn[k] \in Windows,
           NEW target, ~q.failed => target = typedIn[k],
           NEW r \in ResendKeyNow(k, target, q)
    PROVE  Underway(r, typedIn) /\ Follows(r, q)
<1>1. CASE Route(target) = "sendinput" /\ r \in SendKeyThrough(k, q)
    <2>1. ~q.failed => typedIn[k] \notin EditFamily
        BY <1>1, ResendAssumption DEF Route
    <2> QED BY <1>1, <2>1, UnderwaySend
<1>2. CASE r = Dropped(k, q)
    BY <1>2, UnderwayLess
<1>3. CASE Route(target) = "post" /\ r = [q EXCEPT !.posted[target] = Append(@, Key(k))]
    <2>1. target \in alive /\ alive \subseteq Windows
        BY <1>3 DEF Route, TypeOK
    <2>2. q.posted[target] \in Seq(Items) /\ Key(k) \in Items
        BY <2>1, ItemType DEF IsQueues
    <2>3. r.input = q.input /\ r.failed = q.failed
          /\ r.posted = [q.posted EXCEPT ![target] = Append(@, Key(k))]
        BY <1>3 DEF IsQueues
    <2>4. \A w \in Windows : \A x : In(r.posted[w], x) => In(q.posted[w], x) \/ (w = target /\ x = Key(k))
        BY <2>1, <2>2, <2>3, InAppend DEF IsQueues
    <2>5. \A n : Key(n).n = n
        BY DEF Key
    <2>6. \A w \in Windows : \A n : In(r.posted[w], Key(n)) => In(q.posted[w], Key(n)) \/ (w = target /\ n = k)
        BY <2>4, <2>5
    <2>7. Underway(r, typedIn)
        BY <2>3, <2>6 DEF Underway
    <2> QED BY <2>3, <2>7 DEF Follows
<1>4. CASE r \in SendKeyThrough(k, Failed(q))
    <2>1. IsQueues(Failed(q)) /\ Failed(q).failed /\ Underway(Failed(q), typedIn) /\ Follows(Failed(q), q)
        BY FailType, UnderwayLess
    <2>2. Underway(r, typedIn) /\ Follows(r, Failed(q))
        BY <1>4, <2>1, UnderwaySend
    <2> QED BY <2>1, <2>2, FollowsTransitive
<1>5. CASE r = Dropped(k, Failed(q))
    BY <1>5, UnderwayLess, FailType, FollowsTransitive
<1> QED BY <1>1, <1>2, <1>3, <1>4, <1>5 DEF ResendKeyNow, Route

\* A committed syllable is a text wherever it goes: no queue and no window gains a key.
LEMMA CommitMovesNoKey ==
    ASSUME TypeOK, NEW w \in Windows, NEW m \in Events \union {NoKey}
    PROVE  /\ \A v \in Windows : \A n : In(DocsAfter(w, m)[v], Key(n)) => In(docs[v], Key(n))
           /\ \A v \in Windows : \A n : In(PostedAfter(w, m)[v], Key(n)) => In(posted[v], Key(n))
<1>1. docs \in [Windows -> Seq(Items)] /\ posted \in [Windows -> Seq(Items)]
    BY DEF TypeOK
<1>2. \A n : Key(n) # Text(m)
    BY DEF Key, Text
<1>3. ASSUME m # NoKey, NEW qs \in [Windows -> Seq(Items)], NEW v \in Windows, NEW n,
             In(Put(qs, w, Text(m))[v], Key(n))
      PROVE  In(qs[v], Key(n))
    <2>1. Text(m) \in Items /\ qs[w] \in Seq(Items)
        BY <1>3, ItemType
    <2>2. In(Append(qs[w], Text(m)), Key(n)) => In(qs[w], Key(n))
        BY <2>1, <1>2, InAppend
    <2> QED BY <1>3, <2>2 DEF Put
<1> QED BY <1>1, <1>3 DEF DocsAfter, PostedAfter

\* A window receives one item.
LEMMA InPut ==
    ASSUME NEW qs \in [Windows -> Seq(Items)], NEW w \in Windows, NEW item \in Items
    PROVE  \A v \in Windows : \A x : In(Put(qs, w, item)[v], x) => In(qs[v], x) \/ (v = w /\ x = item)
<1>1. qs[w] \in Seq(Items)
    OBVIOUS
<1>2. \A x : In(Append(qs[w], item), x) => In(qs[w], x) \/ x = item
    BY <1>1, InAppend
<1> QED BY <1>2 DEF Put

\* Key n may be received by w: it is a known one in its place, or one just taken.
MayLand(w, n) ==
    /\ n <= typed
    /\ ~failed /\ n \in DOMAIN resent /\ resent[n] \in EditFamily => w = resent[n]
    /\ n \notin DOMAIN resent => \A x \in Inputs : In(input', x) /\ User(x) => x.n # n

\* A step that only takes items out of the queues and delivers what may land.
LEMMA TakingPlaces ==
    ASSUME TypeInv, PlaceInv, UNCHANGED <<slot, timer, typed, resent, failed>>,
           Distinct(input'), \A x \in Inputs : In(input', x) => In(input, x),
           \A w \in Windows, n \in Events : In(posted'[w], Key(n)) => In(posted[w], Key(n)),
           \A w \in Windows, n \in Events : In(docs'[w], Key(n)) => In(docs[w], Key(n)) \/ MayLand(w, n)
    PROVE  PlaceInv'
<1>1. \A n \in Events : Sent(n) \in Inputs
    BY DEF Sent, Inputs
<1>2. Underway(Queues(input, posted), resent)'
    <2>1. Underway(Queues(input, posted), resent)
        BY DEF PlaceInv
    <2>2. DOMAIN resent \subseteq Events
        BY DEF TypeInv, TypeOK
    <2> QED BY <1>1, <2>1, <2>2 DEF Underway, Queues
<1>3. ASSUME NEW x \in Inputs, In(input', x), User(x)
      PROVE  New(x.n)' /\ x.n <= typed'
    <2>1. In(input, x) /\ New(x.n) /\ x.n <= typed
        BY <1>3 DEF PlaceInv
    <2>2. x.n \in Events
        BY <1>3 DEF Inputs, User
    <2> QED BY <1>3, <2>1, <2>2 DEF New, MayLand
<1>4. ASSUME NEW n \in Events, n > typed'
      PROVE  New(n)'
    <2>1. New(n) /\ ~(n <= typed)
        BY <1>4, ResendAssumption DEF PlaceInv, TypeInv, TypeOK, Events
    <2> QED BY <1>4, <2>1 DEF New, MayLand
<1>5. ASSUME ~failed', NEW k \in DOMAIN resent', NEW w \in Windows, resent'[k] \in EditFamily, In(docs'[w], Key(k))
      PROVE  w = resent'[k]
    <2>1. k \in Events
        BY DEF TypeInv, TypeOK
    <2> QED BY <1>5, <2>1 DEF PlaceInv, MayLand
<1>6. (timer => slot.key \in DOMAIN resent /\ (~failed => slot.target = resent[slot.key]))'
    BY DEF PlaceInv
<1> QED BY <1>2, <1>3, <1>4, <1>5, <1>6 DEF PlaceInv

LEMMA InitPlaces == Init => PlaceInv
<1> SUFFICES ASSUME Init PROVE PlaceInv
    OBVIOUS
<1>1. input = <<>> /\ timer = FALSE /\ resent = [n \in {} |-> NoWindow] /\ DOMAIN resent = {}
      /\ \A w \in Windows : posted[w] = <<>> /\ docs[w] = <<>>
    BY DEF Init
<1>2. \A x : ~In(<<>>, x)
    BY DEF In
<1>3. Distinct(input)
    BY <1>1 DEF Distinct
<1>4. Underway(Queues(input, posted), resent)
    BY <1>1, <1>2 DEF Underway, Queues
<1>5. \A n : New(n)
    BY <1>1, <1>2 DEF New
<1> QED BY <1>1, <1>2, <1>3, <1>4, <1>5 DEF PlaceInv

LEMMA PressPlaces == TypeInv /\ PlaceInv /\ Press => PlaceInv'
<1> SUFFICES ASSUME TypeInv, PlaceInv, Press PROVE PlaceInv'
    OBVIOUS
<1>1. typed \in Nat /\ typed + 1 \in Events /\ typed' = typed + 1 /\ input \in Seq(Inputs)
    BY ResendAssumption DEF Press, TypeInv, TypeOK, Events
<1>2. PICK e \in Inputs :
        /\ input' = Append(input, e) /\ e.kind # "sent"
        /\ User(e) => e.n = typed + 1
    <2>1. CASE \E kind \in {"jamo", "key"} : input' = Append(input, [kind |-> kind, n |-> typed + 1])
        BY <1>1, <2>1 DEF Inputs
    <2>2. CASE \E w \in alive : input' = Append(input, [kind |-> "click", to |-> w])
        <3>1. alive \subseteq Windows
            BY DEF TypeInv, TypeOK
        <3>2. PICK w \in alive : input' = Append(input, [kind |-> "click", to |-> w])
            BY <2>2
        <3>3. [kind |-> "click", to |-> w] \in Inputs
            BY <3>1 DEF Inputs
        <3> QED BY <3>2, <3>3 DEF User
    <2> QED BY <2>1, <2>2 DEF Press
<1>3. \A x : In(input', x) => In(input, x) \/ x = e
    BY <1>1, <1>2, InAppend
<1>4. UNCHANGED <<slot, timer, posted, docs, resent, dropped, failed>>
    BY DEF Press
<1>5. \A x \in Inputs : In(input, x) /\ User(x) => x.n <= typed /\ x.n \in Events /\ New(x.n)
    BY DEF PlaceInv, Inputs, User
<1>6. Distinct(input')
    <2>1. User(e) => \A x \in Inputs : In(input, x) /\ User(x) => x.n # e.n
        BY <1>1, <1>2, <1>5 DEF Events
    <2> QED BY <1>1, <1>2, <2>1, DistinctAppend DEF PlaceInv
<1>7. Underway(Queues(input, posted), resent)'
    <2>1. \A n : Sent(n) # e
        BY <1>2 DEF Sent
    <2>2. Underway(Queues(input, posted), resent)
        BY DEF PlaceInv
    <2> QED BY <1>3, <1>4, <2>1, <2>2 DEF Underway, Queues
<1>8. \A n \in Events : n > typed => New(n)'
    BY <1>4 DEF PlaceInv, New
<1>9. \A x \in Inputs : In(input', x) /\ User(x) => New(x.n)' /\ x.n <= typed'
    <2> SUFFICES ASSUME NEW x \in Inputs, In(input', x), User(x) PROVE New(x.n)' /\ x.n <= typed'
        OBVIOUS
    <2>1. CASE In(input, x)
        <3>1. New(x.n) /\ x.n <= typed /\ x.n \in Nat
            BY <1>5, <2>1 DEF Events
        <3> QED BY <1>1, <1>4, <3>1 DEF New
    <2>2. CASE x = e
        <3>1. x.n = typed + 1
            BY <1>2, <2>2
        <3> QED BY <1>1, <1>8, <3>1
    <2> QED BY <1>3, <2>1, <2>2
<1>10. \A n \in Events : n > typed' => New(n)'
    BY <1>1, <1>8 DEF Events
<1> QED BY <1>4, <1>6, <1>7, <1>9, <1>10 DEF PlaceInv

\* Taking the head of the input queue leaves the rest as it was.
LEMMA TakenInput ==
    ASSUME TypeInv, PlaceInv, input # <<>>, input' = Tail(input)
    PROVE  /\ Distinct(input') /\ \A x \in Inputs : In(input', x) => In(input, x)
           /\ In(input, Head(input)) /\ Head(input) \in Inputs
           /\ User(Head(input)) =>
                /\ New(Head(input).n) /\ Head(input).n <= typed
                /\ \A x \in Inputs : In(input', x) /\ User(x) => x.n # Head(input).n
<1>1. input \in Seq(Inputs) /\ TypeOK
    BY DEF TypeInv, TypeOK
<1>2. Head(input) \in Inputs
    BY <1>1, HeadType
<1>3. In(input, Head(input)) /\ \A x : In(Tail(input), x) => In(input, x)
    BY <1>1, InTail
<1> QED BY <1>1, <1>2, <1>3, DistinctTail DEF PlaceInv

LEMMA JamoPlaces == TypeInv /\ PlaceInv /\ TakeJamo => PlaceInv'
<1> SUFFICES ASSUME TypeInv, PlaceInv, TakeJamo PROVE PlaceInv'
    OBVIOUS
<1> DEFINE s == ServiceOf[focus]
           n == Head(input).n
<1>1. TypeOK /\ focus \in Windows /\ n \in Events /\ User(Head(input))
    BY HeadType DEF TakeJamo, TypeInv, TypeOK, User
<1>2. input # <<>> /\ input' = Tail(input) /\ UNCHANGED <<slot, timer, typed, resent, failed>>
    BY DEF TakeJamo
<1>3. /\ \A w \in Windows, k \in Events : In(posted'[w], Key(k)) => In(posted[w], Key(k))
      /\ \A w \in Windows, k \in Events : In(docs'[w], Key(k)) => In(docs[w], Key(k)) \/ k = n
    <2>1. CASE Serviced /\ docs' = DocsAfter(focus, composing[s]) /\ posted' = PostedAfter(focus, composing[s])
        BY <1>1, <2>1, ServicedType, CommitMovesNoKey
    <2>2. CASE UNCHANGED <<docs, posted>>
        BY <2>2
    <2>3. CASE docs' = Put(docs, focus, Key(n)) /\ UNCHANGED posted
        <3>0. docs \in [Windows -> Seq(Items)] /\ Key(n) \in Items
            BY <1>1, ItemType DEF TypeOK
        <3>4. \A w \in Windows : \A x : In(Put(docs, focus, Key(n))[w], x) => In(docs[w], x) \/ (w = focus /\ x = Key(n))
            BY <1>1, <3>0, InPut, Zenon
        <3>1. \A w \in Windows : \A x : In(docs'[w], x) => In(docs[w], x) \/ x = Key(n)
            BY <2>3, <3>4, Zenon
        <3>2. \A k : Key(k).n = k
            BY DEF Key
        <3> QED BY <2>3, <3>1, <3>2
    <2> QED BY <2>1, <2>2, <2>3 DEF TakeJamo
<1>4. \A w \in Windows : MayLand(w, n)
    BY <1>1, <1>2, TakenInput DEF MayLand, New
<1> QED BY <1>2, <1>3, <1>4, TakenInput, TakingPlaces

LEMMA TakeKeyPlaces == TypeInv /\ PlaceInv /\ TakeKey => PlaceInv'
<1> SUFFICES ASSUME TypeInv, PlaceInv, TakeKey PROVE PlaceInv'
    OBVIOUS
<1> DEFINE n == Head(input).n
<1>1. TypeOK /\ focus \in Windows /\ n \in Events
    BY HeadType DEF TakeKey, TypeInv, TypeOK
<1>2. /\ input # <<>> /\ input' = Tail(input) /\ docs' = Put(docs, focus, Key(n))
      /\ UNCHANGED <<slot, timer, posted, typed, resent, failed>>
    BY DEF TakeKey
<1>3. \A w \in Windows, k \in Events : In(docs'[w], Key(k)) => In(docs[w], Key(k)) \/ (k = n /\ w = focus)
    <2>0. docs \in [Windows -> Seq(Items)] /\ Key(n) \in Items
        BY <1>1, ItemType DEF TypeOK
    <2>1. \A w \in Windows : \A x : In(docs'[w], x) => In(docs[w], x) \/ (w = focus /\ x = Key(n))
        <3>1. \A w \in Windows : \A x : In(Put(docs, focus, Key(n))[w], x) => In(docs[w], x) \/ (w = focus /\ x = Key(n))
            BY <1>1, <2>0, InPut, Zenon
        <3> QED BY <1>2, <3>1, Zenon
    <2>2. \A k : Key(k).n = k
        BY DEF Key
    <2> QED BY <2>1, <2>2
<1>4. MayLand(focus, n)
    <2>1. CASE User(Head(input))
        BY <1>2, <2>1, TakenInput DEF MayLand, New
    <2>2. CASE Head(input).kind = "sent"
        <3>1. Head(input) = Sent(n)
            BY <1>2, <2>2, TakenInput DEF Inputs, Sent
        <3>2. In(input, Sent(n)) /\ Queues(input, posted).input = input /\ Queues(input, posted).failed = failed
            BY <1>2, <3>1, TakenInput DEF Queues
        <3>3. n \in DOMAIN resent /\ (~failed => resent[n] \notin EditFamily)
            BY <1>1, <3>2 DEF PlaceInv, Underway
        <3>4. n <= typed
            BY <1>1, <3>3, ResendAssumption DEF PlaceInv, New, TypeOK, Events
        <3> QED BY <3>3, <3>4 DEF MayLand
    <2> QED BY <2>1, <2>2 DEF TakeKey, User
<1> QED BY <1>2, <1>3, <1>4, TakenInput, TakingPlaces

LEMMA MovePlaces == TypeInv /\ PlaceInv /\ (TakeClick \/ FocusMoves) => PlaceInv'
<1> SUFFICES ASSUME TypeInv, PlaceInv, TakeClick \/ FocusMoves PROVE PlaceInv'
    OBVIOUS
<1>1. TypeOK /\ focus \in Windows
    BY DEF TypeInv, TypeOK
<1>2. Distinct(input') /\ \A x \in Inputs : In(input', x) => In(input, x)
    <2>1. CASE TakeClick
        BY <2>1, TakenInput DEF TakeClick
    <2>2. CASE FocusMoves
        BY <2>2 DEF FocusMoves, PlaceInv
    <2> QED BY <2>1, <2>2
<1>3. PICK w \in alive : FocusTo(w)
    BY <1>1 DEF TakeClick, FocusMoves, TypeOK
<1>4. UNCHANGED <<slot, timer, typed, resent, failed>>
    BY <1>3 DEF FocusTo
<1>5. /\ \A v \in Windows, k \in Events : In(posted'[v], Key(k)) => In(posted[v], Key(k))
      /\ \A v \in Windows, k \in Events : In(docs'[v], Key(k)) => In(docs[v], Key(k))
    <2> DEFINE s == ServiceOf[focus]
    <2>1. CASE Serviced /\ docs' = DocsAfter(focus, composing[s]) /\ posted' = PostedAfter(focus, composing[s])
        BY <1>1, <2>1, ServicedType, CommitMovesNoKey
    <2>2. CASE UNCHANGED <<docs, posted>>
        BY <2>2
    <2> QED BY <1>3, <2>1, <2>2 DEF FocusTo
<1> QED BY <1>2, <1>4, <1>5, TakingPlaces

LEMMA PostedPlaces == TypeInv /\ PlaceInv /\ (\E w \in Windows : TakePosted(w) \/ Destroy(w)) => PlaceInv'
<1> SUFFICES ASSUME TypeInv, PlaceInv, NEW w \in Windows, TakePosted(w) \/ Destroy(w) PROVE PlaceInv'
    OBVIOUS
<1>1. /\ TypeOK /\ UNCHANGED <<input, slot, timer, typed, resent, failed>>
      /\ Distinct(input') /\ \A x \in Inputs : In(input', x) => In(input, x)
    BY DEF TypeInv, TakePosted, Destroy, PlaceInv
<1>2. CASE TakePosted(w)
    <2> DEFINE item == Head(posted[w])
    <2>1. posted[w] \in Seq(Items) /\ posted[w] # <<>>
        BY <1>1, <1>2 DEF TypeOK, TakePosted
    <2>2. item \in Items /\ In(posted[w], item) /\ \A x : In(Tail(posted[w]), x) => In(posted[w], x)
        BY <2>1, InTail
    <2>3. \A v \in Windows, k \in Events : In(posted'[v], Key(k)) => In(posted[v], Key(k))
        BY <1>1, <1>2, <2>2 DEF TakePosted, TypeOK
    <2>4. \A v \in Windows : \A x : In(docs'[v], x) => In(docs[v], x) \/ (v = w /\ x = item)
        <3>1. docs \in [Windows -> Seq(Items)] /\ docs' = Put(docs, w, item)
            BY <1>1, <1>2 DEF TakePosted, TypeOK
        <3>2. \A v \in Windows : \A x : In(Put(docs, w, item)[v], x) => In(docs[v], x) \/ (v = w /\ x = item)
            BY <2>2, <3>1, InPut, Zenon
        <3> QED BY <3>1, <3>2, Zenon
    <2>5. \A k \in Events : item = Key(k) => MayLand(w, k)
        <3> SUFFICES ASSUME NEW k \in Events, item = Key(k) PROVE MayLand(w, k)
            OBVIOUS
        <3>1. In(Queues(input, posted).posted[w], Key(k)) /\ Queues(input, posted).failed = failed
            BY <2>2 DEF Queues
        <3>2. k \in DOMAIN resent /\ (~failed /\ resent[k] \in EditFamily => w = resent[k])
            BY <3>1 DEF PlaceInv, Underway
        <3>3. k <= typed
            BY <1>1, <3>2, ResendAssumption DEF PlaceInv, New, TypeOK, Events
        <3> QED BY <3>2, <3>3 DEF MayLand
    <2> QED BY <1>1, <2>3, <2>4, <2>5, TakingPlaces
<1>3. CASE Destroy(w)
    <2>1. \A x : ~In(<<>>, x)
        BY DEF In
    <2>2. \A v \in Windows, k \in Events : In(posted'[v], Key(k)) => In(posted[v], Key(k))
        BY <1>1, <1>3, <2>1 DEF Destroy, TypeOK
    <2>3. docs' = docs
        BY <1>3 DEF Destroy
    <2> QED BY <1>1, <2>2, <2>3, TakingPlaces
<1> QED BY <1>2, <1>3

\* The waiting key is sent, by the timer or by Deactivate.
LEMMA SlotSentPlaces ==
    ASSUME TypeInv, PlaceInv, timer, timer' = FALSE, UNCHANGED <<docs, typed, resent>>,
           \E r \in ResendKeyNow(slot.key, slot.target, Queues(input, posted)) : Become(r)
    PROVE  PlaceInv'
<1> DEFINE q == Queues(input, posted)
           k == slot.key
<1>1. /\ TypeOK /\ IsQueues(q) /\ q.input = input /\ q.failed = failed
      /\ k \in Events /\ k \in DOMAIN resent /\ resent[k] \in Windows
      /\ ~failed => slot.target = resent[k]
    BY QueuesType DEF TypeInv, TypeOK, PlaceInv, Queues
<1>2. PICK r \in ResendKeyNow(k, slot.target, q) : Become(r)
    OBVIOUS
<1>3. Underway(r, resent) /\ Follows(r, q)
    BY <1>1, <1>2, UnderwayResend DEF PlaceInv
<1>4. input' = r.input /\ posted' = r.posted /\ failed' = r.failed
    BY <1>2 DEF Become
<1>5. Underway(Queues(input, posted), resent)'
    BY <1>3, <1>4 DEF Underway, Queues
<1>6. /\ Distinct(input') /\ (failed => failed')
      /\ \A x \in Inputs : User(x) /\ In(input', x) => In(input, x)
    BY <1>1, <1>3, <1>4 DEF Follows, PlaceInv
<1>7. \A n : New(n)' <=> New(n)
    BY DEF New
<1>8. /\ \A x \in Inputs : In(input', x) /\ User(x) => New(x.n)' /\ x.n <= typed'
      /\ \A n \in Events : n > typed' => New(n)'
    BY <1>6, <1>7 DEF PlaceInv
<1>9. ~failed' => \A j \in DOMAIN resent', w \in Windows :
        resent'[j] \in EditFamily /\ In(docs'[w], Key(j)) => w = resent'[j]
    BY <1>6 DEF PlaceInv
<1> QED BY <1>5, <1>6, <1>8, <1>9 DEF PlaceInv

LEMMA InstancePlaces == TypeInv /\ PlaceInv /\ (\E s \in Services : Activate(s) \/ Deactivate(s)) => PlaceInv'
<1> SUFFICES ASSUME TypeInv, PlaceInv, NEW s \in Services, Activate(s) \/ Deactivate(s) PROVE PlaceInv'
    OBVIOUS
<1>1. CASE Deactivate(s) /\ timer /\ IsOwn(s)
    BY <1>1, SlotSentPlaces DEF Deactivate
<1>2. CASE UNCHANGED <<timer, slot, input, posted, docs, typed, resent, dropped, failed>>
    BY <1>2 DEF PlaceInv, Underway, Queues, Distinct, New
<1> QED BY <1>1, <1>2 DEF Activate, Deactivate

\* The waiting key has the window it was typed in.
Booked(q, typedIn) ==
    timer => /\ slot.key \in DOMAIN typedIn /\ typedIn[slot.key] \in Windows
             /\ ~q.failed => slot.target = typedIn[slot.key]

\* It is sent first, there.
LEMMA EmittedPlaces ==
    ASSUME TypeInv, PlaceInv, NEW q, IsQueues(q), NEW typedIn, Underway(q, typedIn),
           Booked(q, typedIn), NEW r \in Emitted(q)
    PROVE  Underway(r, typedIn) /\ Follows(r, q)
<1>1. CASE timer
    <2>1. TypeOK /\ slot.key \in Events /\ r \in ResendKeyNow(slot.key, slot.target, q)
        BY <1>1 DEF TypeInv, Emitted
    <2> QED BY <1>1, <2>1, UnderwayResend DEF Booked
<1>2. CASE ~timer
    BY <1>2 DEF Emitted, Follows
<1> QED BY <1>1, <1>2

\* The new key waits for the window that has the focus, or is sent at once after a failure.
LEMMA SchedulePlaces ==
    ASSUME TypeInv, NEW n \in Events, NEW s, NEW q, IsQueues(q), NEW typedIn, Underway(q, typedIn),
           n \in DOMAIN typedIn, typedIn[n] = focus, Schedule(n, s, q)
    PROVE  \E r : /\ Follows(r, q) /\ Underway(r, typedIn) /\ Become(r)
                  /\ timer' => slot'.key = n /\ (~r.failed => slot'.target = focus)
<1>1. TypeOK /\ focus \in Windows /\ IsQueues(Failed(q)) /\ Failed(q).failed
      /\ Underway(Failed(q), typedIn) /\ Follows(Failed(q), q) /\ Follows(q, q)
    BY UnderwayLess, FailType DEF TypeInv, TypeOK, Follows
<1>2. PICK target \in {focus} \union (IF MayFail THEN {NoWindow} ELSE {}) :
        /\ slot' = [key |-> n, target |-> target, owner |-> s]
        /\ \/ timer' = TRUE /\ Become(IF target = NoWindow THEN Failed(q) ELSE q)
           \/ MayFail /\ timer' = FALSE /\ \E r \in Untimed(n, target, Failed(q)) : Become(r)
    BY Zenon DEF Schedule
<1>3. slot'.key = n /\ slot'.target = target /\ target \in {focus, NoWindow}
    BY <1>2
<1>4. CASE timer' = TRUE /\ target = NoWindow /\ Become(Failed(q))
    BY <1>1, <1>3, <1>4
<1>5. CASE timer' = TRUE /\ target # NoWindow /\ Become(q)
    BY <1>1, <1>3, <1>5
<1>6. CASE timer' = FALSE /\ \E r \in Untimed(n, target, Failed(q)) : Become(r)
    <2>1. PICK r \in ResendKeyNow(n, target, Failed(q)) : Become(r)
        BY <1>6 DEF Untimed
    <2>2. Underway(r, typedIn) /\ Follows(r, Failed(q))
        BY <1>1, <2>1, UnderwayResend
    <2>3. Follows(r, q)
        BY <1>1, <2>2, FollowsTransitive
    <2> QED BY <1>6, <2>1, <2>2, <2>3
<1> QED BY <1>2, <1>4, <1>5, <1>6

\* What EatKey makes of the queues before it sends a key, and where the keys were typed then.
EatenQueues == Queues(Tail(input), PostedAfter(focus, composing[ServiceOf[focus]]))
EatenHomes  == [k \in DOMAIN resent \union {Head(input).n} |-> IF k = Head(input).n THEN focus ELSE resent[k]]

LEMMA EatUnderway ==
    ASSUME TypeInv, PlaceInv, EatKey
    PROVE  /\ IsQueues(EatenQueues) /\ EatenQueues.input = Tail(input) /\ EatenQueues.failed = failed
           /\ EatenQueues.posted = PostedAfter(focus, composing[ServiceOf[focus]])
           /\ EatenQueues.dropped = dropped
           /\ Underway(EatenQueues, EatenHomes) /\ Booked(EatenQueues, EatenHomes)
<1> DEFINE s == ServiceOf[focus]
           n == Head(input).n
           p == PostedAfter(focus, composing[s])
           q == EatenQueues
           typedIn == EatenHomes
<1>1. /\ TypeOK /\ focus \in Windows /\ input # <<>> /\ Head(input).kind = "key" /\ n \in Events
      /\ s \in Services /\ composing[s] \in Events \union {NoKey}
    BY HeadType, ServicedType DEF EatKey, TypeInv, TypeOK
<1>2. input \in Seq(Inputs) /\ Tail(input) \in Seq(Inputs) /\ User(Head(input)) /\ Head(input) \in Inputs
    BY <1>1, HeadType DEF TypeOK, User
<1>3. In(input, Head(input)) /\ \A x : In(Tail(input), x) => In(input, x)
    BY <1>1, <1>2, InTail
<1>4. New(n)
    BY <1>1, <1>2, <1>3 DEF PlaceInv
<1>5. p \in [Windows -> Seq(Items)] /\ IsQueues(q)
      /\ q.input = Tail(input) /\ q.posted = p /\ q.failed = failed /\ q.dropped = dropped
    <2>1. p \in [Windows -> Seq(Items)]
        BY <1>1, CommitType
    <2> QED BY <1>1, <1>2, <2>1, QueuesType DEF Queues, EatenQueues
<1>6. Underway(q, typedIn)
    <2>1. Underway(Queues(input, posted), resent) /\ n \notin DOMAIN resent
        BY <1>4 DEF PlaceInv, New
    <2>2. /\ \A k \in Events : In(input, Sent(k)) => k \in DOMAIN resent
          /\ \A w \in Windows, k \in Events : In(posted[w], Key(k)) => k \in DOMAIN resent
          /\ ~failed => \A k \in DOMAIN resent : resent[k] \in EditFamily =>
                /\ ~In(input, Sent(k))
                /\ \A w \in Windows : In(posted[w], Key(k)) => w = resent[k]
        BY <2>1 DEF Underway, Queues
    <2>3. /\ \A k : In(q.input, Sent(k)) => In(input, Sent(k))
          /\ \A w \in Windows : \A k : In(q.posted[w], Key(k)) => In(posted[w], Key(k))
        BY <1>1, <1>3, <1>5, CommitMovesNoKey
    <2>4. DOMAIN typedIn = DOMAIN resent \union {n} /\ \A k \in DOMAIN resent : typedIn[k] = resent[k]
        BY <2>1 DEF EatenHomes
    <2> HIDE DEF q, typedIn
    <2> QED BY <1>1, <1>5, <2>1, <2>2, <2>3, <2>4 DEF Underway
<1>7. Booked(q, typedIn)
    BY <1>1, <1>4, <1>5 DEF Booked, PlaceInv, New, TypeOK, EatenHomes
<1> QED BY <1>5, <1>6, <1>7

LEMMA EatPlaces == TypeInv /\ PlaceInv /\ EatKey => PlaceInv'
<1> SUFFICES ASSUME TypeInv, PlaceInv, EatKey PROVE PlaceInv'
    OBVIOUS
<1> DEFINE s == ServiceOf[focus]
           n == Head(input).n
           q == EatenQueues
           typedIn == EatenHomes
<1>1. /\ TypeOK /\ focus \in Windows /\ input # <<>> /\ Head(input).kind = "key" /\ n \in Events
      /\ s \in Services /\ composing[s] \in Events \union {NoKey}
    BY HeadType, ServicedType DEF EatKey, TypeInv, TypeOK
<1>2. /\ resent' = typedIn /\ docs' = DocsAfter(focus, composing[s]) /\ typed' = typed
      /\ \E r \in Emitted(q) : Schedule(n, s, r)
    BY DEF EatKey, EatenQueues, EatenHomes
<1>3. input \in Seq(Inputs) /\ Tail(input) \in Seq(Inputs) /\ User(Head(input)) /\ Head(input) \in Inputs
    BY <1>1, HeadType DEF TypeOK, User
<1>4. In(input, Head(input)) /\ \A x : In(Tail(input), x) => In(input, x)
    BY <1>1, <1>3, InTail
<1>5. New(n) /\ n <= typed /\ Distinct(Tail(input))
      /\ \A x \in Inputs : In(Tail(input), x) /\ User(x) => x.n # n
    BY <1>1, <1>3, <1>4, DistinctTail DEF PlaceInv
<1>6. /\ IsQueues(q) /\ q.input = Tail(input) /\ q.failed = failed
      /\ Underway(q, typedIn) /\ Booked(q, typedIn)
    BY EatUnderway
<1>7. n \in DOMAIN typedIn /\ typedIn[n] = focus
    BY DEF EatenHomes
<1> HIDE DEF q, typedIn
<1>8. PICK r0 \in Emitted(q) : Schedule(n, s, r0)
    BY <1>2
<1>9. IsQueues(r0) /\ Underway(r0, typedIn) /\ Follows(r0, q)
    <2>1. IsQueues(r0)
        BY <1>6, <1>8, EmittedType
    <2>2. Underway(r0, typedIn) /\ Follows(r0, q)
        BY <1>6, <1>8, EmittedPlaces, Zenon
    <2> QED BY <2>1, <2>2
<1>10. PICK r : /\ Follows(r, r0) /\ Underway(r, typedIn) /\ Become(r)
                /\ timer' => slot'.key = n /\ (~r.failed => slot'.target = focus)
    BY <1>1, <1>7, <1>8, <1>9, SchedulePlaces
<1>11. /\ input' = r.input /\ posted' = r.posted /\ failed' = r.failed
       /\ Distinct(input') /\ (failed => failed')
       /\ \A x \in Inputs : User(x) /\ In(input', x) => In(Tail(input), x)
    BY <1>5, <1>6, <1>9, <1>10 DEF Become, Follows
<1>12. Underway(Queues(input, posted), resent)'
    BY <1>2, <1>10, <1>11 DEF Underway, Queues
<1>13. \A v \in Windows : \A k : In(docs'[v], Key(k)) => In(docs[v], Key(k))
    BY <1>1, <1>2, CommitMovesNoKey
<1>14. DOMAIN resent' = DOMAIN resent \union {n} /\ \A k \in DOMAIN resent : resent'[k] = resent[k]
    BY <1>2, <1>5 DEF New, EatenHomes, typedIn
<1>15. \A k : New(k) /\ k # n => New(k)'
    BY <1>13, <1>14 DEF New
<1>16. \A x \in Inputs : In(input', x) /\ User(x) => New(x.n)' /\ x.n <= typed'
    BY <1>2, <1>4, <1>5, <1>11, <1>15 DEF PlaceInv
<1>17. \A k \in Events : k > typed' => New(k)'
    <2>1. typed \in Nat /\ Events \subseteq Nat
        BY <1>1, ResendAssumption DEF TypeOK, Events
    <2>2. \A k \in Events : k > typed => k # n
        BY <1>1, <1>5, <2>1
    <2> QED BY <1>2, <1>15, <2>2 DEF PlaceInv
<1>18. ~failed' => \A k \in DOMAIN resent', w \in Windows :
        resent'[k] \in EditFamily /\ In(docs'[w], Key(k)) => w = resent'[k]
    BY <1>5, <1>11, <1>13, <1>14 DEF PlaceInv, New
<1>19. (timer => slot.key \in DOMAIN resent /\ (~failed => slot.target = resent[slot.key]))'
    BY <1>2, <1>7, <1>10, <1>11
<1> QED BY <1>11, <1>12, <1>16, <1>17, <1>18, <1>19 DEF PlaceInv

LEMMA NextPlaces == TypeInv /\ PlaceInv /\ [Next]_vars => PlaceInv'
<1> SUFFICES ASSUME TypeInv, PlaceInv, [Next]_vars PROVE PlaceInv'
    OBVIOUS
<1>1. CASE UNCHANGED vars
    BY <1>1 DEF vars, PlaceInv, Underway, Queues, Distinct, New
<1>2. CASE Next
    BY <1>2, PressPlaces, JamoPlaces, EatPlaces, TakeKeyPlaces, MovePlaces, PostedPlaces, InstancePlaces,
       SlotSentPlaces, Zenon DEF Next, TakeInput, ResendTimerProc
<1> QED BY <1>1, <1>2

\* A key eaten in an EDIT window is received by that window only, whatever the user and the
\* applications do with the focus before the timer fires, as long as no call has failed.
THEOREM KeysStayHome == Spec => []EditKeyStaysHome
<1>1. TypeInv /\ PlaceInv => EditKeyStaysHome
    <2> SUFFICES ASSUME TypeInv, PlaceInv, NEW k \in DOMAIN resent, NEW w \in Windows,
                        ~failed, resent[k] \in EditFamily, At(docs[w], Key(k)) # {}
                 PROVE  w = resent[k]
        BY DEF EditKeyStaysHome
    <2>1. In(docs[w], Key(k))
        BY DEF In, At
    <2> QED BY <2>1 DEF PlaceInv
<1>2. Init => TypeInv /\ PlaceInv
    BY InitTypes, InitPlaces
<1>3. TypeInv /\ PlaceInv /\ [Next]_vars => (TypeInv /\ PlaceInv)'
    BY NextTypes, NextPlaces
<1> QED BY <1>1, <1>2, <1>3, PTL DEF Spec
-----------------------------------------------------------------------------
\* Each eaten key is in one place.  x stands once in a sequence; in one of a family of
\* queues, once; in none.
Once(seq, x)  == \E i \in DOMAIN seq : seq[i] = x /\ \A j \in DOMAIN seq : seq[j] = x => j = i
NoneOf(qs, x) == \A w \in Windows : ~In(qs[w], x)
OneOf(qs, x)  == \E w \in Windows : Once(qs[w], x) /\ \A v \in Windows \ {w} : ~In(qs[v], x)

\* What the places know of one item is the same in two sequences, or two families.
SameIn(s, t, x)    == (In(s, x) <=> In(t, x)) /\ (Once(s, x) <=> Once(t, x))
SameOf(ps, qs, x)  == (NoneOf(ps, x) <=> NoneOf(qs, x)) /\ (OneOf(ps, x) <=> OneOf(qs, x))

LEMMA OnceAppend ==
    ASSUME NEW S, NEW seq \in Seq(S), NEW e \in S
    PROVE  /\ \A x : x # e => SameIn(Append(seq, e), seq, x)
           /\ ~In(seq, e) => Once(Append(seq, e), e)
<1> DEFINE s == Append(seq, e)
<1>1. /\ DOMAIN s = 1 .. Len(seq) + 1 /\ s[Len(seq) + 1] = e /\ \A i \in DOMAIN seq : s[i] = seq[i]
      /\ DOMAIN seq = 1 .. Len(seq) /\ Len(seq) \in Nat
    OBVIOUS
<1> HIDE DEF s
<1>2. \A i \in DOMAIN s : i \in DOMAIN seq \/ (i = Len(seq) + 1 /\ s[i] = e)
    BY <1>1
<1>3. \A i \in DOMAIN seq : i \in DOMAIN s
    BY <1>1
<1>4. ASSUME NEW x, x # e PROVE SameIn(s, seq, x)
    <2>1. \A i : i \in DOMAIN s /\ s[i] = x <=> i \in DOMAIN seq /\ seq[i] = x
        BY <1>1, <1>2, <1>3, <1>4
    <2> QED BY <2>1, Zenon DEF SameIn, In, Once
<1>5. ASSUME ~In(seq, e) PROVE Once(s, e)
    <2>1. Len(seq) + 1 \in DOMAIN s
        BY <1>1
    <2>2. \A j \in DOMAIN s : s[j] = e => j = Len(seq) + 1
        BY <1>1, <1>2, <1>5 DEF In
    <2> QED BY <1>1, <2>1, <2>2 DEF Once
<1> QED BY <1>4, <1>5 DEF s

LEMMA OnceTail ==
    ASSUME NEW S, NEW seq \in Seq(S), seq # <<>>
    PROVE  /\ \A x : x # Head(seq) => SameIn(Tail(seq), seq, x)
           /\ Once(seq, Head(seq)) => ~In(Tail(seq), Head(seq))
<1> DEFINE t == Tail(seq)
           h == Head(seq)
<1>1. /\ Len(seq) \in Nat \ {0} /\ DOMAIN seq = 1 .. Len(seq) /\ h = seq[1]
      /\ DOMAIN t = 1 .. Len(seq) - 1 /\ \A i \in 1 .. Len(seq) - 1 : t[i] = seq[i + 1]
    OBVIOUS
<1> HIDE DEF t, h
<1>2. \A i \in DOMAIN t : i + 1 \in DOMAIN seq /\ i + 1 # 1 /\ t[i] = seq[i + 1] /\ i \in Int
    BY <1>1
<1>3. \A i \in DOMAIN seq : i # 1 => i - 1 \in DOMAIN t /\ t[i - 1] = seq[i] /\ i \in Int
    <2> SUFFICES ASSUME NEW i \in DOMAIN seq, i # 1 PROVE i - 1 \in DOMAIN t /\ t[i - 1] = seq[i] /\ i \in Int
        OBVIOUS
    <2>1. i - 1 \in 1 .. Len(seq) - 1 /\ (i - 1) + 1 = i
        BY <1>1
    <2> QED BY <1>1, <2>1
<1>4. ASSUME NEW x, x # h PROVE SameIn(t, seq, x)
    <2>1. \A i \in DOMAIN seq : seq[i] = x => i # 1
        BY <1>1, <1>4
    <2>2. In(t, x) <=> In(seq, x)
        BY <1>2, <1>3, <2>1 DEF In
    <2>3. ASSUME Once(t, x) PROVE Once(seq, x)
        <3>1. PICK i \in DOMAIN t : t[i] = x /\ \A j \in DOMAIN t : t[j] = x => j = i
            BY <2>3 DEF Once
        <3>2. i + 1 \in DOMAIN seq /\ seq[i + 1] = x
            BY <1>2, <3>1
        <3>3. \A j \in DOMAIN seq : seq[j] = x => j = i + 1
            BY <1>2, <1>3, <2>1, <3>1
        <3> QED BY <3>2, <3>3 DEF Once
    <2>4. ASSUME Once(seq, x) PROVE Once(t, x)
        <3>1. PICK i \in DOMAIN seq : seq[i] = x /\ \A j \in DOMAIN seq : seq[j] = x => j = i
            BY <2>4 DEF Once
        <3>2. i - 1 \in DOMAIN t /\ t[i - 1] = x /\ i \in Int
            BY <1>3, <2>1, <3>1
        <3>3. \A j \in DOMAIN t : t[j] = x => j = i - 1
            BY <1>2, <3>1, <3>2
        <3> QED BY <3>2, <3>3 DEF Once
    <2> QED BY <2>2, <2>3, <2>4 DEF SameIn
<1>5. ASSUME Once(seq, h) PROVE ~In(t, h)
    <2>1. 1 \in DOMAIN seq /\ seq[1] = h
        BY <1>1
    <2>2. \A j \in DOMAIN seq : seq[j] = h => j = 1
        BY <1>5, <2>1 DEF Once
    <2> QED BY <1>2, <2>2 DEF In
<1> QED BY <1>4, <1>5 DEF t, h

\* One queue of a family is replaced.
LEMMA OneReplaced ==
    ASSUME NEW ps, NEW qs, NEW w \in Windows, \A v \in Windows \ {w} : ps[v] = qs[v], NEW x
    PROVE  /\ SameIn(ps[w], qs[w], x) => SameOf(ps, qs, x)
           /\ NoneOf(qs, x) /\ Once(ps[w], x) => OneOf(ps, x)
           /\ OneOf(qs, x) /\ In(qs[w], x) => Once(qs[w], x)
           /\ OneOf(qs, x) /\ In(qs[w], x) /\ ~In(ps[w], x) => NoneOf(ps, x)
<1>1. \A v \in Windows : v # w => ps[v] = qs[v]
    OBVIOUS
<1>2. ASSUME NEW s, Once(s, x) PROVE In(s, x)
    BY <1>2 DEF Once, In
<1>3. ASSUME SameIn(ps[w], qs[w], x) PROVE SameOf(ps, qs, x)
    <2>1. \A v \in Windows : (In(ps[v], x) <=> In(qs[v], x)) /\ (Once(ps[v], x) <=> Once(qs[v], x))
        BY <1>1, <1>3 DEF SameIn
    <2>2. NoneOf(ps, x) <=> NoneOf(qs, x)
        BY <2>1 DEF NoneOf
    <2>3. \A v \in Windows : \A u \in Windows \ {v} : In(ps[u], x) <=> In(qs[u], x)
        BY <2>1
    <2>4. OneOf(ps, x) <=> OneOf(qs, x)
        BY <2>1, <2>3, Zenon DEF OneOf
    <2> QED BY <2>2, <2>4 DEF SameOf
<1>4. ASSUME NoneOf(qs, x), Once(ps[w], x) PROVE OneOf(ps, x)
    BY <1>1, <1>4 DEF NoneOf, OneOf
<1>5. ASSUME OneOf(qs, x), In(qs[w], x)
      PROVE  Once(qs[w], x) /\ (~In(ps[w], x) => NoneOf(ps, x))
    BY <1>1, <1>5 DEF NoneOf, OneOf
<1> QED BY <1>3, <1>4, <1>5

\* The queues that a call has to do with: k has no place in them, or one.
Nowhere(q, k) == ~In(q.input, Sent(k)) /\ NoneOf(q.posted, Key(k)) /\ k \notin q.dropped
Somewhere(q, k) ==
    \/ Once(q.input, Sent(k)) /\ NoneOf(q.posted, Key(k)) /\ k \notin q.dropped
    \/ ~In(q.input, Sent(k)) /\ OneOf(q.posted, Key(k)) /\ k \notin q.dropped
    \/ ~In(q.input, Sent(k)) /\ NoneOf(q.posted, Key(k)) /\ k \in q.dropped
SamePlace(r, q, k) ==
    /\ SameIn(r.input, q.input, Sent(k)) /\ SameOf(r.posted, q.posted, Key(k))
    /\ k \in r.dropped <=> k \in q.dropped

LEMMA SamePlaceKeeps ==
    \A r, q, k : SamePlace(r, q, k) => (Nowhere(r, k) <=> Nowhere(q, k)) /\ (Somewhere(r, k) <=> Somewhere(q, k))
<1> SUFFICES ASSUME NEW r, NEW q, NEW k, SamePlace(r, q, k)
             PROVE  (Nowhere(r, k) <=> Nowhere(q, k)) /\ (Somewhere(r, k) <=> Somewhere(q, k))
    OBVIOUS
<1>1. /\ In(r.input, Sent(k)) <=> In(q.input, Sent(k))
      /\ Once(r.input, Sent(k)) <=> Once(q.input, Sent(k))
      /\ NoneOf(r.posted, Key(k)) <=> NoneOf(q.posted, Key(k))
      /\ OneOf(r.posted, Key(k)) <=> OneOf(q.posted, Key(k))
      /\ k \in r.dropped <=> k \in q.dropped
    BY DEF SamePlace, SameIn, SameOf
<1>2. Nowhere(r, k) <=> Nowhere(q, k)
    BY <1>1, Zenon DEF Nowhere
<1>3. Somewhere(r, k) => Somewhere(q, k)
    BY <1>1, Zenon DEF Somewhere
<1>4. Somewhere(q, k) => Somewhere(r, k)
    BY <1>1, Zenon DEF Somewhere
<1> QED BY <1>2, <1>3, <1>4

\* A call that sends key k gives it a place and moves no other key.
PlacesOnly(r, q, k) ==
    /\ Nowhere(q, k) => Somewhere(r, k)
    /\ \A j \in Events \ {k} : SamePlace(r, q, j)

LEMMA OnceDrop ==
    ASSUME NEW q, IsQueues(q), NEW k \in Events
    PROVE  /\ PlacesOnly(Dropped(k, q), q, k) /\ PlacesOnly(Dropped(k, Failed(q)), q, k)
           /\ \A j : SamePlace(Failed(q), q, j)
<1>1. /\ Dropped(k, q).input = q.input /\ Dropped(k, q).posted = q.posted
      /\ Dropped(k, q).dropped = q.dropped \union {k}
      /\ Failed(q).input = q.input /\ Failed(q).posted = q.posted /\ Failed(q).dropped = q.dropped
      /\ Dropped(k, Failed(q)).input = q.input /\ Dropped(k, Failed(q)).posted = q.posted
      /\ Dropped(k, Failed(q)).dropped = q.dropped \union {k}
    BY DEF IsQueues, Dropped, Failed
<1> QED BY <1>1 DEF PlacesOnly, SamePlace, SameIn, SameOf, Nowhere, Somewhere

LEMMA OnceSend ==
    ASSUME NEW q, IsQueues(q), NEW k \in Events, NEW r \in SendKeyThrough(k, q)
    PROVE  PlacesOnly(r, q, k)
<1>1. CASE r = [q EXCEPT !.input = Append(@, [kind |-> "sent", n |-> k])]
    <2>1. Sent(k) \in Inputs /\ q.input \in Seq(Inputs) /\ \A j : j # k => Sent(j) # Sent(k)
        BY DEF Inputs, Sent, IsQueues
    <2>2. r.input = Append(q.input, Sent(k)) /\ r.posted = q.posted /\ r.dropped = q.dropped
        BY <1>1 DEF IsQueues, Sent
    <2>3. \A j \in Events \ {k} : SamePlace(r, q, j)
        <3>1. \A j \in Events \ {k} : SameIn(r.input, q.input, Sent(j))
            BY <2>1, <2>2, OnceAppend
        <3> QED BY <2>2, <3>1 DEF SamePlace, SameOf
    <2>4. ~In(q.input, Sent(k)) => Once(r.input, Sent(k))
        BY <2>1, <2>2, OnceAppend
    <2> QED BY <2>2, <2>3, <2>4 DEF PlacesOnly, Nowhere, Somewhere
<1>2. CASE r = Dropped(k, Failed(q))
    BY <1>2, OnceDrop
<1> QED BY <1>1, <1>2 DEF SendKeyThrough

LEMMA OnceResend ==
    ASSUME TypeOK, NEW q, IsQueues(q), NEW k \in Events, NEW target, NEW r \in ResendKeyNow(k, target, q)
    PROVE  PlacesOnly(r, q, k)
<1>1. CASE r \in SendKeyThrough(k, q)
    BY <1>1, OnceSend
<1>2. CASE r = Dropped(k, q) \/ r = Dropped(k, Failed(q))
    BY <1>2, OnceDrop
<1>3. CASE Route(target) = "post" /\ r = [q EXCEPT !.posted[target] = Append(@, Key(k))]
    <2>1. target \in alive /\ alive \subseteq Windows
        BY <1>3 DEF Route, TypeOK
    <2>2. q.posted[target] \in Seq(Items) /\ Key(k) \in Items /\ \A j : j # k => Key(j) # Key(k)
        BY <2>1, ItemType DEF IsQueues, Key
    <2>3. r.input = q.input /\ r.dropped = q.dropped
          /\ r.posted = [q.posted EXCEPT ![target] = Append(@, Key(k))]
        BY <1>3 DEF IsQueues
    <2>4. r.posted[target] = Append(q.posted[target], Key(k))
          /\ \A v \in Windows \ {target} : r.posted[v] = q.posted[v]
        BY <2>1, <2>3 DEF IsQueues
    <2>5. \A j \in Events \ {k} : SamePlace(r, q, j)
        <3> SUFFICES ASSUME NEW j \in Events \ {k} PROVE SamePlace(r, q, j)
            OBVIOUS
        <3>1. SameIn(r.posted[target], q.posted[target], Key(j))
            BY <2>2, <2>4, OnceAppend
        <3>2. SameOf(r.posted, q.posted, Key(j))
            BY <2>1, <2>4, <3>1, OneReplaced
        <3> QED BY <2>3, <3>2 DEF SamePlace, SameIn
    <2>6. ASSUME Nowhere(q, k) PROVE Somewhere(r, k)
        <3>1. Once(r.posted[target], Key(k))
            BY <2>1, <2>2, <2>4, <2>6, OnceAppend DEF Nowhere, NoneOf
        <3>2. OneOf(r.posted, Key(k))
            BY <2>1, <2>4, <2>6, <3>1, OneReplaced DEF Nowhere
        <3> QED BY <2>3, <2>6, <3>2 DEF Nowhere, Somewhere
    <2> QED BY <2>5, <2>6 DEF PlacesOnly
<1>4. CASE r \in SendKeyThrough(k, Failed(q))
    <2>1. IsQueues(Failed(q)) /\ \A j : SamePlace(Failed(q), q, j)
        BY FailType, OnceDrop
    <2>2. PlacesOnly(r, Failed(q), k)
        BY <1>4, <2>1, OnceSend
    <2>3. \A j \in Events \ {k} : SamePlace(r, q, j)
        BY <2>1, <2>2 DEF PlacesOnly, SamePlace, SameIn, SameOf
    <2> QED BY <2>1, <2>2, <2>3, SamePlaceKeeps DEF PlacesOnly
<1> QED BY <1>1, <1>2, <1>3, <1>4 DEF ResendKeyNow, Route

\* A key in the slot is nowhere else; any other eaten key is in the queues or in a text.
Waits(k) == timer /\ slot.key = k
Now      == Queues(input, posted)
Placed(k) ==
    \/ Waits(k) /\ Nowhere(Now, k) /\ NoneOf(docs, Key(k))
    \/ ~Waits(k) /\ Somewhere(Now, k) /\ NoneOf(docs, Key(k))
    \/ ~Waits(k) /\ Nowhere(Now, k) /\ OneOf(docs, Key(k))
OnceInv == (\A k \in DOMAIN resent : Placed(k)) /\ dropped \subseteq DOMAIN resent

\* Nothing of key k changes in a step.
Kept(k) == /\ Waits(k)' <=> Waits(k)
           /\ SamePlace(Now', Now, k)
           /\ SameOf(docs', docs, Key(k))

\* The places after a step.
LEMMA PlacedAfter ==
    ASSUME NEW k
    PROVE  Placed(k)' <=> \/ Waits(k)' /\ Nowhere(Now', k) /\ NoneOf(docs', Key(k))
                          \/ ~Waits(k)' /\ Somewhere(Now', k) /\ NoneOf(docs', Key(k))
                          \/ ~Waits(k)' /\ Nowhere(Now', k) /\ OneOf(docs', Key(k))
<1>1. /\ (Nowhere(Now, k))' <=> Nowhere(Now', k)
      /\ (Somewhere(Now, k))' <=> Somewhere(Now', k)
      /\ (NoneOf(docs, Key(k)))' <=> NoneOf(docs', Key(k))
      /\ (OneOf(docs, Key(k)))' <=> OneOf(docs', Key(k))
    BY DEF Nowhere, Somewhere, NoneOf, OneOf, Key, Sent
<1> QED BY <1>1, Zenon DEF Placed

LEMMA KeptPlaced == ASSUME NEW k, Placed(k), Kept(k) PROVE Placed(k)'
<1>1. /\ Waits(k)' <=> Waits(k)
      /\ Nowhere(Now', k) <=> Nowhere(Now, k)
      /\ Somewhere(Now', k) <=> Somewhere(Now, k)
      /\ NoneOf(docs', Key(k)) <=> NoneOf(docs, Key(k))
      /\ OneOf(docs', Key(k)) <=> OneOf(docs, Key(k))
    BY SamePlaceKeeps DEF Kept, SameOf
<1> QED BY <1>1, PlacedAfter, Zenon DEF Placed

LEMMA QueuesNow == /\ Now.input = input /\ Now.posted = posted /\ Now.dropped = dropped /\ Now.failed = failed
                   /\ Now'.input = input' /\ Now'.posted = posted' /\ Now'.dropped = dropped' /\ Now'.failed = failed'
BY DEF Now, Queues

LEMMA SameSelf == (\A s, x : SameIn(s, s, x)) /\ \A qs, x : SameOf(qs, qs, x)
BY DEF SameIn, SameOf

\* One item joins a family of queues; the first item of a queue leaves it.
LEMMA OncePut ==
    ASSUME NEW qs \in [Windows -> Seq(Items)], NEW w \in Windows, NEW item \in Items
    PROVE  /\ \A x : x # item => SameOf(Put(qs, w, item), qs, x)
           /\ NoneOf(qs, item) => OneOf(Put(qs, w, item), item)
<1> DEFINE ps == Put(qs, w, item)
<1>1. qs[w] \in Seq(Items) /\ ps[w] = Append(qs[w], item) /\ \A v \in Windows \ {w} : ps[v] = qs[v]
    BY DEF Put
<1> HIDE DEF ps
<1>2. ASSUME NEW x, x # item PROVE SameOf(ps, qs, x)
    <2>1. SameIn(ps[w], qs[w], x)
        BY <1>1, <1>2, OnceAppend
    <2> QED BY <1>1, <2>1, OneReplaced
<1>3. ASSUME NoneOf(qs, item) PROVE OneOf(ps, item)
    <2>1. ~In(qs[w], item)
        BY <1>3 DEF NoneOf
    <2>2. Once(ps[w], item)
        BY <1>1, <2>1, OnceAppend
    <2> QED BY <1>1, <1>3, <2>2, OneReplaced
<1> QED BY <1>2, <1>3 DEF ps

LEMMA CommitPlaces ==
    ASSUME TypeOK, NEW w \in Windows, NEW m \in Events \union {NoKey}, NEW n
    PROVE  SameOf(DocsAfter(w, m), docs, Key(n)) /\ SameOf(PostedAfter(w, m), posted, Key(n))
<1>1. docs \in [Windows -> Seq(Items)] /\ posted \in [Windows -> Seq(Items)] /\ Key(n) # Text(m)
    BY DEF TypeOK, Key, Text
<1>2. ASSUME m # NoKey, NEW qs \in [Windows -> Seq(Items)] PROVE SameOf(Put(qs, w, Text(m)), qs, Key(n))
    <2>1. Text(m) \in Items
        BY <1>2, ItemType
    <2> QED BY <1>1, <2>1, OncePut
<1> QED BY <1>1, <1>2, SameSelf DEF DocsAfter, PostedAfter

\* Taking an event of the user's leaves the sent keys where they are.
LEMMA OnceTaken ==
    ASSUME TypeOK, input # <<>>, NEW k, Head(input) # Sent(k)
    PROVE  SameIn(Tail(input), input, Sent(k))
BY OnceTail DEF TypeOK

LEMMA InitOnce == Init => OnceInv
BY DEF Init, OnceInv

LEMMA PressOnce == TypeInv /\ OnceInv /\ Press => OnceInv'
<1> SUFFICES ASSUME TypeInv, OnceInv, Press PROVE OnceInv'
    OBVIOUS
<1>1. typed \in Nat /\ typed + 1 \in Events /\ typed' = typed + 1 /\ input \in Seq(Inputs)
    BY ResendAssumption DEF Press, TypeInv, TypeOK, Events
<1>2. UNCHANGED <<focus, alive, active, composing, slot, timer, posted, docs, resent, dropped, failed>>
    BY DEF Press
<1>3. PICK e \in Inputs : input' = Append(input, e) /\ e.kind # "sent"
    <2>1. CASE \E kind \in {"jamo", "key"} : input' = Append(input, [kind |-> kind, n |-> typed + 1])
        BY <1>1, <2>1 DEF Inputs
    <2>2. CASE \E w \in alive : input' = Append(input, [kind |-> "click", to |-> w])
        <3>1. \A w \in alive : [kind |-> "click", to |-> w] \in Inputs
            BY DEF Inputs, TypeInv, TypeOK
        <3> QED BY <2>2, <3>1
    <2> QED BY <2>1, <2>2 DEF Press
<1>4. ASSUME NEW k \in DOMAIN resent PROVE Placed(k)'
    <2>1. Sent(k) # e
        BY <1>3 DEF Sent
    <2>2. SameIn(input', input, Sent(k))
        BY <1>1, <1>3, <2>1, OnceAppend
    <2>3. Kept(k)
        BY <1>2, <2>2, SameSelf, QueuesNow DEF Kept, SamePlace, Waits
    <2> QED BY <2>3, KeptPlaced DEF OnceInv
<1> QED BY <1>2, <1>4 DEF OnceInv

\* Steps that commit a syllable, or write a key that was not eaten, and take at most an
\* event of the user's.
LEMMA OnceMoves ==
    ASSUME TypeInv, OnceInv, UNCHANGED <<slot, timer, resent, dropped>>,
           \A k \in DOMAIN resent : SameIn(input', input, Sent(k)),
           \A k \in DOMAIN resent : SameOf(posted', posted, Key(k)) /\ SameOf(docs', docs, Key(k))
    PROVE  OnceInv'
<1>1. ASSUME NEW k \in DOMAIN resent PROVE Placed(k)'
    <2>1. Kept(k)
        BY QueuesNow DEF Kept, SamePlace, Waits
    <2> QED BY <2>1, KeptPlaced DEF OnceInv
<1> QED BY <1>1 DEF OnceInv

LEMMA JamoOnce == TypeInv /\ PlaceInv /\ OnceInv /\ TakeJamo => OnceInv'
<1> SUFFICES ASSUME TypeInv, PlaceInv, OnceInv, TakeJamo PROVE OnceInv'
    OBVIOUS
<1> DEFINE s == ServiceOf[focus]
           n == Head(input).n
<1>1. TypeOK /\ focus \in Windows /\ n \in Events /\ User(Head(input))
    BY HeadType DEF TakeJamo, TypeInv, TypeOK, User
<1>2. input # <<>> /\ input' = Tail(input) /\ UNCHANGED <<slot, timer, resent, dropped>>
    BY DEF TakeJamo
<1>3. \A k : SameIn(input', input, Sent(k))
    <2>1. \A k : Head(input) # Sent(k)
        BY <1>1 DEF User, Sent
    <2> QED BY <1>1, <1>2, <2>1, OnceTaken
<1>4. \A k \in DOMAIN resent : SameOf(posted', posted, Key(k)) /\ SameOf(docs', docs, Key(k))
    <2>1. CASE Serviced /\ docs' = DocsAfter(focus, composing[s]) /\ posted' = PostedAfter(focus, composing[s])
        BY <1>1, <2>1, ServicedType, CommitPlaces
    <2>2. CASE UNCHANGED <<docs, posted>>
        BY <2>2, SameSelf
    <2>3. CASE docs' = Put(docs, focus, Key(n)) /\ UNCHANGED posted
        <3>1. n \notin DOMAIN resent
            BY <1>1, <1>2, TakenInput DEF New
        <3>2. \A k \in DOMAIN resent : Key(k) # Key(n)
            BY <3>1 DEF Key
        <3>3. docs \in [Windows -> Seq(Items)] /\ Key(n) \in Items
            BY <1>1, ItemType DEF TypeOK
        <3> QED BY <1>1, <2>3, <3>2, <3>3, OncePut, SameSelf
    <2> QED BY <2>1, <2>2, <2>3 DEF TakeJamo
<1> QED BY <1>2, <1>3, <1>4, OnceMoves

LEMMA MoveOnce == TypeInv /\ OnceInv /\ (TakeClick \/ FocusMoves) => OnceInv'
<1> SUFFICES ASSUME TypeInv, OnceInv, TakeClick \/ FocusMoves PROVE OnceInv'
    OBVIOUS
<1>1. TypeOK /\ focus \in Windows
    BY DEF TypeInv, TypeOK
<1>2. PICK w \in alive : FocusTo(w)
    BY <1>1 DEF TakeClick, FocusMoves, TypeOK
<1>3. UNCHANGED <<slot, timer, resent, dropped>>
    BY <1>2 DEF FocusTo
<1>4. \A k : SameIn(input', input, Sent(k))
    <2>1. CASE TakeClick
        <3>1. \A k : Head(input) # Sent(k)
            BY <2>1 DEF TakeClick, Sent
        <3> QED BY <1>1, <2>1, <3>1, OnceTaken DEF TakeClick
    <2>2. CASE FocusMoves
        BY <2>2, SameSelf DEF FocusMoves
    <2> QED BY <2>1, <2>2
<1>5. \A k : SameOf(posted', posted, Key(k)) /\ SameOf(docs', docs, Key(k))
    <2> DEFINE s == ServiceOf[focus]
    <2>1. CASE Serviced /\ docs' = DocsAfter(focus, composing[s]) /\ posted' = PostedAfter(focus, composing[s])
        BY <1>1, <2>1, ServicedType, CommitPlaces
    <2>2. CASE UNCHANGED <<docs, posted>>
        BY <2>2, SameSelf
    <2> QED BY <1>2, <2>1, <2>2 DEF FocusTo
<1> QED BY <1>3, <1>4, <1>5, OnceMoves

\* What stands once, or in one queue, is there.
LEMMA OnceIsIn == \A s, x : Once(s, x) => In(s, x)
BY DEF Once, In

LEMMA TakeKeyOnce == TypeInv /\ PlaceInv /\ OnceInv /\ TakeKey => OnceInv'
<1> SUFFICES ASSUME TypeInv, PlaceInv, OnceInv, TakeKey PROVE OnceInv'
    OBVIOUS
<1> DEFINE h == Head(input)
           n == Head(input).n
<1>1. TypeOK /\ focus \in Windows /\ n \in Events /\ input \in Seq(Inputs) /\ h \in Inputs
    BY HeadType DEF TakeKey, TypeInv, TypeOK
<1>2. /\ input # <<>> /\ input' = Tail(input) /\ docs' = Put(docs, focus, Key(n))
      /\ UNCHANGED <<slot, timer, posted, resent, dropped>>
    BY DEF TakeKey
<1>3. /\ docs \in [Windows -> Seq(Items)] /\ Key(n) \in Items
      /\ \A k : k # n => Key(k) # Key(n) /\ h # Sent(k)
    BY <1>1, ItemType DEF TypeOK, Key, Sent
<1>4. ASSUME NEW k \in DOMAIN resent, k # n PROVE Placed(k)'
    <2>1. SameIn(input', input, Sent(k))
        BY <1>1, <1>2, <1>3, <1>4, OnceTaken
    <2>2. SameOf(docs', docs, Key(k))
        BY <1>1, <1>2, <1>3, <1>4, OncePut
    <2>3. Kept(k)
        BY <1>2, <2>1, <2>2, SameSelf, QueuesNow DEF Kept, SamePlace, Waits
    <2> QED BY <2>3, KeptPlaced DEF OnceInv
<1>5. ASSUME NEW k \in DOMAIN resent, k = n PROVE Placed(k)'
    <2>1. h.kind = "sent"
        BY <1>1, <1>2, <1>5, TakenInput DEF User, New, TakeKey
    <2>2. h = Sent(k)
        BY <1>1, <1>5, <2>1 DEF Inputs, Sent
    <2>3. In(input, Sent(k))
        BY <1>1, <1>2, <2>2, InTail
    <2>4. ~Waits(k) /\ Somewhere(Now, k) /\ NoneOf(docs, Key(k))
        BY <1>5, <2>3, QueuesNow DEF OnceInv, Placed, Nowhere
    <2>5. Once(input, Sent(k)) /\ NoneOf(posted, Key(k)) /\ k \notin dropped
        BY <2>3, <2>4, QueuesNow DEF Somewhere
    <2>6. ~In(input', Sent(k))
        BY <1>1, <1>2, <2>2, <2>5, OnceTail
    <2>7. OneOf(docs', Key(k))
        BY <1>1, <1>2, <1>3, <1>5, <2>4, OncePut
    <2>8. ~Waits(k)'
        BY <1>2, <2>4 DEF Waits
    <2>9. Nowhere(Now', k)
        BY <1>2, <2>5, <2>6, QueuesNow DEF Nowhere
    <2> QED BY <2>7, <2>8, <2>9, PlacedAfter
<1>6. dropped' \subseteq DOMAIN resent'
    BY <1>2 DEF OnceInv
<1> QED BY <1>2, <1>4, <1>5, <1>6 DEF OnceInv

LEMMA TakePostedOnce == TypeInv /\ OnceInv /\ (\E w \in Windows : TakePosted(w)) => OnceInv'
<1> SUFFICES ASSUME TypeInv, OnceInv, NEW w \in Windows, TakePosted(w) PROVE OnceInv'
    OBVIOUS
<1> DEFINE item == Head(posted[w])
<1>1. /\ TypeOK /\ UNCHANGED <<input, slot, timer, resent, dropped>>
      /\ posted[w] # <<>> /\ docs' = Put(docs, w, item) /\ posted' = [posted EXCEPT ![w] = Tail(@)]
    BY DEF TypeInv, TakePosted
<1>2. /\ posted \in [Windows -> Seq(Items)] /\ docs \in [Windows -> Seq(Items)]
      /\ posted[w] \in Seq(Items) /\ item \in Items /\ In(posted[w], item)
    <2>1. posted \in [Windows -> Seq(Items)] /\ docs \in [Windows -> Seq(Items)] /\ posted[w] \in Seq(Items)
        BY <1>1 DEF TypeOK
    <2> QED BY <1>1, <2>1, InTail
<1>3. posted'[w] = Tail(posted[w]) /\ \A v \in Windows \ {w} : posted'[v] = posted[v]
    BY <1>1, <1>2
<1>4. ASSUME NEW k \in DOMAIN resent, Key(k) # item PROVE Placed(k)'
    <2>1. SameIn(posted'[w], posted[w], Key(k))
        BY <1>1, <1>2, <1>3, <1>4, OnceTail
    <2>2. SameOf(posted', posted, Key(k))
        BY <1>3, <2>1, OneReplaced
    <2>3. SameOf(docs', docs, Key(k))
        BY <1>1, <1>2, <1>4, OncePut
    <2>4. Kept(k)
        BY <1>1, <2>2, <2>3, SameSelf, QueuesNow DEF Kept, SamePlace, Waits
    <2> QED BY <2>4, KeptPlaced DEF OnceInv
<1>5. ASSUME NEW k \in DOMAIN resent, Key(k) = item PROVE Placed(k)'
    <2>1. ~NoneOf(posted, Key(k))
        BY <1>2, <1>5 DEF NoneOf
    <2>2. ~Waits(k) /\ Somewhere(Now, k) /\ NoneOf(docs, Key(k))
        BY <2>1, QueuesNow DEF OnceInv, Placed, Nowhere
    <2>3. ~In(input, Sent(k)) /\ OneOf(posted, Key(k)) /\ k \notin dropped
        BY <2>1, <2>2, QueuesNow DEF Somewhere
    <2>4. Once(posted[w], Key(k))
        BY <1>2, <1>3, <1>5, <2>3, OneReplaced
    <2>5. ~In(posted'[w], Key(k))
        BY <1>1, <1>2, <1>3, <1>5, <2>4, OnceTail
    <2>6. NoneOf(posted', Key(k))
        BY <1>2, <1>3, <1>5, <2>3, <2>5, OneReplaced
    <2>7. OneOf(docs', Key(k))
        BY <1>1, <1>2, <1>5, <2>2, OncePut
    <2>8. ~Waits(k)' /\ Nowhere(Now', k)
        BY <1>1, <2>2, <2>3, <2>6, QueuesNow DEF Waits, Nowhere
    <2> QED BY <2>7, <2>8, PlacedAfter
<1>6. dropped' \subseteq DOMAIN resent'
    BY <1>1 DEF OnceInv
<1> QED BY <1>1, <1>4, <1>5, <1>6 DEF OnceInv

LEMMA DestroyOnce == TypeInv /\ PlaceInv /\ OnceInv /\ (\E w \in Windows : Destroy(w)) => OnceInv'
<1> SUFFICES ASSUME TypeInv, PlaceInv, OnceInv, NEW w \in Windows, Destroy(w) PROVE OnceInv'
    OBVIOUS
<1> DEFINE keys == {posted[w][i].n : i \in {j \in DOMAIN posted[w] : posted[w][j].kind = "key"}}
<1>1. /\ UNCHANGED <<input, slot, timer, docs, resent>> /\ dropped' = dropped \union keys
      /\ posted' = [posted EXCEPT ![w] = <<>>]
    BY DEF Destroy
<1>2. posted \in [Windows -> Seq(Items)] /\ \A i \in DOMAIN posted[w] : posted[w][i] \in Items
    BY DEF TypeInv, TypeOK
<1>3. posted'[w] = <<>> /\ \A v \in Windows \ {w} : posted'[v] = posted[v]
    BY <1>1, <1>2
<1>4. \A k : k \in keys <=> In(posted[w], Key(k))
    <2>1. \A i \in DOMAIN posted[w] : posted[w][i].kind = "key" => posted[w][i] = Key(posted[w][i].n)
        BY <1>2 DEF Items, Key
    <2>2. \A k : Key(k).kind = "key" /\ Key(k).n = k
        BY DEF Key
    <2> QED BY <2>1, <2>2 DEF In
<1> HIDE DEF keys
<1>5. \A x : ~In(<<>>, x) /\ ~Once(<<>>, x)
    BY DEF In, Once
<1>6. ASSUME NEW k \in DOMAIN resent, In(posted[w], Key(k)) PROVE Placed(k)'
    <2>1. ~NoneOf(posted, Key(k))
        BY <1>6 DEF NoneOf
    <2>2. ~Waits(k) /\ Somewhere(Now, k) /\ NoneOf(docs, Key(k))
        BY <2>1, QueuesNow DEF OnceInv, Placed, Nowhere
    <2>3. ~In(input, Sent(k)) /\ OneOf(posted, Key(k))
        BY <2>1, <2>2, QueuesNow DEF Somewhere
    <2>4. NoneOf(posted', Key(k))
        BY <1>3, <1>5, <1>6, <2>3, OneReplaced
    <2>5. ~Waits(k)' /\ Somewhere(Now', k)
        BY <1>1, <1>4, <1>6, <2>2, <2>3, <2>4, QueuesNow DEF Waits, Somewhere
    <2> QED BY <1>1, <2>2, <2>5, PlacedAfter
<1>7. ASSUME NEW k \in DOMAIN resent, ~In(posted[w], Key(k)) PROVE Placed(k)'
    <2>1. SameIn(posted'[w], posted[w], Key(k))
        BY <1>3, <1>5, <1>7, OnceIsIn DEF SameIn
    <2>2. SameOf(posted', posted, Key(k))
        BY <1>3, <2>1, OneReplaced
    <2>3. k \in dropped' <=> k \in dropped
        BY <1>1, <1>4, <1>7
    <2>4. Kept(k)
        BY <1>1, <2>2, <2>3, SameSelf, QueuesNow DEF Kept, SamePlace, Waits
    <2> QED BY <2>4, KeptPlaced DEF OnceInv
<1>8. dropped' \subseteq DOMAIN resent'
    <2>1. \A k \in keys : k \in Events
        <3>1. \A k : Key(k).n = k
            BY DEF Key
        <3> QED BY <1>2, <1>4, <3>1 DEF In, Items
    <2>2. \A k \in keys : k \in DOMAIN resent
        BY <1>4, <2>1 DEF PlaceInv, Underway, Queues
    <2> QED BY <1>1, <2>2 DEF OnceInv
<1> QED BY <1>1, <1>6, <1>7, <1>8 DEF OnceInv

\* The waiting key is sent, by the timer or by Deactivate.
LEMMA SlotSentOnce ==
    ASSUME TypeInv, PlaceInv, OnceInv, timer, timer' = FALSE, UNCHANGED <<docs, resent>>,
           \E r \in ResendKeyNow(slot.key, slot.target, Now) : Become(r)
    PROVE  OnceInv'
<1> DEFINE k == slot.key
<1>1. TypeOK /\ IsQueues(Now) /\ k \in Events /\ k \in DOMAIN resent /\ DOMAIN resent \subseteq Events
    BY QueuesType DEF TypeInv, TypeOK, PlaceInv, Now
<1>2. PICK r \in ResendKeyNow(k, slot.target, Now) : Become(r)
    OBVIOUS
<1>3. PlacesOnly(r, Now, k) /\ IsQueues(r)
    BY <1>1, <1>2, OnceResend, ResendType
<1>4. Now'.input = r.input /\ Now'.posted = r.posted /\ Now'.dropped = r.dropped
    BY <1>2, QueuesNow DEF Become
<1>5. ASSUME NEW j \in DOMAIN resent PROVE Placed(j)'
    <2>1. ~Waits(j)'
        BY DEF Waits
    <2>2. CASE j = k
        <3>1. Nowhere(Now, j) /\ NoneOf(docs, Key(j))
            BY <2>2 DEF OnceInv, Placed, Waits
        <3>2. Somewhere(Now', j)
            BY <1>3, <1>4, <2>2, <3>1 DEF PlacesOnly, Somewhere
        <3> QED BY <2>1, <3>1, <3>2, PlacedAfter
    <2>3. CASE j # k
        <3>1. ~Waits(j)
            BY <2>3 DEF Waits
        <3>2. SamePlace(Now', Now, j)
            BY <1>1, <1>3, <1>4, <2>3 DEF PlacesOnly, SamePlace
        <3>3. Kept(j)
            BY <2>1, <3>1, <3>2, SameSelf DEF Kept
        <3> QED BY <3>3, KeptPlaced DEF OnceInv
    <2> QED BY <2>2, <2>3
<1>6. dropped' \subseteq DOMAIN resent
    <2>1. \A j \in Events \ {k} : j \in r.dropped <=> j \in dropped
        BY <1>3, QueuesNow DEF PlacesOnly, SamePlace
    <2>2. r.dropped \subseteq Events
        BY <1>3 DEF IsQueues
    <2> QED BY <1>1, <1>4, <2>1, <2>2, QueuesNow DEF OnceInv
<1> QED BY <1>5, <1>6 DEF OnceInv

LEMMA InstanceOnce == TypeInv /\ PlaceInv /\ OnceInv /\ (\E s \in Services : Activate(s) \/ Deactivate(s)) => OnceInv'
<1> SUFFICES ASSUME TypeInv, PlaceInv, OnceInv, NEW s \in Services, Activate(s) \/ Deactivate(s) PROVE OnceInv'
    OBVIOUS
<1>1. CASE Deactivate(s) /\ timer /\ IsOwn(s)
    BY <1>1, SlotSentOnce DEF Deactivate, Now
<1>2. CASE UNCHANGED <<timer, slot, input, posted, docs, resent, dropped>>
    <2>1. \A k : SameIn(input', input, Sent(k)) /\ SameOf(posted', posted, Key(k)) /\ SameOf(docs', docs, Key(k))
        BY <1>2, SameSelf
    <2> QED BY <1>2, <2>1, OnceMoves
<1> QED BY <1>1, <1>2 DEF Activate, Deactivate

\* The new key n waits, or is sent at once after a failure.
LEMMA ScheduleOnce ==
    ASSUME TypeInv, NEW n \in Events, NEW s, NEW q, IsQueues(q), Nowhere(q, n), Schedule(n, s, q)
    PROVE  /\ \A j \in Events \ {n} : SamePlace(Now', q, j) /\ ~Waits(j)'
           /\ \/ Waits(n)' /\ Nowhere(Now', n)
              \/ ~Waits(n)' /\ Somewhere(Now', n)
<1>1. TypeOK /\ IsQueues(Failed(q)) /\ (\A j : SamePlace(Failed(q), q, j) /\ SamePlace(q, q, j))
    BY FailType, OnceDrop, SameSelf DEF TypeInv, SamePlace
<1>2. PICK target \in {focus} \union (IF MayFail THEN {NoWindow} ELSE {}) :
        /\ slot' = [key |-> n, target |-> target, owner |-> s]
        /\ \/ timer' = TRUE /\ Become(IF target = NoWindow THEN Failed(q) ELSE q)
           \/ MayFail /\ timer' = FALSE /\ \E r \in Untimed(n, target, Failed(q)) : Become(r)
    BY Zenon DEF Schedule
<1>3. slot'.key = n
    BY <1>2
<1>4. \A r : Become(r) => \A j : SamePlace(Now', r, j)
    BY QueuesNow, SameSelf DEF Become, SamePlace
<1>5. CASE timer' = TRUE /\ \E r \in {q, Failed(q)} : Become(r)
    <2>1. PICK r \in {q, Failed(q)} : Become(r)
        BY <1>5
    <2>2. \A j : SamePlace(Now', q, j)
        BY <1>1, <1>4, <2>1 DEF SamePlace, SameIn, SameOf
    <2> QED BY <1>3, <1>5, <2>2, SamePlaceKeeps DEF Waits
<1>6. CASE timer' = FALSE /\ \E r \in Untimed(n, target, Failed(q)) : Become(r)
    <2>1. PICK r \in ResendKeyNow(n, target, Failed(q)) : Become(r)
        BY <1>6 DEF Untimed
    <2>2. PlacesOnly(r, Failed(q), n)
        BY <1>1, <2>1, OnceResend
    <2>3. \A j \in Events \ {n} : SamePlace(Now', q, j)
        BY <1>1, <1>4, <2>1, <2>2 DEF PlacesOnly, SamePlace, SameIn, SameOf
    <2>4. Somewhere(Now', n)
        BY <1>1, <1>4, <2>1, <2>2, SamePlaceKeeps DEF PlacesOnly
    <2> QED BY <1>6, <2>3, <2>4 DEF Waits
<1> QED BY <1>2, <1>5, <1>6

LEMMA EatOnce == TypeInv /\ PlaceInv /\ OnceInv /\ EatKey => OnceInv'
<1> SUFFICES ASSUME TypeInv, PlaceInv, OnceInv, EatKey PROVE OnceInv'
    OBVIOUS
<1> DEFINE s == ServiceOf[focus]
           m == composing[s]
           p == PostedAfter(focus, m)
           q == Queues(Tail(input), p)
<1>0. PICK n \in Events : n = Head(input).n
    BY HeadType DEF EatKey, TypeInv
<1>1. /\ TypeOK /\ focus \in Windows /\ input # <<>> /\ User(Head(input)) /\ Head(input) \in Inputs
      /\ s \in Services /\ m \in Events \union {NoKey} /\ Tail(input) \in Seq(Inputs)
      /\ DOMAIN resent \subseteq Events
    BY HeadType, ServicedType DEF EatKey, TypeInv, TypeOK, User
<1>2. /\ DOMAIN resent' = DOMAIN resent \union {n} /\ docs' = DocsAfter(focus, m)
      /\ \E r \in Emitted(q) : Schedule(n, s, r)
    BY <1>0 DEF EatKey
<1>3. New(n)
    <2>1. input \in Seq(Inputs) /\ In(input, Head(input))
        BY <1>1, InTail DEF TypeOK
    <2> QED BY <1>0, <1>1, <2>1 DEF PlaceInv
<1>4. IsQueues(q) /\ q.input = Tail(input) /\ q.posted = p /\ q.dropped = dropped
    BY <1>1, CommitType, QueuesType DEF Queues
<1>5. \A k : SamePlace(q, Now, k) /\ SameOf(docs', docs, Key(k))
    <2>1. \A k : Head(input) # Sent(k)
        BY <1>1 DEF User, Sent
    <2> QED BY <1>1, <1>2, <1>4, <2>1, OnceTaken, CommitPlaces, QueuesNow DEF SamePlace
<1>6. Nowhere(q, n) /\ NoneOf(docs', Key(n)) /\ ~Waits(n)
    <2>1. Nowhere(Now, n)
        BY <1>3, QueuesNow DEF New, PlaceInv, OnceInv, Underway, Queues, Nowhere, NoneOf
    <2>2. NoneOf(docs, Key(n))
        BY <1>3 DEF New, NoneOf
    <2> QED BY <1>3, <1>5, <2>1, <2>2, SamePlaceKeeps DEF SameOf, Waits, PlaceInv, New
<1> HIDE DEF q
<1>7. PICK r \in Emitted(q) : Schedule(n, s, r)
    BY <1>2
<1>8. /\ IsQueues(r) /\ Nowhere(r, n)
      /\ \A k \in DOMAIN resent : \/ Somewhere(r, k) /\ NoneOf(docs', Key(k))
                                  \/ Nowhere(r, k) /\ OneOf(docs', Key(k))
      /\ r.dropped \subseteq DOMAIN resent
    <2>1. IsQueues(r)
        BY <1>4, <1>7, EmittedType
    <2>2. ASSUME NEW k \in DOMAIN resent
          PROVE  \/ Waits(k) /\ Nowhere(q, k) /\ NoneOf(docs', Key(k))
                 \/ ~Waits(k) /\ Somewhere(q, k) /\ NoneOf(docs', Key(k))
                 \/ ~Waits(k) /\ Nowhere(q, k) /\ OneOf(docs', Key(k))
        <3>1. /\ Nowhere(q, k) <=> Nowhere(Now, k)
              /\ Somewhere(q, k) <=> Somewhere(Now, k)
              /\ NoneOf(docs', Key(k)) <=> NoneOf(docs, Key(k))
              /\ OneOf(docs', Key(k)) <=> OneOf(docs, Key(k))
            BY <1>5, SamePlaceKeeps DEF SameOf
        <3>2. Placed(k)
            BY DEF OnceInv
        <3> QED BY <3>1, <3>2, Zenon DEF Placed
    <2>3. CASE ~timer
        <3>1. r = q
            BY <1>7, <2>3 DEF Emitted
        <3> QED BY <1>4, <1>6, <2>1, <2>2, <2>3, <3>1 DEF Waits, OnceInv
    <2>4. CASE timer
        <3>1. /\ slot.key \in Events /\ slot.key \in DOMAIN resent /\ slot.key # n
              /\ r \in ResendKeyNow(slot.key, slot.target, q)
            BY <1>3, <1>7, <2>4 DEF TypeInv, PlaceInv, New, Emitted
        <3>2. PlacesOnly(r, q, slot.key)
            BY <1>1, <1>4, <3>1, OnceResend
        <3>3. \A k \in Events : k # slot.key =>
                (Nowhere(r, k) <=> Nowhere(q, k)) /\ (Somewhere(r, k) <=> Somewhere(q, k))
            BY <3>2, SamePlaceKeeps DEF PlacesOnly
        <3>4. Somewhere(r, slot.key) /\ NoneOf(docs', Key(slot.key))
            BY <2>2, <2>4, <3>1, <3>2 DEF PlacesOnly, Waits
        <3>5. r.dropped \subseteq DOMAIN resent
            <4>1. \A j \in Events \ {slot.key} : j \in r.dropped <=> j \in q.dropped
                BY <3>2 DEF PlacesOnly, SamePlace
            <4> QED BY <1>4, <2>1, <3>1, <4>1 DEF IsQueues, OnceInv
        <3>6. ASSUME NEW k \in DOMAIN resent, k # slot.key
              PROVE  \/ Somewhere(r, k) /\ NoneOf(docs', Key(k))
                     \/ Nowhere(r, k) /\ OneOf(docs', Key(k))
            BY <1>1, <2>2, <3>3, <3>6 DEF Waits
        <3> QED BY <1>6, <2>1, <3>1, <3>3, <3>4, <3>5, <3>6
    <2> QED BY <2>3, <2>4
<1>9. /\ \A j \in Events \ {n} : SamePlace(Now', r, j) /\ ~Waits(j)'
      /\ \/ Waits(n)' /\ Nowhere(Now', n)
         \/ ~Waits(n)' /\ Somewhere(Now', n)
    BY <1>7, <1>8, ScheduleOnce
<1>10. ASSUME NEW k \in DOMAIN resent PROVE Placed(k)'
    <2>1. k # n /\ k \in Events
        BY <1>1, <1>3 DEF New
    <2>2. (Nowhere(Now', k) <=> Nowhere(r, k)) /\ (Somewhere(Now', k) <=> Somewhere(r, k)) /\ ~Waits(k)'
        BY <1>9, <2>1, SamePlaceKeeps
    <2> QED BY <1>8, <2>2, PlacedAfter
<1>11. Placed(n)'
    BY <1>6, <1>9, PlacedAfter
<1>12. dropped' \subseteq DOMAIN resent'
    <2>1. \A j \in Events \ {n} : j \in dropped' <=> j \in r.dropped
        BY <1>9, QueuesNow DEF SamePlace
    <2>2. dropped' \subseteq Events
        <3>1. TypeInv'
            BY EatTypes
        <3> QED BY <3>1 DEF TypeInv, TypeOK
    <2> QED BY <1>2, <1>8, <2>1, <2>2
<1> QED BY <1>2, <1>10, <1>11, <1>12 DEF OnceInv

LEMMA NextOnce == TypeInv /\ PlaceInv /\ OnceInv /\ [Next]_vars => OnceInv'
<1> SUFFICES ASSUME TypeInv, PlaceInv, OnceInv, [Next]_vars PROVE OnceInv'
    OBVIOUS
<1>1. CASE UNCHANGED vars
    <2>1. \A k : SameIn(input', input, Sent(k)) /\ SameOf(posted', posted, Key(k)) /\ SameOf(docs', docs, Key(k))
        BY <1>1, SameSelf DEF vars
    <2> QED BY <1>1, <2>1, OnceMoves DEF vars
<1>2. CASE ResendTimerProc
    BY <1>2, SlotSentOnce DEF ResendTimerProc, Now
<1>3. CASE Next /\ ~ResendTimerProc
    BY <1>3, PressOnce, JamoOnce, EatOnce, TakeKeyOnce, MoveOnce, TakePostedOnce, DestroyOnce, InstanceOnce, Zenon
       DEF Next, TakeInput
<1> QED BY <1>1, <1>2, <1>3

\* What has a place has one holder.
LEMMA HolderOfIn ==
    ASSUME NEW s, NEW x
    PROVE  /\ ~In(s, x) => At(s, x) = {}
           /\ Once(s, x) => \E i : At(s, x) = {i}
<1>1. ASSUME ~In(s, x) PROVE At(s, x) = {}
    BY <1>1 DEF In, At
<1>2. ASSUME Once(s, x) PROVE \E i : At(s, x) = {i}
    <2>1. PICK i \in DOMAIN s : s[i] = x /\ \A j \in DOMAIN s : s[j] = x => j = i
        BY <1>2 DEF Once
    <2>2. At(s, x) = {i}
        BY <2>1 DEF At
    <2> QED BY <2>2
<1> QED BY <1>1, <1>2

LEMMA HolderOfPlaces ==
    ASSUME NEW qs, NEW x
    PROVE  /\ NoneOf(qs, x) => Places(qs, x) = {}
           /\ OneOf(qs, x) => \E p : Places(qs, x) = {p}
<1>1. ASSUME NoneOf(qs, x) PROVE Places(qs, x) = {}
    <2>1. \A w \in Windows : At(qs[w], x) = {}
        BY <1>1, HolderOfIn DEF NoneOf
    <2> QED BY <2>1 DEF Places
<1>2. ASSUME OneOf(qs, x) PROVE \E p : Places(qs, x) = {p}
    <2>1. PICK w \in Windows : Once(qs[w], x) /\ \A v \in Windows \ {w} : ~In(qs[v], x)
        BY <1>2 DEF OneOf
    <2>2. PICK i : At(qs[w], x) = {i}
        BY <2>1, HolderOfIn
    <2>3. \A v \in Windows \ {w} : At(qs[v], x) = {}
        BY <2>1, HolderOfIn
    <2>4. \A v \in Windows : {v} \X At(qs[v], x) = IF v = w THEN {<<w, i>>} ELSE {}
        BY <2>2, <2>3
    <2>5. Places(qs, x) = {<<w, i>>}
        BY <2>4 DEF Places
    <2> QED BY <2>5
<1> QED BY <1>1, <1>2

\* An eaten key is in one place: it waits, is in one queue once, stands in one text once,
\* or was given up, whatever fails and whichever windows and instances come and go.
THEOREM KeysAreKeptOnce == Spec => []EachKeyOnce
<1>1. OnceInv => EachKeyOnce
    <2> SUFFICES ASSUME OnceInv, NEW k \in DOMAIN resent PROVE \E x \in Holders(k) : Holders(k) = {x}
        BY DEF EachKeyOnce
    <2> DEFINE i == At(input, Sent(k))
               p == Places(posted, Key(k))
               d == Places(docs, Key(k))
               one(S) == \E x : S = {x}
    <2>1. Placed(k)
        BY DEF OnceInv
    <2>2. /\ ~In(input, Sent(k)) => i = {}
          /\ Once(input, Sent(k)) => one(i)
          /\ NoneOf(posted, Key(k)) => p = {}
          /\ OneOf(posted, Key(k)) => one(p)
          /\ NoneOf(docs, Key(k)) => d = {}
          /\ OneOf(docs, Key(k)) => one(d)
        BY HolderOfIn, HolderOfPlaces
    <2>3. \/ Waits(k) /\ i = {} /\ p = {} /\ d = {} /\ k \notin dropped
          \/ ~Waits(k) /\ one(i) /\ p = {} /\ d = {} /\ k \notin dropped
          \/ ~Waits(k) /\ i = {} /\ one(p) /\ d = {} /\ k \notin dropped
          \/ ~Waits(k) /\ i = {} /\ p = {} /\ d = {} /\ k \in dropped
          \/ ~Waits(k) /\ i = {} /\ p = {} /\ one(d) /\ k \notin dropped
        BY <2>1, <2>2, QueuesNow DEF Placed, Nowhere, Somewhere
    <2> HIDE DEF i, p, d
    <2>4. Holders(k) = {<<"input", y>> : y \in i} \union {<<"posted", y>> : y \in p} \union {<<"docs", y>> : y \in d}
                         \union {<<x, 0>> : x \in {y \in {"slot", "dropped"} :
                                     IF y = "slot" THEN Waits(k) ELSE k \in dropped}}
        BY DEF Holders, i, p, d, Sent, Waits
    <2>5. CASE Waits(k) /\ i = {} /\ p = {} /\ d = {} /\ k \notin dropped
        <3>1. Holders(k) = {<<"slot", 0>>}
            BY <2>4, <2>5
        <3> QED BY <3>1
    <2>6. CASE ~Waits(k) /\ one(i) /\ p = {} /\ d = {} /\ k \notin dropped
        <3>1. PICK x : i = {x}
            BY <2>6
        <3>2. Holders(k) = {<<"input", x>>}
            BY <2>4, <2>6, <3>1
        <3> QED BY <3>2
    <2>7. CASE ~Waits(k) /\ i = {} /\ one(p) /\ d = {} /\ k \notin dropped
        <3>1. PICK x : p = {x}
            BY <2>7
        <3>2. Holders(k) = {<<"posted", x>>}
            BY <2>4, <2>7, <3>1
        <3> QED BY <3>2
    <2>8. CASE ~Waits(k) /\ i = {} /\ p = {} /\ d = {} /\ k \in dropped
        <3>1. Holders(k) = {<<"dropped", 0>>}
            BY <2>4, <2>8
        <3> QED BY <3>1
    <2>9. CASE ~Waits(k) /\ i = {} /\ p = {} /\ one(d) /\ k \notin dropped
        <3>1. PICK x : d = {x}
            BY <2>9
        <3>2. Holders(k) = {<<"docs", x>>}
            BY <2>4, <2>9, <3>1
        <3> QED BY <3>2
    <2> QED BY <2>3, <2>5, <2>6, <2>7, <2>8, <2>9
<1>2. Init => TypeInv /\ PlaceInv /\ OnceInv
    BY InitTypes, InitPlaces, InitOnce
<1>3. TypeInv /\ PlaceInv /\ OnceInv /\ [Next]_vars => (TypeInv /\ PlaceInv /\ OnceInv)'
    BY NextTypes, NextPlaces, NextOnce
<1> QED BY <1>1, <1>2, <1>3, PTL DEF Spec
-----------------------------------------------------------------------------
\* The order of the keys and the text.  a stands before b in a sequence, or in what window w
\* has received and will receive of its messages.
Pre(seq, a, b) == \E i, j \in DOMAIN seq : i < j /\ seq[i] = a /\ seq[j] = b
Before(ds, qs, w, a, b) == \/ Pre(ds[w], a, b)
                           \/ Pre(qs[w], a, b)
                           \/ In(ds[w], a) /\ In(qs[w], b)

\* What the user is about to do comes after every key that was eaten, and what waits in the
\* slot is the last of these.
FreshInv ==
    /\ \A x \in Inputs : In(input, x) /\ User(x) => \A k \in DOMAIN resent : k < x.n
    /\ \A x, y \in Inputs : Pre(input, x, y) /\ User(x) /\ User(y) => x.n < y.n
    /\ \A s \in Services : composing[s] # NoKey =>
          s = ServiceOf[focus] /\ s \in active /\ \A k \in DOMAIN resent : k < composing[s]
    /\ timer => \A k \in DOMAIN resent : k <= slot.key

\* The keys and texts of the queues q and the texts ds are in order, as long as no call
\* has failed: sent keys, what a window is sent after what it has, posted keys in their
\* window, and the text after the keys of an EDIT window.
SentInOrder(q)          == \A a, b \in Events : Pre(q.input, Sent(a), Sent(b)) => a < b
SentLast(q, ds, typedIn) ==
    \A w \in Windows : \A a, b \in DOMAIN typedIn :
        typedIn[a] = w /\ typedIn[b] = w /\ In(ds[w], Key(a)) /\ In(q.input, Sent(b)) => a < b
PostedHome(q, typedIn)  == \A w \in Windows : \A k \in Events :
    In(q.posted[w], Key(k)) => k \in DOMAIN typedIn /\ typedIn[k] = w /\ w \in EditFamily
KeysInOrder(q, ds, typedIn) ==
    \A w \in Windows : \A a, b \in DOMAIN typedIn :
        typedIn[a] = w /\ typedIn[b] = w /\ Before(ds, q.posted, w, Key(a), Key(b)) => a < b
TextAfter(q, ds, typedIn) ==
    \A w \in EditFamily : \A a \in DOMAIN typedIn : \A b \in Events :
        typedIn[a] = w /\ Before(ds, q.posted, w, Key(a), Text(b)) => a < b
Ordered(q, ds, typedIn) ==
    ~q.failed => /\ SentInOrder(q) /\ SentLast(q, ds, typedIn) /\ PostedHome(q, typedIn)
                 /\ KeysInOrder(q, ds, typedIn) /\ TextAfter(q, ds, typedIn)
OrderInv == Ordered(Now, docs, resent)

LEMMA PreIn == \A s, a, b : Pre(s, a, b) => In(s, a) /\ In(s, b)
BY DEF Pre, In

LEMMA BeforeIn == \A ds, qs, w, a, b : Before(ds, qs, w, a, b) =>
    (In(ds[w], a) \/ In(qs[w], a)) /\ (In(ds[w], b) \/ In(qs[w], b))
BY PreIn DEF Before

LEMMA PreAppend ==
    ASSUME NEW S, NEW seq \in Seq(S), NEW e \in S, NEW a, NEW b, Pre(Append(seq, e), a, b)
    PROVE  Pre(seq, a, b) \/ (In(seq, a) /\ b = e)
<1> DEFINE s == Append(seq, e)
<1>1. /\ DOMAIN s = 1 .. Len(seq) + 1 /\ s[Len(seq) + 1] = e /\ \A i \in DOMAIN seq : s[i] = seq[i]
      /\ DOMAIN seq = 1 .. Len(seq) /\ Len(seq) \in Nat
    OBVIOUS
<1> HIDE DEF s
<1>2. PICK i \in DOMAIN s : \E j \in DOMAIN s : i < j /\ s[i] = a /\ s[j] = b
    BY DEF Pre, s
<1>3. PICK j \in DOMAIN s : i < j /\ s[i] = a /\ s[j] = b
    BY <1>2
<1>4. i \in DOMAIN seq /\ seq[i] = a
    BY <1>1, <1>3
<1>5. CASE j \in DOMAIN seq
    BY <1>1, <1>3, <1>4, <1>5 DEF Pre
<1>6. CASE j \notin DOMAIN seq
    BY <1>1, <1>3, <1>4, <1>6 DEF In
<1> QED BY <1>5, <1>6

LEMMA PreTail ==
    ASSUME NEW S, NEW seq \in Seq(S), seq # <<>>
    PROVE  /\ \A a, b : Pre(Tail(seq), a, b) => Pre(seq, a, b)
           /\ \A b : In(Tail(seq), b) => Pre(seq, Head(seq), b)
<1> DEFINE t == Tail(seq)
           h == Head(seq)
<1>1. /\ Len(seq) \in Nat \ {0} /\ DOMAIN seq = 1 .. Len(seq) /\ h = seq[1]
      /\ DOMAIN t = 1 .. Len(seq) - 1 /\ \A i \in 1 .. Len(seq) - 1 : t[i] = seq[i + 1]
    OBVIOUS
<1> HIDE DEF t, h
<1>2. \A i \in DOMAIN t : i + 1 \in DOMAIN seq /\ 1 < i + 1 /\ t[i] = seq[i + 1] /\ i \in Int
    BY <1>1
<1>3. ASSUME NEW a, NEW b, Pre(t, a, b) PROVE Pre(seq, a, b)
    <2>1. PICK i \in DOMAIN t : \E j \in DOMAIN t : i < j /\ t[i] = a /\ t[j] = b
        BY <1>3 DEF Pre
    <2>2. PICK j \in DOMAIN t : i < j /\ t[i] = a /\ t[j] = b
        BY <2>1
    <2>3. i + 1 < j + 1 /\ i + 1 \in DOMAIN seq /\ j + 1 \in DOMAIN seq /\ seq[i + 1] = a /\ seq[j + 1] = b
        BY <1>2, <2>2
    <2> QED BY <2>3 DEF Pre
<1>4. ASSUME NEW b, In(t, b) PROVE Pre(seq, h, b)
    <2>1. PICK i \in DOMAIN t : t[i] = b
        BY <1>4 DEF In
    <2>2. 1 \in DOMAIN seq /\ seq[1] = h /\ 1 < i + 1 /\ i + 1 \in DOMAIN seq /\ seq[i + 1] = b
        BY <1>1, <1>2, <2>1
    <2> QED BY <2>2 DEF Pre
<1> QED BY <1>3, <1>4 DEF t, h

\* An item joins the text of a window, or its messages.
LEMMA BeforeText ==
    ASSUME NEW ds \in [Windows -> Seq(Items)], NEW qs, NEW w \in Windows, NEW item \in Items,
           NEW v \in Windows, NEW a, NEW b, Before(Put(ds, w, item), qs, v, a, b)
    PROVE  \/ Before(ds, qs, v, a, b)
           \/ v = w /\ a = item /\ In(qs[v], b)
           \/ v = w /\ b = item /\ In(ds[v], a)
<1>1. ds[w] \in Seq(Items) /\ Put(ds, w, item)[w] = Append(ds[w], item)
      /\ \A u \in Windows \ {w} : Put(ds, w, item)[u] = ds[u]
    BY DEF Put
<1>2. CASE v = w
    <2>1. Pre(Append(ds[w], item), a, b) => Pre(ds[w], a, b) \/ (In(ds[w], a) /\ b = item)
        BY <1>1, PreAppend
    <2>2. In(Append(ds[w], item), a) => In(ds[w], a) \/ a = item
        BY <1>1, InAppend
    <2> QED BY <1>1, <1>2, <2>1, <2>2 DEF Before
<1>3. CASE v # w
    BY <1>1, <1>3 DEF Before
<1> QED BY <1>2, <1>3

LEMMA BeforeMessage ==
    ASSUME NEW ds, NEW qs \in [Windows -> Seq(Items)], NEW w \in Windows, NEW item \in Items,
           NEW v \in Windows, NEW a, NEW b, Before(ds, Put(qs, w, item), v, a, b)
    PROVE  Before(ds, qs, v, a, b) \/ (v = w /\ b = item /\ (In(ds[v], a) \/ In(qs[v], a)))
<1>1. qs[w] \in Seq(Items) /\ Put(qs, w, item)[w] = Append(qs[w], item)
      /\ \A u \in Windows \ {w} : Put(qs, w, item)[u] = qs[u]
    BY DEF Put
<1>2. CASE v = w
    <2>1. Pre(Append(qs[w], item), a, b) => Pre(qs[w], a, b) \/ (In(qs[w], a) /\ b = item)
        BY <1>1, PreAppend
    <2>2. In(Append(qs[w], item), b) => In(qs[w], b) \/ b = item
        BY <1>1, InAppend
    <2> QED BY <1>1, <1>2, <2>1, <2>2 DEF Before
<1>3. CASE v # w
    BY <1>1, <1>3 DEF Before
<1> QED BY <1>2, <1>3

\* A committed syllable stands behind everything in its window.
LEMMA BeforeCommit ==
    ASSUME TypeOK, NEW w \in Windows, NEW m \in Events \union {NoKey}, NEW v \in Windows, NEW k, NEW b,
           Before(DocsAfter(w, m), PostedAfter(w, m), v, Key(k), b)
    PROVE  \/ Before(docs, posted, v, Key(k), b)
           \/ m # NoKey /\ b = Text(m)
<1>1. docs \in [Windows -> Seq(Items)] /\ posted \in [Windows -> Seq(Items)] /\ Key(k) # Text(m)
    BY DEF TypeOK, Key, Text
<1>2. CASE m = NoKey
    BY <1>2 DEF DocsAfter, PostedAfter
<1>3. CASE m # NoKey /\ w \in Queued
    <2>1. Text(m) \in Items /\ Before(docs, Put(posted, w, Text(m)), v, Key(k), b)
        BY <1>3, ItemType DEF DocsAfter, PostedAfter
    <2> QED BY <1>1, <1>3, <2>1, BeforeMessage
<1>4. CASE m # NoKey /\ w \notin Queued
    <2>1. Text(m) \in Items /\ Before(Put(docs, w, Text(m)), posted, v, Key(k), b)
        BY <1>4, ItemType DEF DocsAfter, PostedAfter
    <2> QED BY <1>1, <1>4, <2>1, BeforeText
<1> QED BY <1>2, <1>3, <1>4

\* The order survives what only takes away, adds text behind the keys before it, and
\* delivers posted keys.
LEMMA OrderCarried ==
    ASSUME NEW q, NEW ds, NEW r, NEW es, NEW typedIn, DOMAIN typedIn \subseteq Events,
           Underway(q, typedIn), Ordered(q, ds, typedIn), q.failed => r.failed,
           ~r.failed =>
               /\ \A a, b \in Events : Pre(r.input, Sent(a), Sent(b)) => Pre(q.input, Sent(a), Sent(b))
               /\ \A a \in Events : In(r.input, Sent(a)) => In(q.input, Sent(a))
               /\ \A w \in Windows : \A a \in Events : In(r.posted[w], Key(a)) => In(q.posted[w], Key(a))
               /\ \A w \in Windows : \A a \in DOMAIN typedIn :
                     In(es[w], Key(a)) => In(ds[w], Key(a)) \/ w \in EditFamily
               /\ \A w \in Windows : \A a, b \in DOMAIN typedIn :
                     Before(es, r.posted, w, Key(a), Key(b)) => Before(ds, q.posted, w, Key(a), Key(b))
               /\ \A w \in Windows : \A a \in DOMAIN typedIn : \A b \in Events :
                     Before(es, r.posted, w, Key(a), Text(b)) => Before(ds, q.posted, w, Key(a), Text(b)) \/ a < b
    PROVE  Ordered(r, es, typedIn)
<1> SUFFICES ASSUME ~r.failed
             PROVE  /\ SentInOrder(r) /\ SentLast(r, es, typedIn) /\ PostedHome(r, typedIn)
                    /\ KeysInOrder(r, es, typedIn) /\ TextAfter(r, es, typedIn)
    BY DEF Ordered
<1>1. ~q.failed /\ SentInOrder(q) /\ SentLast(q, ds, typedIn) /\ PostedHome(q, typedIn)
      /\ KeysInOrder(q, ds, typedIn) /\ TextAfter(q, ds, typedIn)
    BY DEF Ordered
<1>2. SentInOrder(r)
    BY <1>1 DEF SentInOrder
<1>3. SentLast(r, es, typedIn)
    <2> SUFFICES ASSUME NEW w \in Windows, NEW a \in DOMAIN typedIn, NEW b \in DOMAIN typedIn,
                        typedIn[a] = w, typedIn[b] = w, In(es[w], Key(a)), In(r.input, Sent(b))
                 PROVE  a < b
        BY DEF SentLast
    <2>1. In(q.input, Sent(b))
        OBVIOUS
    <2>2. w \notin EditFamily
        BY <1>1, <2>1 DEF Underway
    <2> QED BY <1>1, <2>1, <2>2 DEF SentLast
<1>4. PostedHome(r, typedIn)
    BY <1>1 DEF PostedHome
<1>5. KeysInOrder(r, es, typedIn)
    BY <1>1 DEF KeysInOrder
<1>6. TextAfter(r, es, typedIn)
    BY <1>1, ResendAssumption DEF TextAfter
<1> QED BY <1>2, <1>3, <1>4, <1>5, <1>6

\* A key that is nowhere yet is in order.
LEMMA OrderNewKey ==
    ASSUME NEW q, NEW ds, NEW typedIn, Ordered(q, ds, typedIn), NEW n, n \notin DOMAIN typedIn, NEW home,
           ~In(q.input, Sent(n)), \A w \in Windows : ~In(q.posted[w], Key(n)) /\ ~In(ds[w], Key(n))
    PROVE  Ordered(q, ds, [k \in DOMAIN typedIn \union {n} |-> IF k = n THEN home ELSE typedIn[k]])
<1> DEFINE new == [k \in DOMAIN typedIn \union {n} |-> IF k = n THEN home ELSE typedIn[k]]
<1>1. DOMAIN new = DOMAIN typedIn \union {n} /\ \A k \in DOMAIN typedIn : new[k] = typedIn[k]
    OBVIOUS
<1> HIDE DEF new
<1>2. \A w \in Windows : \A x : ~Before(ds, q.posted, w, Key(n), x) /\ ~Before(ds, q.posted, w, x, Key(n))
    BY BeforeIn
<1> SUFFICES ASSUME ~q.failed
             PROVE  /\ SentInOrder(q) /\ SentLast(q, ds, new) /\ PostedHome(q, new)
                    /\ KeysInOrder(q, ds, new) /\ TextAfter(q, ds, new)
    BY DEF Ordered, new
<1>3. SentInOrder(q) /\ SentLast(q, ds, typedIn) /\ PostedHome(q, typedIn)
      /\ KeysInOrder(q, ds, typedIn) /\ TextAfter(q, ds, typedIn)
    BY DEF Ordered
<1>4. SentLast(q, ds, new)
    BY <1>1, <1>3 DEF SentLast
<1>5. PostedHome(q, new)
    BY <1>1, <1>3 DEF PostedHome
<1>6. KeysInOrder(q, ds, new)
    BY <1>1, <1>2, <1>3 DEF KeysInOrder
<1>7. TextAfter(q, ds, new)
    BY <1>1, <1>2, <1>3, ResendAssumption DEF TextAfter
<1> QED BY <1>3, <1>4, <1>5, <1>6, <1>7

\* What sending key k can do: nothing but a failure or a loss; a marked key at the end of the
\* input queue; a message at the end of the queue of the EDIT window it is meant for.
LEMMA SendShape ==
    ASSUME TypeOK, NEW q, IsQueues(q), NEW k \in Events, NEW target, NEW r \in ResendKeyNow(k, target, q)
    PROVE  /\ q.failed => r.failed
           /\ \/ r.input = q.input /\ r.posted = q.posted
              \/ r.input = Append(q.input, Sent(k)) /\ r.posted = q.posted
              \/ /\ r.input = q.input /\ r.posted = Put(q.posted, target, Key(k))
                 /\ target \in Windows /\ target \in EditFamily
<1>1. \A p : IsQueues(p) =>
        /\ Dropped(k, p).input = p.input /\ Dropped(k, p).posted = p.posted /\ Dropped(k, p).failed = p.failed
        /\ Failed(p).input = p.input /\ Failed(p).posted = p.posted /\ Failed(p).failed
        /\ IsQueues(Failed(p))
    BY DEF IsQueues, Dropped, Failed
<1>2. ASSUME NEW p, IsQueues(p), r \in SendKeyThrough(k, p)
      PROVE  /\ p.failed => r.failed
             /\ r.posted = p.posted
             /\ r.input \in {p.input, Append(p.input, Sent(k))}
    <2>1. CASE r = [p EXCEPT !.input = Append(@, [kind |-> "sent", n |-> k])]
        BY <1>2, <2>1 DEF IsQueues, Sent
    <2>2. CASE r = Dropped(k, Failed(p))
        BY <1>1, <1>2, <2>2
    <2> QED BY <1>2, <2>1, <2>2 DEF SendKeyThrough
<1>3. CASE r \in SendKeyThrough(k, q)
    BY <1>2, <1>3
<1>4. CASE r = Dropped(k, q) \/ r = Dropped(k, Failed(q))
    BY <1>1, <1>4
<1>5. CASE Route(target) = "post" /\ r = [q EXCEPT !.posted[target] = Append(@, Key(k))]
    <2>1. target \in alive /\ alive \subseteq Windows /\ target \in EditFamily
        BY <1>5 DEF Route, TypeOK
    <2> QED BY <1>5, <2>1 DEF IsQueues, Put
<1>6. CASE r \in SendKeyThrough(k, Failed(q))
    BY <1>1, <1>2, <1>6
<1> QED BY <1>3, <1>4, <1>5, <1>6 DEF ResendKeyNow, Route

\* k is later than every key that is on its way or was received.
Last(q, ds, typedIn, k) == \A a \in DOMAIN typedIn :
    \/ In(q.input, Sent(a))
    \/ \E w \in Windows : In(q.posted[w], Key(a)) \/ In(ds[w], Key(a))
    => a < k

LEMMA OrderSend ==
    ASSUME TypeOK, NEW q, IsQueues(q), NEW ds, NEW typedIn, DOMAIN typedIn \subseteq Events,
           Underway(q, typedIn), Ordered(q, ds, typedIn),
           NEW k \in Events, k \in DOMAIN typedIn, Last(q, ds, typedIn, k),
           NEW target, ~q.failed => target = typedIn[k], NEW r \in ResendKeyNow(k, target, q)
    PROVE  Ordered(r, ds, typedIn)
<1> SUFFICES ASSUME ~r.failed
             PROVE  /\ SentInOrder(r) /\ SentLast(r, ds, typedIn) /\ PostedHome(r, typedIn)
                    /\ KeysInOrder(r, ds, typedIn) /\ TextAfter(r, ds, typedIn)
    BY DEF Ordered
<1>1. /\ ~q.failed /\ SentInOrder(q) /\ SentLast(q, ds, typedIn) /\ PostedHome(q, typedIn)
      /\ KeysInOrder(q, ds, typedIn) /\ TextAfter(q, ds, typedIn) /\ target = typedIn[k]
    BY SendShape DEF Ordered
<1>2. CASE r.input = q.input /\ r.posted = q.posted
    BY <1>1, <1>2 DEF SentInOrder, SentLast, PostedHome, KeysInOrder, TextAfter
<1>3. CASE r.input = Append(q.input, Sent(k)) /\ r.posted = q.posted
    <2>1. q.input \in Seq(Inputs) /\ Sent(k) \in Inputs /\ \A b : Sent(b) = Sent(k) => b = k
        BY DEF IsQueues, Inputs, Sent
    <2>2. \A a, b : Pre(r.input, Sent(a), Sent(b)) => Pre(q.input, Sent(a), Sent(b)) \/ (In(q.input, Sent(a)) /\ b = k)
        BY <1>3, <2>1, PreAppend
    <2>3. \A b : In(r.input, Sent(b)) => In(q.input, Sent(b)) \/ b = k
        BY <1>3, <2>1, InAppend
    <2>4. SentInOrder(r)
        <3> SUFFICES ASSUME NEW a \in Events, NEW b \in Events, Pre(r.input, Sent(a), Sent(b)) PROVE a < b
            BY DEF SentInOrder
        <3>1. CASE Pre(q.input, Sent(a), Sent(b))
            BY <1>1, <3>1 DEF SentInOrder
        <3>2. CASE In(q.input, Sent(a)) /\ b = k
            BY <3>2 DEF Underway, Last
        <3> QED BY <2>2, <3>1, <3>2
    <2>5. SentLast(r, ds, typedIn)
        <3> SUFFICES ASSUME NEW w \in Windows, NEW a \in DOMAIN typedIn, NEW b \in DOMAIN typedIn,
                            typedIn[a] = w, typedIn[b] = w, In(ds[w], Key(a)), In(r.input, Sent(b))
                     PROVE  a < b
            BY DEF SentLast
        <3>1. CASE In(q.input, Sent(b))
            BY <1>1, <3>1 DEF SentLast
        <3>2. CASE b = k
            BY <3>2 DEF Last
        <3> QED BY <2>3, <3>1, <3>2
    <2> QED BY <1>1, <1>3, <2>4, <2>5 DEF PostedHome, KeysInOrder, TextAfter
<1>4. CASE /\ r.input = q.input /\ r.posted = Put(q.posted, target, Key(k))
           /\ target \in Windows /\ target \in EditFamily
    <2>1. /\ q.posted \in [Windows -> Seq(Items)] /\ Key(k) \in Items
          /\ \A b : (Key(b) = Key(k) => b = k) /\ Text(b) # Key(k)
        BY ItemType DEF IsQueues, Key, Text
    <2>2. \A w \in Windows : \A a : In(r.posted[w], Key(a)) => In(q.posted[w], Key(a)) \/ (w = target /\ a = k)
        <3>1. \A w \in Windows : \A x : In(Put(q.posted, target, Key(k))[w], x) =>
                In(q.posted[w], x) \/ (w = target /\ x = Key(k))
            BY <1>4, <2>1, InPut, Zenon
        <3> QED BY <1>4, <2>1, <3>1
    <2>3. \A w \in Windows : \A a, x : Before(ds, r.posted, w, Key(a), x) =>
            \/ Before(ds, q.posted, w, Key(a), x)
            \/ x = Key(k) /\ (In(ds[w], Key(a)) \/ In(q.posted[w], Key(a)))
        <3>1. \A w \in Windows : \A a, x : Before(ds, Put(q.posted, target, Key(k)), w, a, x) =>
                \/ Before(ds, q.posted, w, a, x)
                \/ w = target /\ x = Key(k) /\ (In(ds[w], a) \/ In(q.posted[w], a))
            BY <1>4, <2>1, BeforeMessage, Zenon
        <3> QED BY <1>4, <3>1
    <2>4. PostedHome(r, typedIn)
        BY <1>1, <1>4, <2>2 DEF PostedHome
    <2>5. KeysInOrder(r, ds, typedIn)
        <3> SUFFICES ASSUME NEW w \in Windows, NEW a \in DOMAIN typedIn, NEW b \in DOMAIN typedIn,
                            typedIn[a] = w, typedIn[b] = w, Before(ds, r.posted, w, Key(a), Key(b))
                     PROVE  a < b
            BY DEF KeysInOrder
        <3>1. CASE Before(ds, q.posted, w, Key(a), Key(b))
            BY <1>1, <3>1 DEF KeysInOrder
        <3>2. CASE b = k /\ (In(ds[w], Key(a)) \/ In(q.posted[w], Key(a)))
            BY <3>2 DEF Last
        <3> QED BY <2>1, <2>3, <3>1, <3>2
    <2>6. TextAfter(r, ds, typedIn)
        BY <1>1, <2>1, <2>3, ResendAssumption DEF TextAfter
    <2> QED BY <1>1, <1>4, <2>4, <2>5, <2>6 DEF SentInOrder, SentLast
<1> QED BY <1>2, <1>3, <1>4, SendShape

-----------------------------------------------------------------------------
\* The user's events keep their order, and stay later than the eaten keys.
UsersOrder(r, q) ==
    /\ \A x : User(x) /\ In(r.input, x) => In(q.input, x)
    /\ \A x, y : User(x) /\ User(y) /\ Pre(r.input, x, y) => Pre(q.input, x, y)

LEMMA FreshSend ==
    ASSUME TypeOK, NEW q, IsQueues(q), NEW k \in Events, NEW target, NEW r \in ResendKeyNow(k, target, q)
    PROVE  UsersOrder(r, q)
<1>1. q.input \in Seq(Inputs) /\ Sent(k) \in Inputs /\ ~User(Sent(k))
    BY DEF IsQueues, Inputs, Sent, User
<1>2. r.input = q.input \/ r.input = Append(q.input, Sent(k))
    BY SendShape
<1>3. \A x, y : Pre(Append(q.input, Sent(k)), x, y) => Pre(q.input, x, y) \/ y = Sent(k)
    BY <1>1, PreAppend
<1>4. \A x : In(Append(q.input, Sent(k)), x) => In(q.input, x) \/ x = Sent(k)
    BY <1>1, InAppend
<1> QED BY <1>1, <1>2, <1>3, <1>4 DEF UsersOrder

\* Steps that eat no key and only take from the queues.
LEMMA FreshKept ==
    ASSUME FreshInv, UNCHANGED resent,
           \A x \in Inputs : User(x) /\ In(input', x) => In(input, x),
           \A x, y \in Inputs : User(x) /\ User(y) /\ Pre(input', x, y) => Pre(input, x, y),
           \A s \in Services : composing'[s] # NoKey =>
               s = ServiceOf[focus'] /\ s \in active' /\ \A k \in DOMAIN resent : k < composing'[s],
           timer' => timer /\ slot'.key = slot.key
    PROVE  FreshInv'
BY DEF FreshInv, In, Pre

LEMMA InitFresh == Init => FreshInv /\ OrderInv
<1> SUFFICES ASSUME Init PROVE FreshInv /\ OrderInv
    OBVIOUS
<1>1. /\ input = <<>> /\ timer = FALSE /\ resent = [n \in {} |-> NoWindow] /\ DOMAIN resent = {}
      /\ \A w \in Windows : posted[w] = <<>> /\ docs[w] = <<>>
      /\ composing = [s \in Services |-> NoKey]
    BY DEF Init
<1>2. \A x, y : ~In(<<>>, x) /\ ~Pre(<<>>, x, y)
    BY DEF In, Pre
<1> QED BY <1>1, <1>2, QueuesNow DEF FreshInv, OrderInv, Ordered, SentInOrder, SentLast, PostedHome,
                                     KeysInOrder, TextAfter, Before

LEMMA PressFresh == TypeInv /\ PlaceInv /\ FreshInv /\ Press => FreshInv'
<1> SUFFICES ASSUME TypeInv, PlaceInv, FreshInv, Press PROVE FreshInv'
    OBVIOUS
<1>1. typed \in Nat /\ typed + 1 \in Events /\ input \in Seq(Inputs) /\ DOMAIN resent \subseteq Events
    BY ResendAssumption DEF Press, TypeInv, TypeOK, Events
<1>2. UNCHANGED <<focus, alive, active, composing, slot, timer, resent>>
    BY DEF Press
<1>3. PICK e \in Inputs : input' = Append(input, e) /\ (User(e) => e.n = typed + 1)
    <2>1. CASE \E kind \in {"jamo", "key"} : input' = Append(input, [kind |-> kind, n |-> typed + 1])
        BY <1>1, <2>1 DEF Inputs
    <2>2. CASE \E w \in alive : input' = Append(input, [kind |-> "click", to |-> w])
        <3>1. \A w \in alive : [kind |-> "click", to |-> w] \in Inputs /\ ~User([kind |-> "click", to |-> w])
            BY DEF Inputs, TypeInv, TypeOK, User
        <3> QED BY <2>2, <3>1
    <2> QED BY <2>1, <2>2 DEF Press
<1>4. \A k \in DOMAIN resent : k < typed + 1
    BY <1>1, ResendAssumption DEF PlaceInv, New, Events
<1>5. \A x \in Inputs : In(input, x) /\ User(x) => x.n < typed + 1
    BY <1>1, ResendAssumption DEF PlaceInv, Inputs, User, Events
<1>6. \A x : In(input', x) => In(input, x) \/ x = e
    BY <1>1, <1>3, InAppend
<1>7. \A x, y : Pre(input', x, y) => Pre(input, x, y) \/ (In(input, x) /\ y = e)
    BY <1>1, <1>3, PreAppend
<1>8. \A x \in Inputs : In(input', x) /\ User(x) => \A k \in DOMAIN resent : k < x.n
    BY <1>3, <1>4, <1>6 DEF FreshInv
<1>9. \A x, y \in Inputs : Pre(input', x, y) /\ User(x) /\ User(y) => x.n < y.n
    BY <1>3, <1>5, <1>7 DEF FreshInv
<1> QED BY <1>2, <1>8, <1>9 DEF FreshInv, In, Pre

\* What a step does to the queues when it sends no key: the sent keys stay or go; keys leave
\* the messages, and join the text of EDIT windows; text joins behind the keys before it.
SentKept ==
    /\ \A a, b \in Events : Pre(input', Sent(a), Sent(b)) => Pre(input, Sent(a), Sent(b))
    /\ \A a \in Events : In(input', Sent(a)) => In(input, Sent(a))
TextsOnly ==
    /\ \A w \in Windows : \A a \in Events : In(posted'[w], Key(a)) => In(posted[w], Key(a))
    /\ \A w \in Windows : \A a \in DOMAIN resent : In(docs'[w], Key(a)) => In(docs[w], Key(a)) \/ w \in EditFamily
    /\ \A w \in Windows : \A a, b \in DOMAIN resent :
          Before(docs', posted', w, Key(a), Key(b)) => Before(docs, posted, w, Key(a), Key(b))
    /\ \A w \in Windows : \A a \in DOMAIN resent : \A b \in Events :
          Before(docs', posted', w, Key(a), Text(b)) => Before(docs, posted, w, Key(a), Text(b)) \/ a < b

LEMMA OrderAfter == OrderInv' <=> Ordered(Now', docs', resent')
BY DEF OrderInv, Ordered, SentInOrder, SentLast, PostedHome, KeysInOrder, TextAfter, Before, Pre, In, Key, Text, Sent

LEMMA OrderMoves ==
    ASSUME TypeInv, PlaceInv, OrderInv, UNCHANGED <<resent, failed>>, SentKept, ~failed => TextsOnly
    PROVE  OrderInv'
<1>1. DOMAIN resent \subseteq Events /\ Underway(Now, resent) /\ Ordered(Now, docs, resent)
      /\ (Now.failed => Now'.failed)
    BY QueuesNow DEF TypeInv, TypeOK, PlaceInv, Now, OrderInv
<1>2. ~Now'.failed =>
        /\ \A a, b \in Events : Pre(Now'.input, Sent(a), Sent(b)) => Pre(Now.input, Sent(a), Sent(b))
        /\ \A a \in Events : In(Now'.input, Sent(a)) => In(Now.input, Sent(a))
        /\ \A w \in Windows : \A a \in Events : In(Now'.posted[w], Key(a)) => In(Now.posted[w], Key(a))
        /\ \A w \in Windows : \A a \in DOMAIN resent :
              In(docs'[w], Key(a)) => In(docs[w], Key(a)) \/ w \in EditFamily
        /\ \A w \in Windows : \A a, b \in DOMAIN resent :
              Before(docs', Now'.posted, w, Key(a), Key(b)) => Before(docs, Now.posted, w, Key(a), Key(b))
        /\ \A w \in Windows : \A a \in DOMAIN resent : \A b \in Events :
              Before(docs', Now'.posted, w, Key(a), Text(b)) => Before(docs, Now.posted, w, Key(a), Text(b)) \/ a < b
    BY QueuesNow DEF SentKept, TextsOnly
<1>3. Ordered(Now', docs', resent)
    BY <1>1, <1>2, OrderCarried
<1> QED BY <1>3, OrderAfter

\* Committing what is composed, writing nothing, and writing a key that was not eaten.
LEMMA CommitOrder ==
    ASSUME TypeInv, FreshInv, NEW s \in Services, NEW w \in Windows,
           docs' = DocsAfter(w, composing[s]), posted' = PostedAfter(w, composing[s])
    PROVE  TextsOnly
<1> DEFINE m == composing[s]
<1>1. TypeOK /\ m \in Events \union {NoKey} /\ (m # NoKey => \A k \in DOMAIN resent : k < m)
      /\ DOMAIN resent \subseteq Events
    BY DEF TypeInv, TypeOK, FreshInv
<1>2. \A a, b : Key(a) # Text(b)
    BY DEF Key, Text
<1>3. \A a, b : Text(a) = Text(b) => a = b
    BY DEF Text
<1> HIDE DEF m
<1>4. docs' = DocsAfter(w, m) /\ posted' = PostedAfter(w, m)
    BY DEF m
<1>5. \A v \in Windows : \A a, b : Before(docs', posted', v, Key(a), b) =>
        Before(docs, posted, v, Key(a), b) \/ (m # NoKey /\ b = Text(m))
    BY <1>1, <1>4, BeforeCommit
<1>6. /\ \A v \in Windows : \A n : In(docs'[v], Key(n)) => In(docs[v], Key(n))
      /\ \A v \in Windows : \A n : In(posted'[v], Key(n)) => In(posted[v], Key(n))
    BY <1>1, <1>4, CommitMovesNoKey
<1> QED BY <1>1, <1>2, <1>3, <1>5, <1>6 DEF TextsOnly

LEMMA QuietOrder == UNCHANGED <<docs, posted>> => TextsOnly
BY DEF TextsOnly

LEMMA NotEatenOrder ==
    ASSUME TypeOK, NEW w \in Windows, NEW n \in Events, n \notin DOMAIN resent,
           docs' = Put(docs, w, Key(n)), posted' = posted
    PROVE  TextsOnly
<1>1. docs \in [Windows -> Seq(Items)] /\ Key(n) \in Items
      /\ (\A a : Key(a) = Key(n) => a = n) /\ \A b : Text(b) # Key(n)
    BY ItemType DEF TypeOK, Key, Text
<1>2. \A v \in Windows : \A a, b : Before(docs', posted, v, a, b) =>
        Before(docs, posted, v, a, b) \/ a = Key(n) \/ b = Key(n)
    <2>1. \A v \in Windows : \A a, b : Before(Put(docs, w, Key(n)), posted, v, a, b) =>
            Before(docs, posted, v, a, b) \/ a = Key(n) \/ b = Key(n)
        BY <1>1, BeforeText
    <2> QED BY <2>1
<1>3. \A v \in Windows : \A x : In(docs'[v], x) => In(docs[v], x) \/ x = Key(n)
    <2>1. \A v \in Windows : \A x : In(Put(docs, w, Key(n))[v], x) => In(docs[v], x) \/ (v = w /\ x = Key(n))
        BY <1>1, InPut, Zenon
    <2> QED BY <2>1
<1>4. \A k \in DOMAIN resent : Key(k) # Key(n)
    BY <1>1
<1> QED BY <1>1, <1>2, <1>3, <1>4 DEF TextsOnly

LEMMA TailOrder ==
    ASSUME TypeOK, input # <<>>, input' = Tail(input)
    PROVE  /\ SentKept
           /\ \A x, y : Pre(input', x, y) => Pre(input, x, y)
           /\ \A x : In(input', x) => In(input, x)
           /\ \A x : In(input', x) => Pre(input, Head(input), x)
<1>1. input \in Seq(Inputs)
    BY DEF TypeOK
<1>2. \A x, y : Pre(input', x, y) => Pre(input, x, y)
    BY <1>1, PreTail
<1>3. \A x : In(input', x) => In(input, x)
    BY <1>1, InTail
<1>4. \A x : In(input', x) => Pre(input, Head(input), x)
    BY <1>1, PreTail
<1> QED BY <1>2, <1>3, <1>4 DEF SentKept

LEMMA PressOrder == TypeInv /\ PlaceInv /\ OrderInv /\ Press => OrderInv'
<1> SUFFICES ASSUME TypeInv, PlaceInv, OrderInv, Press PROVE OrderInv'
    OBVIOUS
<1>1. typed \in Nat /\ typed + 1 \in Events /\ input \in Seq(Inputs)
    BY ResendAssumption DEF Press, TypeInv, TypeOK, Events
<1>2. UNCHANGED <<posted, docs, resent, failed>>
    BY DEF Press
<1>3. PICK e \in Inputs : input' = Append(input, e) /\ e.kind # "sent"
    <2>1. CASE \E kind \in {"jamo", "key"} : input' = Append(input, [kind |-> kind, n |-> typed + 1])
        BY <1>1, <2>1 DEF Inputs
    <2>2. CASE \E w \in alive : input' = Append(input, [kind |-> "click", to |-> w])
        <3>1. \A w \in alive : [kind |-> "click", to |-> w] \in Inputs
            BY DEF Inputs, TypeInv, TypeOK
        <3> QED BY <2>2, <3>1
    <2> QED BY <2>1, <2>2 DEF Press
<1>4. \A b : Sent(b) # e
    BY <1>3 DEF Sent
<1>5. \A x, y : Pre(input', x, y) => Pre(input, x, y) \/ y = e
    BY <1>1, <1>3, PreAppend
<1>6. \A x : In(input', x) => In(input, x) \/ x = e
    BY <1>1, <1>3, InAppend
<1>7. SentKept
    BY <1>4, <1>5, <1>6 DEF SentKept
<1> QED BY <1>2, <1>7, QuietOrder, OrderMoves

LEMMA JamoOrder == TypeInv /\ PlaceInv /\ FreshInv /\ OrderInv /\ TakeJamo => FreshInv' /\ OrderInv'
<1> SUFFICES ASSUME TypeInv, PlaceInv, FreshInv, OrderInv, TakeJamo PROVE FreshInv' /\ OrderInv'
    OBVIOUS
<1> DEFINE s == ServiceOf[focus]
<1>0. PICK n \in Events : n = Head(input).n
    BY HeadType DEF TakeJamo, TypeInv
<1>1. /\ TypeOK /\ focus \in Windows /\ User(Head(input)) /\ Head(input) \in Inputs
      /\ In(input, Head(input)) /\ n \notin DOMAIN resent
    BY <1>0, HeadType, TakenInput DEF TakeJamo, TypeInv, TypeOK, User, New
<1>2. input # <<>> /\ input' = Tail(input) /\ UNCHANGED <<focus, active, slot, timer, resent, failed>>
    BY DEF TakeJamo
<1>3. \/ /\ Serviced /\ docs' = DocsAfter(focus, composing[s]) /\ posted' = PostedAfter(focus, composing[s])
         /\ composing' = [composing EXCEPT ![s] = n]
      \/ UNCHANGED <<docs, posted, composing>>
      \/ docs' = Put(docs, focus, Key(n)) /\ UNCHANGED <<posted, composing>>
    BY <1>0 DEF TakeJamo
<1>4. TextsOnly
    <2>1. CASE Serviced /\ docs' = DocsAfter(focus, composing[s]) /\ posted' = PostedAfter(focus, composing[s])
        BY <1>1, <2>1, ServicedType, CommitOrder
    <2>2. CASE docs' = Put(docs, focus, Key(n)) /\ UNCHANGED posted
        BY <1>1, <2>2, NotEatenOrder
    <2> QED BY <1>3, <2>1, <2>2, QuietOrder
<1>5. ASSUME NEW z \in Services, composing'[z] # NoKey
      PROVE  z = ServiceOf[focus'] /\ z \in active' /\ \A k \in DOMAIN resent : k < composing'[z]
    <2>1. \A k \in DOMAIN resent : k < n
        BY <1>0, <1>1 DEF FreshInv
    <2>2. CASE Serviced /\ composing' = [composing EXCEPT ![s] = n]
        <3>1. s \in Services /\ s \in active /\ composing \in [Services -> Events \union {NoKey}]
            BY <1>1, <2>2, ServicedType DEF TypeOK
        <3>2. CASE z = s
            BY <1>2, <2>1, <2>2, <3>1, <3>2
        <3>3. CASE z # s
            BY <1>2, <1>5, <2>2, <3>1, <3>3 DEF FreshInv
        <3> QED BY <3>2, <3>3
    <2>3. CASE UNCHANGED composing
        BY <1>2, <1>5, <2>3 DEF FreshInv
    <2> QED BY <1>3, <2>2, <2>3
<1>6. FreshInv'
    BY <1>1, <1>2, <1>5, TailOrder, FreshKept
<1> QED BY <1>1, <1>2, <1>4, <1>6, TailOrder, OrderMoves

LEMMA TakeKeyOrder == TypeInv /\ PlaceInv /\ FreshInv /\ OrderInv /\ TakeKey => FreshInv' /\ OrderInv'
<1> SUFFICES ASSUME TypeInv, PlaceInv, FreshInv, OrderInv, TakeKey PROVE FreshInv' /\ OrderInv'
    OBVIOUS
<1> DEFINE h == Head(input)
<1>0. PICK n \in Events : n = Head(input).n
    BY HeadType DEF TakeKey, TypeInv
<1>1. TypeOK /\ focus \in Windows /\ h \in Inputs /\ DOMAIN resent \subseteq Events
    BY HeadType DEF TakeKey, TypeInv, TypeOK
<1>2. /\ input # <<>> /\ input' = Tail(input) /\ docs' = Put(docs, focus, Key(n))
      /\ UNCHANGED <<focus, active, composing, slot, timer, posted, resent, failed>>
    BY <1>0 DEF TakeKey
<1>3. FreshInv'
    <2>1. \A s \in Services : composing'[s] # NoKey =>
            s = ServiceOf[focus'] /\ s \in active' /\ \A k \in DOMAIN resent : k < composing'[s]
        BY <1>2 DEF FreshInv
    <2> QED BY <1>1, <1>2, <2>1, TailOrder, FreshKept
<1>4. CASE User(h)
    <2>1. n \notin DOMAIN resent
        BY <1>0, <1>2, <1>4, TakenInput DEF New
    <2> QED BY <1>1, <1>2, <1>3, <2>1, NotEatenOrder, TailOrder, OrderMoves
<1>5. CASE h.kind = "sent"
    <2>1. h = Sent(n) /\ In(input, h)
        BY <1>0, <1>1, <1>2, <1>5, TakenInput DEF Inputs, Sent
    <2>2. n \in DOMAIN resent
        BY <2>1, QueuesNow DEF PlaceInv, Underway, Now
    <2> SUFFICES ASSUME ~failed'
                 PROVE  /\ SentInOrder(Now') /\ SentLast(Now', docs', resent) /\ PostedHome(Now', resent)
                        /\ KeysInOrder(Now', docs', resent) /\ TextAfter(Now', docs', resent)
        BY <1>2, <1>3, OrderAfter, QueuesNow DEF Ordered
    <2>3. /\ SentInOrder(Now) /\ SentLast(Now, docs, resent) /\ PostedHome(Now, resent)
          /\ KeysInOrder(Now, docs, resent) /\ TextAfter(Now, docs, resent)
          /\ resent[n] \notin EditFamily /\ Now.input = input /\ Now.posted = posted
          /\ Now'.input = input' /\ Now'.posted = posted
        BY <1>2, <2>1, <2>2, QueuesNow DEF OrderInv, Ordered, PlaceInv, Underway, Now
    <2>4. /\ docs \in [Windows -> Seq(Items)] /\ Key(n) \in Items
          /\ (\A a : Key(a) = Key(n) => a = n) /\ \A b : Text(b) # Key(n)
        BY <1>1, ItemType DEF TypeOK, Key, Text
    <2>5. \A v \in Windows : \A a, b : Before(docs', posted, v, a, b) =>
            \/ Before(docs, posted, v, a, b)
            \/ v = focus /\ a = Key(n) /\ In(posted[v], b)
            \/ v = focus /\ b = Key(n) /\ In(docs[v], a)
        <3>1. \A v \in Windows : \A a, b : Before(Put(docs, focus, Key(n)), posted, v, a, b) =>
                \/ Before(docs, posted, v, a, b)
                \/ v = focus /\ a = Key(n) /\ In(posted[v], b)
                \/ v = focus /\ b = Key(n) /\ In(docs[v], a)
            BY <1>1, <2>4, BeforeText
        <3> QED BY <1>2, <3>1
    <2>6. \A v \in Windows : \A x : In(docs'[v], x) => In(docs[v], x) \/ (v = focus /\ x = Key(n))
        <3>1. \A v \in Windows : \A x : In(Put(docs, focus, Key(n))[v], x) => In(docs[v], x) \/ (v = focus /\ x = Key(n))
            BY <1>1, <2>4, InPut, Zenon
        <3> QED BY <1>2, <3>1
    <2>7. SentInOrder(Now')
        BY <1>1, <1>2, <2>3, TailOrder DEF SentInOrder, SentKept
    <2>8. SentLast(Now', docs', resent)
        <3> SUFFICES ASSUME NEW w \in Windows, NEW a \in DOMAIN resent, NEW b \in DOMAIN resent,
                            resent[a] = w, resent[b] = w, In(docs'[w], Key(a)), In(input', Sent(b))
                     PROVE  a < b
            BY <2>3 DEF SentLast
        <3>1. In(input, Sent(b)) /\ Pre(input, Sent(n), Sent(b))
            BY <1>1, <1>2, <2>1, TailOrder
        <3>2. CASE In(docs[w], Key(a))
            BY <2>3, <3>1, <3>2 DEF SentLast
        <3>3. CASE a = n
            BY <1>1, <2>3, <3>1, <3>3 DEF SentInOrder
        <3> QED BY <2>4, <2>6, <3>2, <3>3
    <2>9. PostedHome(Now', resent)
        BY <2>3 DEF PostedHome
    <2>10. KeysInOrder(Now', docs', resent)
        <3> SUFFICES ASSUME NEW w \in Windows, NEW a \in DOMAIN resent, NEW b \in DOMAIN resent,
                            resent[a] = w, resent[b] = w, Before(docs', posted, w, Key(a), Key(b))
                     PROVE  a < b
            BY <2>3 DEF KeysInOrder
        <3>1. CASE Before(docs, posted, w, Key(a), Key(b))
            BY <2>3, <3>1 DEF KeysInOrder
        <3>2. CASE a = n /\ In(posted[w], Key(b))
            BY <1>1, <2>3, <3>2 DEF PostedHome
        <3>3. CASE b = n /\ In(docs[w], Key(a))
            BY <2>1, <2>3, <3>3 DEF SentLast
        <3> QED BY <2>4, <2>5, <3>1, <3>2, <3>3
    <2>11. TextAfter(Now', docs', resent)
        <3> SUFFICES ASSUME NEW w \in EditFamily, NEW a \in DOMAIN resent, NEW b \in Events,
                            resent[a] = w, Before(docs', posted, w, Key(a), Text(b))
                     PROVE  a < b
            BY <2>3 DEF TextAfter
        <3>1. w \in Windows /\ a # n
            BY <2>3, ResendAssumption
        <3>2. Before(docs, posted, w, Key(a), Text(b))
            BY <2>4, <2>5, <3>1
        <3> QED BY <2>3, <3>2 DEF TextAfter
    <2> QED BY <2>7, <2>8, <2>9, <2>10, <2>11
<1>6. User(h) \/ h.kind = "sent"
    BY DEF TakeKey, User
<1> QED BY <1>3, <1>4, <1>5, <1>6

LEMMA MoveOrder == TypeInv /\ PlaceInv /\ FreshInv /\ OrderInv /\ (TakeClick \/ FocusMoves) => FreshInv' /\ OrderInv'
<1> SUFFICES ASSUME TypeInv, PlaceInv, FreshInv, OrderInv, TakeClick \/ FocusMoves PROVE FreshInv' /\ OrderInv'
    OBVIOUS
<1> DEFINE s == ServiceOf[focus]
<1>1. TypeOK /\ focus \in Windows
    BY DEF TypeInv, TypeOK
<1>2. PICK w \in alive : FocusTo(w)
    BY <1>1 DEF TakeClick, FocusMoves, TypeOK
<1>3. focus' = w /\ UNCHANGED <<active, slot, timer, resent, failed>>
    BY <1>2 DEF FocusTo
<1>4. /\ SentKept
      /\ \A x, y : Pre(input', x, y) => Pre(input, x, y)
      /\ \A x : In(input', x) => In(input, x)
    <2>1. CASE TakeClick
        BY <1>1, <2>1, TailOrder DEF TakeClick
    <2>2. CASE FocusMoves
        BY <2>2 DEF FocusMoves, SentKept
    <2> QED BY <2>1, <2>2
<1>5. \/ /\ Serviced /\ docs' = DocsAfter(focus, composing[s]) /\ posted' = PostedAfter(focus, composing[s])
         /\ composing' = [composing EXCEPT ![s] = NoKey]
      \/ (Serviced => w = focus) /\ UNCHANGED <<docs, posted, composing>>
    BY <1>2 DEF FocusTo
<1>6. TextsOnly
    BY <1>1, <1>5, ServicedType, CommitOrder, QuietOrder
<1>7. ASSUME NEW z \in Services, composing'[z] # NoKey
      PROVE  z = ServiceOf[focus'] /\ z \in active' /\ \A k \in DOMAIN resent : k < composing'[z]
    <2>1. CASE Serviced /\ composing' = [composing EXCEPT ![s] = NoKey]
        <3>1. composing \in [Services -> Events \union {NoKey}]
            BY <1>1 DEF TypeOK
        <3>2. z # s /\ composing[z] # NoKey
            BY <1>7, <2>1, <3>1
        <3> QED BY <3>2 DEF FreshInv
    <2>2. CASE (Serviced => w = focus) /\ UNCHANGED composing
        <3>1. z = s /\ s \in active /\ \A k \in DOMAIN resent : k < composing[z]
            BY <1>7, <2>2 DEF FreshInv
        <3> QED BY <1>3, <2>2, <3>1 DEF Serviced
    <2> QED BY <1>5, <2>1, <2>2
<1>8. FreshInv'
    BY <1>3, <1>4, <1>7, FreshKept
<1> QED BY <1>3, <1>4, <1>6, <1>8, OrderMoves

LEMMA PostedOrder ==
    TypeInv /\ PlaceInv /\ FreshInv /\ OrderInv /\ (\E w \in Windows : TakePosted(w) \/ Destroy(w))
        => FreshInv' /\ OrderInv'
<1> SUFFICES ASSUME TypeInv, PlaceInv, FreshInv, OrderInv, NEW w \in Windows, TakePosted(w) \/ Destroy(w)
             PROVE  FreshInv' /\ OrderInv'
    OBVIOUS
<1>1. TypeOK /\ UNCHANGED <<focus, active, composing, input, slot, timer, resent, failed>>
      /\ DOMAIN resent \subseteq Events
    BY DEF TypeInv, TypeOK, TakePosted, Destroy
<1>2. FreshInv' /\ SentKept
    BY <1>1 DEF FreshInv, SentKept
<1>3. CASE Destroy(w)
    <2>1. docs' = docs /\ posted \in [Windows -> Seq(Items)] /\ posted' = [posted EXCEPT ![w] = <<>>]
        BY <1>1, <1>3 DEF Destroy, TypeOK
    <2>2. posted'[w] = <<>> /\ \A v \in Windows \ {w} : posted'[v] = posted[v]
        BY <2>1
    <2>3. \A x, y : ~In(<<>>, x) /\ ~Pre(<<>>, x, y)
        BY DEF In, Pre
    <2>4. \A v \in Windows : \A a, b : Before(docs', posted', v, a, b) => Before(docs, posted, v, a, b)
        BY <2>1, <2>2, <2>3 DEF Before
    <2>5. \A v \in Windows : \A a : In(posted'[v], a) => In(posted[v], a)
        BY <2>2, <2>3
    <2>6. TextsOnly
        BY <2>1, <2>4, <2>5 DEF TextsOnly
    <2> QED BY <1>1, <1>2, <2>6, OrderMoves
<1>4. CASE TakePosted(w)
    <2> DEFINE item == Head(posted[w])
    <2>1. /\ posted[w] # <<>> /\ docs' = Put(docs, w, item) /\ posted' = [posted EXCEPT ![w] = Tail(@)]
          /\ posted \in [Windows -> Seq(Items)] /\ docs \in [Windows -> Seq(Items)] /\ posted[w] \in Seq(Items)
        BY <1>1, <1>4 DEF TakePosted, TypeOK
    <2>2. /\ posted'[w] = Tail(posted[w]) /\ \A v \in Windows \ {w} : posted'[v] = posted[v]
          /\ docs'[w] = Append(docs[w], item) /\ \A v \in Windows \ {w} : docs'[v] = docs[v]
        BY <2>1 DEF Put
    <2>3. /\ item \in Items /\ In(posted[w], item) /\ docs[w] \in Seq(Items)
          /\ \A x : In(Tail(posted[w]), x) => In(posted[w], x) /\ Pre(posted[w], item, x)
          /\ \A x, y : Pre(Tail(posted[w]), x, y) => Pre(posted[w], x, y)
        BY <2>1, InTail, PreTail
    <2>4. /\ \A x : In(docs'[w], x) => In(docs[w], x) \/ x = item
          /\ \A x, y : Pre(docs'[w], x, y) => Pre(docs[w], x, y) \/ (In(docs[w], x) /\ y = item)
        BY <2>2, <2>3, InAppend, PreAppend
    <2> HIDE DEF item
    <2>5. \A a, b : Before(docs', posted', w, a, b) => Before(docs, posted, w, a, b)
        BY <2>2, <2>3, <2>4 DEF Before
    <2>6. \A v \in Windows : \A a, b : Before(docs', posted', v, a, b) => Before(docs, posted, v, a, b)
        BY <2>2, <2>5 DEF Before
    <2>7. \A v \in Windows : \A a : In(posted'[v], a) => In(posted[v], a)
        BY <2>2, <2>3
    <2>8. ASSUME ~failed, NEW v \in Windows, NEW a \in DOMAIN resent, In(docs'[v], Key(a))
          PROVE  In(docs[v], Key(a)) \/ v \in EditFamily
        <3>1. CASE v = w /\ Key(a) = item
            BY <1>1, <2>3, <2>8, <3>1, QueuesNow DEF OrderInv, Ordered, PostedHome
        <3> QED BY <2>2, <2>4, <2>8, <3>1
    <2>9. ~failed => TextsOnly
        BY <2>6, <2>7, <2>8 DEF TextsOnly
    <2> QED BY <1>1, <1>2, <2>9, OrderMoves
<1> QED BY <1>3, <1>4

\* Only what is on its way and whether a call has failed matters.
LEMMA OrderSame ==
    ASSUME NEW q, NEW r, NEW ds, NEW typedIn, Ordered(q, ds, typedIn),
           r.input = q.input, r.posted = q.posted, q.failed => r.failed
    PROVE  Ordered(r, ds, typedIn)
BY DEF Ordered, SentInOrder, SentLast, PostedHome, KeysInOrder, TextAfter

\* The key in the slot is the last.
LEMMA SlotIsLast ==
    ASSUME TypeInv, OnceInv, FreshInv, timer, slot.key \in DOMAIN resent
    PROVE  Last(Now, docs, resent, slot.key)
<1>1. Nowhere(Now, slot.key) /\ NoneOf(docs, Key(slot.key))
    BY DEF OnceInv, Placed, Waits
<1>2. \A a \in DOMAIN resent : a <= slot.key /\ a \in Nat
    BY ResendAssumption DEF FreshInv, TypeInv, TypeOK, Events
<1> QED BY <1>1, <1>2 DEF Last, Nowhere, NoneOf

LEMMA SlotSentOrder ==
    ASSUME TypeInv, PlaceInv, OnceInv, FreshInv, OrderInv, timer, timer' = FALSE, UNCHANGED <<docs, resent>>,
           \E r \in ResendKeyNow(slot.key, slot.target, Now) : Become(r),
           \A s \in Services : composing'[s] # NoKey =>
               s = ServiceOf[focus'] /\ s \in active' /\ composing'[s] = composing[s]
    PROVE  FreshInv' /\ OrderInv'
<1> DEFINE k == slot.key
<1>1. /\ TypeOK /\ IsQueues(Now) /\ k \in Events /\ k \in DOMAIN resent /\ DOMAIN resent \subseteq Events
      /\ Underway(Now, resent) /\ (~Now.failed => slot.target = resent[k]) /\ Ordered(Now, docs, resent)
    BY QueuesType, QueuesNow DEF TypeInv, TypeOK, PlaceInv, Now, OrderInv
<1>2. PICK r \in ResendKeyNow(k, slot.target, Now) : Become(r)
    OBVIOUS
<1>3. input' = r.input /\ Now'.input = r.input /\ Now'.posted = r.posted /\ Now'.failed = r.failed
    BY <1>2, QueuesNow DEF Become
<1>4. UsersOrder(r, Now) /\ Now.input = input
    BY <1>1, <1>2, FreshSend, QueuesNow
<1>5. FreshInv'
    <2>1. \A s \in Services : composing'[s] # NoKey =>
            s = ServiceOf[focus'] /\ s \in active' /\ \A j \in DOMAIN resent : j < composing'[s]
        BY DEF FreshInv
    <2> QED BY <1>3, <1>4, <2>1, FreshKept DEF UsersOrder
<1>6. Last(Now, docs, resent, k)
    BY <1>1, SlotIsLast
<1>7. Ordered(r, docs, resent)
    BY <1>1, <1>2, <1>6, OrderSend
<1>8. Ordered(Now', docs, resent)
    BY <1>3, <1>7, OrderSame
<1> QED BY <1>5, <1>8, OrderAfter

LEMMA InstanceOrder ==
    TypeInv /\ PlaceInv /\ OnceInv /\ FreshInv /\ OrderInv /\ (\E s \in Services : Activate(s) \/ Deactivate(s))
        => FreshInv' /\ OrderInv'
<1> SUFFICES ASSUME TypeInv, PlaceInv, OnceInv, FreshInv, OrderInv, NEW s \in Services, Activate(s) \/ Deactivate(s)
             PROVE  FreshInv' /\ OrderInv'
    OBVIOUS
<1>1. /\ composing \in [Services -> Events \union {NoKey}] /\ UNCHANGED <<focus, docs, resent>>
      /\ composing' \in {composing, [composing EXCEPT ![s] = NoKey]}
      /\ active' \in {active \union {s}, active \ {s}}
      /\ active' = active \ {s} => composing' = [composing EXCEPT ![s] = NoKey]
    BY DEF Activate, Deactivate, TypeInv, TypeOK
<1>2. ASSUME NEW z \in Services, composing'[z] # NoKey
      PROVE  z = ServiceOf[focus'] /\ z \in active' /\ composing'[z] = composing[z]
    BY <1>1, <1>2 DEF FreshInv
<1>3. CASE Deactivate(s) /\ timer /\ IsOwn(s)
    BY <1>1, <1>2, <1>3, SlotSentOrder DEF Deactivate, Now
<1>4. CASE UNCHANGED <<timer, slot, input, posted, dropped, failed>>
    <2>1. \A z \in Services : composing'[z] # NoKey =>
            z = ServiceOf[focus'] /\ z \in active' /\ \A j \in DOMAIN resent : j < composing'[z]
        BY <1>2 DEF FreshInv
    <2>2. SentKept
        BY <1>4 DEF SentKept
    <2> QED BY <1>1, <1>4, <2>1, <2>2, QuietOrder, OrderMoves, FreshKept
<1> QED BY <1>3, <1>4 DEF Activate, Deactivate

\* The new key waits behind everything, or goes after a failure.
LEMMA ScheduleOrder ==
    ASSUME TypeInv, NEW n \in Events, NEW s, NEW q, IsQueues(q), NEW ds, NEW typedIn, Ordered(q, ds, typedIn),
           Schedule(n, s, q)
    PROVE  Ordered(Now', ds, typedIn) /\ UsersOrder(Now', q) /\ (timer' => slot'.key = n)
<1>1. TypeOK /\ IsQueues(Failed(q)) /\ Failed(q).input = q.input /\ Failed(q).failed
    BY FailType DEF TypeInv
<1>2. PICK target \in {focus} \union (IF MayFail THEN {NoWindow} ELSE {}) :
        /\ slot' = [key |-> n, target |-> target, owner |-> s]
        /\ \/ timer' = TRUE /\ Become(IF target = NoWindow THEN Failed(q) ELSE q)
           \/ MayFail /\ timer' = FALSE /\ \E r \in Untimed(n, target, Failed(q)) : Become(r)
    BY Zenon DEF Schedule
<1>3. slot'.key = n
    BY <1>2
<1>4. ASSUME NEW r, Become(r) PROVE Now'.input = r.input /\ Now'.posted = r.posted /\ Now'.failed = r.failed
    BY <1>4, QueuesNow DEF Become
<1>5. CASE Become(q)
    <2>1. Ordered(Now', ds, typedIn)
        BY <1>4, <1>5, OrderSame
    <2> QED BY <1>3, <1>4, <1>5, <2>1 DEF UsersOrder
<1>6. CASE Become(Failed(q))
    BY <1>1, <1>3, <1>4, <1>6 DEF UsersOrder, Ordered
<1>7. CASE \E r \in Untimed(n, target, Failed(q)) : Become(r)
    <2>1. PICK r \in ResendKeyNow(n, target, Failed(q)) : Become(r)
        BY <1>7 DEF Untimed
    <2>2. r.failed /\ UsersOrder(r, Failed(q))
        BY <1>1, <2>1, SendShape, FreshSend
    <2> QED BY <1>1, <1>3, <1>4, <2>1, <2>2 DEF UsersOrder, Ordered
<1> QED BY <1>2, <1>5, <1>6, <1>7

LEMMA EatOrder == TypeInv /\ PlaceInv /\ OnceInv /\ FreshInv /\ OrderInv /\ EatKey => FreshInv' /\ OrderInv'
<1> SUFFICES ASSUME TypeInv, PlaceInv, OnceInv, FreshInv, OrderInv, EatKey PROVE FreshInv' /\ OrderInv'
    OBVIOUS
<1> DEFINE s == ServiceOf[focus]
           h == Head(input)
           q == EatenQueues
           homes == EatenHomes
<1>0. PICK n \in Events : n = h.n
    BY HeadType DEF EatKey, TypeInv
<1>1. /\ TypeOK /\ focus \in Windows /\ input # <<>> /\ User(h) /\ h \in Inputs /\ Tail(input) \in Seq(Inputs)
      /\ s \in Services /\ s \in active /\ DOMAIN resent \subseteq Events /\ input \in Seq(Inputs)
      /\ composing[s] \in Events \union {NoKey}
    BY HeadType, ServicedType DEF EatKey, TypeInv, TypeOK, User
<1>2. /\ resent' = homes /\ docs' = DocsAfter(focus, composing[s])
      /\ composing' = [composing EXCEPT ![s] = NoKey] /\ \E r \in Emitted(q) : Schedule(n, s, r)
    BY <1>0 DEF EatKey, EatenQueues, EatenHomes
<1>3. homes = [k \in DOMAIN resent \union {n} |-> IF k = n THEN focus ELSE resent[k]]
    BY <1>0 DEF EatenHomes
<1>4. /\ IsQueues(q) /\ q.input = Tail(input) /\ q.failed = failed
      /\ q.posted = PostedAfter(focus, composing[s]) /\ q.dropped = dropped
      /\ Underway(q, homes) /\ Booked(q, homes)
    BY EatUnderway
<1>5. New(n) /\ In(input, h)
    <2>1. In(input, h)
        BY <1>1, InTail
    <2> QED BY <1>0, <1>1, <2>1 DEF PlaceInv
<1> HIDE DEF q, homes, h
<1>6. /\ \A x, y : Pre(Tail(input), x, y) => Pre(input, x, y)
      /\ \A x : In(Tail(input), x) => In(input, x) /\ Pre(input, h, x)
    BY <1>1, InTail, PreTail DEF h
<1>7. /\ \A v \in Windows : \A a : In(docs'[v], Key(a)) => In(docs[v], Key(a))
      /\ \A v \in Windows : \A a : In(q.posted[v], Key(a)) => In(posted[v], Key(a))
      /\ \A v \in Windows : \A a, b : Before(docs', q.posted, v, Key(a), b) =>
            Before(docs, posted, v, Key(a), b) \/ (composing[s] # NoKey /\ b = Text(composing[s]))
    <2>1. \A v \in Windows : \A a, b :
            Before(DocsAfter(focus, composing[s]), PostedAfter(focus, composing[s]), v, Key(a), b) =>
            Before(docs, posted, v, Key(a), b) \/ (composing[s] # NoKey /\ b = Text(composing[s]))
        BY <1>1, BeforeCommit
    <2> QED BY <1>1, <1>2, <1>4, <2>1, CommitMovesNoKey
<1>8. Ordered(q, docs', resent)
    <2>1. Underway(Now, resent) /\ Ordered(Now, docs, resent) /\ (Now.failed => q.failed)
          /\ Now.input = input /\ Now.posted = posted
        BY <1>4, QueuesNow DEF PlaceInv, Now, OrderInv
    <2>2. /\ \A a, b : Key(a) # Text(b)
          /\ \A a, b : Text(a) = Text(b) => a = b
        BY DEF Key, Text
    <2>3. composing[s] # NoKey => \A k \in DOMAIN resent : k < composing[s]
        BY <1>1 DEF FreshInv
    <2>4. \A w \in Windows : \A a \in DOMAIN resent : \A b \in Events :
            Before(docs', q.posted, w, Key(a), Text(b)) => Before(docs, posted, w, Key(a), Text(b)) \/ a < b
        BY <1>7, <2>2, <2>3
    <2>5. \A w \in Windows : \A a, b \in DOMAIN resent :
            Before(docs', q.posted, w, Key(a), Key(b)) => Before(docs, posted, w, Key(a), Key(b))
        BY <1>7, <2>2
    <2> QED BY <1>1, <1>4, <1>6, <1>7, <2>1, <2>4, <2>5, OrderCarried
<1>9. /\ ~In(Tail(input), Sent(n))
      /\ \A w \in Windows : ~In(q.posted[w], Key(n)) /\ ~In(docs'[w], Key(n))
    BY <1>5, <1>6, <1>7, QueuesNow DEF New, PlaceInv, Underway, Now
<1>10. Ordered(q, docs', homes)
    <2>1. n \notin DOMAIN resent
        BY <1>5 DEF New
    <2>2. ~In(q.input, Sent(n))
        BY <1>4, <1>9
    <2>3. Ordered(q, docs', [k \in DOMAIN resent \union {n} |-> IF k = n THEN focus ELSE resent[k]])
        BY <1>8, <1>9, <2>1, <2>2, OrderNewKey
    <2> QED BY <1>3, <2>3
<1>11. PICK r \in Emitted(q) : Schedule(n, s, r)
    BY <1>2
<1>12. IsQueues(r)
    BY <1>4, <1>11, EmittedType
<1>13. Ordered(r, docs', homes) /\ UsersOrder(r, q)
    <2>1. CASE ~timer
        BY <1>10, <1>11, <2>1 DEF Emitted, UsersOrder
    <2>2. CASE timer
        <3>1. /\ slot.key \in Events /\ slot.key \in DOMAIN resent /\ slot.key \in DOMAIN homes
              /\ r \in ResendKeyNow(slot.key, slot.target, q)
              /\ ~q.failed => slot.target = homes[slot.key]
            BY <1>4, <1>11, <2>2 DEF TypeInv, PlaceInv, Emitted, Booked
        <3>2. Last(Now, docs, resent, slot.key)
            BY <2>2, <3>1, SlotIsLast
        <3>3. Last(q, docs', homes, slot.key)
            BY <1>3, <1>4, <1>6, <1>7, <1>9, <3>2, QueuesNow DEF Last
        <3>4. DOMAIN homes \subseteq Events
            BY <1>1, <1>3
        <3>5. Ordered(r, docs', homes)
            BY <1>1, <1>4, <1>10, <3>1, <3>3, <3>4, OrderSend
        <3> QED BY <1>1, <1>4, <3>1, <3>5, FreshSend
    <2> QED BY <2>1, <2>2
<1>14. Ordered(Now', docs', homes) /\ UsersOrder(Now', r) /\ (timer' => slot'.key = n)
    BY <1>11, <1>12, <1>13, ScheduleOrder
<1>15. OrderInv'
    BY <1>2, <1>14, OrderAfter
<1>16. /\ \A x : User(x) /\ In(input', x) => In(Tail(input), x)
       /\ \A x, y : User(x) /\ User(y) /\ Pre(input', x, y) => Pre(Tail(input), x, y)
    BY <1>4, <1>13, <1>14, QueuesNow DEF UsersOrder
<1>17. DOMAIN resent' = DOMAIN resent \union {n} /\ \A k \in DOMAIN resent : k < n
    BY <1>0, <1>1, <1>2, <1>3, <1>5 DEF FreshInv
<1>18. \A x \in Inputs : In(input', x) /\ User(x) => \A k \in DOMAIN resent' : k < x.n
    BY <1>0, <1>1, <1>6, <1>16, <1>17 DEF FreshInv
<1>19. \A x, y \in Inputs : Pre(input', x, y) /\ User(x) /\ User(y) => x.n < y.n
    BY <1>6, <1>16 DEF FreshInv
<1>20. \A z \in Services : composing'[z] = NoKey
    <2>1. composing \in [Services -> Events \union {NoKey}]
        BY <1>1 DEF TypeOK
    <2>2. \A z \in Services : z # s => composing[z] = NoKey
        BY DEF FreshInv
    <2> QED BY <1>1, <1>2, <2>1, <2>2
<1>21. timer' => \A k \in DOMAIN resent' : k <= slot'.key
    BY <1>1, <1>14, <1>17, ResendAssumption DEF Events
<1> QED BY <1>15, <1>18, <1>19, <1>20, <1>21 DEF FreshInv, In, Pre

LEMMA NextOrder ==
    TypeInv /\ PlaceInv /\ OnceInv /\ FreshInv /\ OrderInv /\ [Next]_vars => FreshInv' /\ OrderInv'
<1> SUFFICES ASSUME TypeInv, PlaceInv, OnceInv, FreshInv, OrderInv, [Next]_vars PROVE FreshInv' /\ OrderInv'
    OBVIOUS
<1>1. CASE UNCHANGED vars
    <2>1. SentKept
        BY <1>1 DEF SentKept, vars
    <2>2. FreshInv'
        BY <1>1 DEF FreshInv, vars, In, Pre
    <2> QED BY <1>1, <2>1, <2>2, QuietOrder, OrderMoves DEF vars
<1>2. CASE ResendTimerProc
    <2>1. \A s \in Services : composing'[s] # NoKey =>
            s = ServiceOf[focus'] /\ s \in active' /\ composing'[s] = composing[s]
        BY <1>2 DEF ResendTimerProc, FreshInv
    <2> QED BY <1>2, <2>1, SlotSentOrder DEF ResendTimerProc, Now
<1>3. CASE Next /\ ~ResendTimerProc
    BY <1>3, PressFresh, PressOrder, JamoOrder, EatOrder, TakeKeyOrder, MoveOrder, PostedOrder, InstanceOrder, Zenon
       DEF Next, TakeInput
<1> QED BY <1>1, <1>2, <1>3

\* As long as no call has failed, a key sent again to an EDIT window comes after the text typed
\* before it, and the keys of a window come in the order in which they were typed.
THEOREM KeysComeInOrder == Spec => []KeysArriveInOrder
<1> DEFINE IInv == TypeInv /\ PlaceInv /\ OnceInv /\ FreshInv /\ OrderInv
<1>1. IInv => KeysArriveInOrder
    <2> SUFFICES ASSUME IInv PROVE KeyAfterItsText /\ ResentInOrder
        BY DEF KeysArriveInOrder
    <2>1. /\ posted \in [Windows -> Seq(Items)] /\ docs \in [Windows -> Seq(Items)] /\ DOMAIN resent \subseteq Events
          /\ Now.posted = posted /\ Now.failed = failed
        BY QueuesNow DEF TypeInv, TypeOK
    <2>2. KeyAfterItsText
        <3> SUFFICES ASSUME NEW w \in EditFamily, NEW k \in DOMAIN resent, NEW i \in DOMAIN docs[w],
                            ~failed, resent[k] = w, docs[w][i] = Key(k)
                     PROVE  /\ \A j \in i + 1 .. Len(docs[w]) : docs[w][j].kind = "text" => docs[w][j].n > k
                            /\ \A j \in DOMAIN posted[w] : posted[w][j].kind = "text" => posted[w][j].n > k
            BY DEF KeyAfterItsText
        <3>1. w \in Windows /\ TextAfter(Now, docs, resent) /\ docs[w] \in Seq(Items) /\ posted[w] \in Seq(Items)
            BY <2>1, ResendAssumption DEF OrderInv, Ordered
        <3>2. \A x \in Items : x.kind = "text" => x = Text(x.n) /\ x.n \in Events
            BY DEF Items, Text
        <3>3. \A b \in Events : Before(docs, posted, w, Key(k), Text(b)) => b > k
            BY <2>1, <3>1, ResendAssumption DEF TextAfter, Events
        <3>4. ASSUME NEW j \in i + 1 .. Len(docs[w]), docs[w][j].kind = "text" PROVE docs[w][j].n > k
            <4>1. j \in DOMAIN docs[w] /\ i < j /\ docs[w][j] \in Items
                BY <3>1
            <4>2. docs[w][j] = Text(docs[w][j].n) /\ docs[w][j].n \in Events
                BY <3>2, <3>4, <4>1
            <4>3. Before(docs, posted, w, Key(k), Text(docs[w][j].n))
                BY <4>1, <4>2 DEF Before, Pre
            <4> QED BY <3>3, <4>2, <4>3
        <3>5. ASSUME NEW j \in DOMAIN posted[w], posted[w][j].kind = "text" PROVE posted[w][j].n > k
            <4>1. posted[w][j] \in Items
                BY <3>1
            <4>2. posted[w][j] = Text(posted[w][j].n) /\ posted[w][j].n \in Events
                BY <3>2, <3>5, <4>1
            <4>3. Before(docs, posted, w, Key(k), Text(posted[w][j].n))
                BY <4>2 DEF Before, In
            <4> QED BY <3>3, <4>2, <4>3
        <3> QED BY <3>4, <3>5
    <2>3. ResentInOrder
        <3> SUFFICES ASSUME NEW w \in Windows, NEW i \in DOMAIN docs[w], NEW j \in DOMAIN docs[w],
                            ~failed, i < j, docs[w][i].kind = "key", docs[w][j].kind = "key",
                            docs[w][i].n \in DOMAIN resent, docs[w][j].n \in DOMAIN resent,
                            resent[docs[w][i].n] = w, resent[docs[w][j].n] = w
                     PROVE  docs[w][i].n < docs[w][j].n
            BY DEF ResentInOrder
        <3>1. docs[w][i] \in Items /\ docs[w][j] \in Items
            BY <2>1
        <3>2. docs[w][i] = Key(docs[w][i].n) /\ docs[w][j] = Key(docs[w][j].n)
            BY <3>1 DEF Items, Key
        <3>3. Before(docs, posted, w, Key(docs[w][i].n), Key(docs[w][j].n))
            BY <3>2 DEF Before, Pre
        <3> QED BY <2>1, <3>3 DEF OrderInv, Ordered, KeysInOrder
    <2> QED BY <2>2, <2>3
<1>2. Init => IInv
    BY InitTypes, InitPlaces, InitOnce, InitFresh
<1>3. IInv /\ [Next]_vars => IInv'
    BY NextTypes, NextPlaces, NextOnce, NextOrder
<1> QED BY <1>1, <1>2, <1>3, PTL DEF Spec
=============================================================================

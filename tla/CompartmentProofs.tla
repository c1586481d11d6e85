-------------------------- MODULE CompartmentProofs --------------------------
(***************************************************************************)
(* Proofs about Compartment, for any number of layouts, any choice of the  *)
(* Hangul ones and any choice of those whose body is read on first use.    *)
(* The inductive invariant Inv is built up in parts: the types and the     *)
(* active layout, then the coherence of the caches, then how far what is   *)
(* being published is up to date.                                          *)
(***************************************************************************)
EXTENDS Compartment, SequenceTheorems, TLAPS, WellFoundedInduction, NaturalsInduction

\* < as a relation, for the library's facts on well-founded relations.
LEMMA LessThan == \A x, y \in Nat : y < x => <<y, x>> \in OpToRel(<, Nat)
BY DEF OpToRel

\* A non-empty set of naturals has a least element, and Least names it.
LEMMA LeastIsLeast ==
    ASSUME NEW S \in SUBSET Nat, S # {}
    PROVE  Least(S) \in S /\ \A j \in S : Least(S) <= j
<1>1. PICK x \in S : \A y \in S : <<y, x>> \notin OpToRel(<, Nat)
    BY NatLessThanWellFounded, WFMin
<1>2. \A y \in S : x <= y
    <2> SUFFICES ASSUME NEW y \in S, y < x PROVE FALSE
        BY SMT
    <2>1. x \in Nat /\ y \in Nat
        OBVIOUS
    <2>2. <<y, x>> \in OpToRel(<, Nat)
        BY <2>1, LessThan, Zenon
    <2> QED BY <1>1, <2>2, Zenon
<1> QED BY <1>1, <1>2 DEF Least

\* The layout d places on is a layout.
LEMMA AfterType == \A i \in Layouts, d \in 1 .. N : After(i, d) \in Layouts
BY LayoutsAssumption DEF After, Layouts

\* Going around at most once reaches every layout.
LEMMA AfterReaches ==
    ASSUME NEW i \in Layouts, NEW j \in Layouts
    PROVE  \E d \in 1 .. N : After(i, d) = j
<1>1. CASE j > i
    <2>1. j - i \in 1 .. N /\ (i + (j - i)) = j /\ j % N = j
        BY <1>1, LayoutsAssumption DEF Layouts
    <2> QED BY <2>1 DEF After
<1>2. CASE j <= i
    <2>1. j - i + N \in 1 .. N /\ (i + (j - i + N)) = j + N
        BY <1>2, LayoutsAssumption DEF Layouts
    <2>2. (j + N) % N = j
        BY LayoutsAssumption DEF Layouts
    <2> QED BY <2>1, <2>2 DEF After
<1> QED BY <1>1, <1>2, LayoutsAssumption DEF Layouts

\* A search that can succeed stays among the layouts and ends in the set searched.
LEMMA NearestIn ==
    ASSUME NEW S \in SUBSET Layouts, S # {}, NEW i \in Layouts
    PROVE  Nearest(i, S) \in S
<1> DEFINE D == {d \in 1 .. N : After(i, d) \in S}
<1>1. PICK j \in S : TRUE
    OBVIOUS
<1>2. \E d \in 1 .. N : After(i, d) = j
    BY <1>1, AfterReaches
<1>3. D # {} /\ D \in SUBSET Nat
    BY <1>1, <1>2
<1>4. Least(D) \in D
    BY <1>3, LeastIsLeast
<1> QED BY <1>4 DEF Nearest

\* CompState_Values gives compartment values.
LEMMA ValuesType ==
    ASSUME NEW i, NEW b, NEW pt, NEW fw
    PROVE  Values(i, b, pt, fw) \in [open : Opens, conv : Convs]
BY DEF Values, Opens, Convs

\* Loading a body gives a body.
LEMMA EnsureBodyType ==
    ASSUME NEW i \in Layouts, NEW b \in [Layouts -> {"deferred", "loaded", "broken"}]
    PROVE  EnsureBody(i, b) \subseteq [Layouts -> {"deferred", "loaded", "broken"}]
BY DEF EnsureBody

\* Rotation and the choice for a request from outside land on an enabled layout.
LEMMA RotationIsEnabled ==
    ASSUME TypeOK, ActiveIsEnabled
    PROVE  NextEnabled \in Layouts /\ (enabled # {} => NextEnabled \in enabled)
BY NearestIn DEF TypeOK, NextEnabled

\* CompState_PickIndex picks a candidate when there is one.
LEMMA PickIsCandidate ==
    ASSUME TypeOK, NEW hangul \in BOOLEAN, PickIndex(hangul) # -1
    PROVE  PickIndex(hangul) \in Candidates(hangul)
<1>1. Candidates(hangul) \in SUBSET Layouts
    BY DEF TypeOK, Candidates
<1>2. Candidates(hangul) # {} => Nearest(cur, Candidates(hangul)) \in Candidates(hangul)
    BY <1>1, NearestIn DEF TypeOK
<1> QED BY <1>2 DEF PickIndex

\* Giving way to a request ends on an enabled layout of the wanted kind.
LEMMA AcceptType ==
    ASSUME TypeOK, NEW hangul \in BOOLEAN, NEW open, Accept(hangul, open)
    PROVE  cur' \in enabled /\ cur' \in Layouts /\ cur' \in Candidates(hangul)
BY PickIsCandidate DEF Accept, Candidates, TypeOK

\* A request more, or one less, that waits for the layout to be switched: the outermost
\* stays the same.
LEMMA Pushed ==
    ASSUME NEW S, NEW w \in Seq(S), NEW v \in S, NEW n, n = <<v>> \o w
    PROVE  /\ n \in Seq(S) /\ n # <<>>
           /\ w = <<>> => n[Len(n)] = v
           /\ w # <<>> => n[Len(n)] = w[Len(w)]
<1>1. <<v>> \in Seq(S) /\ Len(<<v>>) = 1
    OBVIOUS
<1>2. /\ n \in Seq(S) /\ Len(n) = 1 + Len(w)
      /\ \A i \in 1 .. 1 + Len(w) : n[i] = IF i <= 1 THEN <<v>>[i] ELSE w[i - 1]
    BY <1>1, ConcatProperties
<1>3. Len(w) \in Nat /\ (w = <<>> <=> Len(w) = 0) /\ <<v>>[1] = v
    BY EmptySeq
<1>4. n # <<>>
    <2>1. Len(n) # 0
        BY <1>2, <1>3
    <2> QED BY <2>1, EmptySeq
<1>5. CASE w = <<>>
    BY <1>2, <1>3, <1>4, <1>5
<1>6. CASE w # <<>>
    <2>1. n[1 + Len(w)] = w[1 + Len(w) - 1] /\ 1 + Len(w) - 1 = Len(w)
        BY <1>2, <1>3, <1>6
    <2> QED BY <2>1, <1>2, <1>4, <1>6
<1> QED BY <1>5, <1>6

LEMMA Popped ==
    ASSUME NEW S, NEW w \in Seq(S), w # <<>>
    PROVE  /\ Head(w) \in S /\ Tail(w) \in Seq(S)
           /\ Tail(w) = <<>> => Head(w) = w[Len(w)]
           /\ Tail(w) # <<>> => Tail(w)[Len(Tail(w))] = w[Len(w)]
<1>1. /\ Len(w) \in Nat \ {0} /\ Head(w) = w[1] /\ w[1] \in S
      /\ Tail(w) \in Seq(S) /\ Len(Tail(w)) = Len(w) - 1
      /\ \A i \in 1 .. Len(w) - 1 : Tail(w)[i] = w[i + 1]
    BY EmptySeq, HeadTailProperties
<1>2. Tail(w) = <<>> <=> Len(Tail(w)) = 0
    BY <1>1, EmptySeq
<1>3. CASE Tail(w) = <<>>
    BY <1>1, <1>2, <1>3
<1>4. CASE Tail(w) # <<>>
    <2>1. Len(w) - 1 \in 1 .. Len(w) - 1
        BY <1>1, <1>2, <1>4
    <2>2. Tail(w)[Len(w) - 1] = w[Len(w) - 1 + 1] /\ Len(w) - 1 + 1 = Len(w)
        BY <2>1, <1>1
    <2> QED BY <2>2, <1>1, <1>4
<1> QED BY <1>3, <1>4

\* What waits: a request that is let in waits for its switch, and stores once.
LEMMA WaitingStep ==
    ASSUME TypeOK, [Next]_vars PROVE WaitingOK'
<1>1. /\ waiting \in Seq(Opens \union {-1})
      /\ pc = "switched" => waiting # <<>>
      /\ pc = "idle" => waiting = <<>>
    BY DEF TypeOK, WaitingOK
<1>2. CASE UNCHANGED <<waiting, pc>>
    BY <1>1, <1>2 DEF WaitingOK
<1>3. CASE waiting' = waiting /\ pc' \in {"publish", "writeOpen", "writeConv"}
    BY <1>1, <1>3 DEF WaitingOK
<1>4. CASE Finished
    BY <1>1, <1>4 DEF Finished, WaitingOK
<1>5. CASE Switched
    <2>1. pc' = "publish" /\ waiting' = Tail(waiting) /\ waiting # <<>>
        BY <1>1, <1>5 DEF Switched
    <2>2. Tail(waiting) \in Seq(Opens \union {-1})
        BY <2>1, <1>1, Popped
    <2> QED BY <2>1, <2>2 DEF WaitingOK
<1>6. ASSUME NEW hangul, NEW v \in Opens \union {-1}, Accept(hangul, v) PROVE WaitingOK'
    <2>1. pc' = "switched" /\ waiting' = <<v>> \o waiting
        BY <1>6 DEF Accept
    <2>2. waiting' \in Seq(Opens \union {-1}) /\ waiting' # <<>>
        BY <2>1, <1>1, Pushed
    <2> QED BY <2>1, <2>2 DEF WaitingOK
<1>7. CASE ExternalOpen
    <2>1. PICK v \in Opens : ReceiveOpen(v)
        BY <1>7 DEF ExternalOpen
    <2>2. CASE Accept(v # 0, v)
        BY <2>2, <1>6
    <2> QED BY <2>1, <2>2, <1>2, <1>3 DEF ReceiveOpen, Refuse, ThenPublish, control
<1>8. CASE ExternalConv
    <2>1. PICK v \in AskedConvs : ReceiveConv(v)
        BY <1>8 DEF ExternalConv
    <2>2. CASE Accept(Native(v), cpLastOpen)
        BY <2>2, <1>6 DEF TypeOK
    <2> QED BY <2>1, <2>2, <1>2, <1>3 DEF ReceiveConv, Refuse, ThenPublish, control
<1>9. CASE PublishRead \/ WriteOpen \/ WriteConv
    BY <1>9, <1>3, <1>4 DEF PublishRead, WriteOpen, WriteConv
<1>10. CASE Activate \/ Rotate \/ SetPassthrough \/ Focus
    BY <1>10, <1>3 DEF Activate, Rotate, SetPassthrough, Focus, ThenPublish
<1>11. CASE UseLayout \/ SettingsApply \/ OtherProcess \/ Unheard \/ UNCHANGED vars
    BY <1>11, <1>2 DEF UseLayout, SettingsApply, OtherProcess, Unheard, vars, control
<1> QED BY <1>5, <1>7, <1>8, <1>9, <1>10, <1>11 DEF Next

\* The initial states have their types.
LEMMA InitType == Init => TypeOK /\ ActiveIsEnabled
<1> SUFFICES ASSUME Init PROVE TypeOK /\ ActiveIsEnabled
    OBVIOUS
<1>1. enabled \in SUBSET Layouts /\ cur \in Layouts /\ (enabled # {} => cur \in enabled)
    <2>1. enabled \in SUBSET Layouts /\ Layouts \in SUBSET Nat /\ 0 \in Layouts
        BY LayoutsAssumption DEF Init, Layouts
    <2>2. enabled # {} => Least(enabled) \in enabled
        BY <2>1, LeastIsLeast
    <2> QED BY <2>1, <2>2 DEF Init
<1>2. body \in [Layouts -> {"deferred", "loaded", "broken"}]
    BY DEF Init
<1>3. want \in [open : Opens, conv : Convs]
    BY DEF Init, Nothing, Opens, Convs
<1>4. WaitingOK
    BY DEF Init, WaitingOK
<1> QED BY <1>1, <1>2, <1>3, <1>4, LayoutsAssumption DEF Init, Convs, Compartments, TypeOK, ActiveIsEnabled

\* What the end of a handler leaves.
LEMMA FinishedType ==
    ASSUME TypeOK, Finished
    PROVE  /\ pc' \in {"idle", "publish", "switched"} /\ again' \in BOOLEAN
           /\ locked' \in BOOLEAN /\ want' \in [open : Opens, conv : Convs]
<1>1. want' \in [open : Opens, conv : Convs]
    BY DEF Finished, Nothing, Opens, Convs
<1>2. again' \in BOOLEAN /\ locked' \in BOOLEAN
    BY DEF Finished, TypeOK
<1>3. CASE again
    BY <1>3, <1>1, <1>2 DEF Finished
<1>4. CASE ~again
    BY <1>4, <1>1, <1>2 DEF Finished
<1> QED BY <1>3, <1>4

\* Every step keeps the types and the active layout enabled.
LEMMA TypeStep == TypeOK /\ ActiveIsEnabled /\ [Next]_vars => TypeOK' /\ ActiveIsEnabled'
<1> SUFFICES ASSUME TypeOK, ActiveIsEnabled, [Next]_vars PROVE TypeOK' /\ ActiveIsEnabled'
    OBVIOUS
<1>w. WaitingOK'
    BY WaitingStep
<1> USE DEF config, outside, cache, control, ghosts, ThenPublish
<1>1. CASE Activate
    BY <1>w, <1>1 DEF Activate, TypeOK, ActiveIsEnabled
<1>2. CASE Rotate
    <2>1. NextEnabled \in Layouts /\ (enabled # {} => NextEnabled \in enabled)
        BY RotationIsEnabled
    <2> QED BY <1>w, <1>2, <2>1 DEF Rotate, TypeOK, ActiveIsEnabled
<1>3. CASE SetPassthrough
    BY <1>w, <1>3 DEF SetPassthrough, TypeOK, ActiveIsEnabled
<1>4. CASE Focus
    BY <1>w, <1>4 DEF Focus, TypeOK, ActiveIsEnabled
<1>5. CASE UseLayout
    <2>1. body' \in [Layouts -> {"deferred", "loaded", "broken"}]
        BY <1>w, <1>5, EnsureBodyType DEF UseLayout, TypeOK
    <2> QED BY <1>w, <1>5, <2>1 DEF UseLayout, TypeOK, ActiveIsEnabled
<1>6. CASE ExternalOpen
    <2>1. PICK v \in Opens : ReceiveOpen(v)
        BY <1>w, <1>6 DEF ExternalOpen
    <2>4. Overwritten \subseteq Compartments
        BY DEF Overwritten, Compartments
    <2>5. /\ cpOpen' \in Opens /\ cpConv' \in Convs /\ missed' \in SUBSET Compartments
          /\ cpLastOpen' = cpLastOpen /\ cpLastConv' = cpLastConv
          /\ has' = has /\ advised' = advised /\ passthrough' = passthrough
          /\ regPassthrough' = regPassthrough /\ stale' = stale /\ refused' \in BOOLEAN
        BY <2>1, <2>4 DEF ReceiveOpen, TypeOK
    <2>2. CASE v = cpLastOpen \/ Refuse(v # 0)
        <3>1. /\ enabled' = enabled /\ cur' = cur /\ body' = body /\ fullWidth' = fullWidth
              /\ pc' \in {"idle", "publish", "switched", "writeOpen", "writeConv"}
              /\ again' \in BOOLEAN /\ locked' \in BOOLEAN /\ want' = want
            BY <2>1, <2>2 DEF ReceiveOpen, Refuse, Accept, TypeOK
        <3> QED BY <2>5, <3>1, <1>w DEF TypeOK, ActiveIsEnabled
    <2>3. CASE v # cpLastOpen /\ Accept(v # 0, v)
        BY <2>1, <2>3, <2>4, <1>w, AcceptType DEF ReceiveOpen, Refuse, Accept, TypeOK, ActiveIsEnabled
    <2> QED BY <2>1, <2>2, <2>3 DEF ReceiveOpen
<1>7. CASE ExternalConv
    <2>1. PICK v \in AskedConvs : ReceiveConv(v)
        BY <1>w, <1>7 DEF ExternalConv
    <2>4. v \in Convs
        BY LayoutsAssumption
    <2>5. /\ cpConv' \in Convs /\ cpOpen' = cpOpen /\ missed' \in SUBSET Compartments
          /\ cpLastOpen' = cpLastOpen /\ cpLastConv' \in Convs
          /\ has' = has /\ advised' = advised /\ passthrough' = passthrough
          /\ regPassthrough' = regPassthrough /\ stale' = stale /\ refused' = refused
        BY <2>1, <2>4 DEF ReceiveConv, NoteConv, TypeOK
    <2>2. CASE v = cpLastConv \/ Refuse(Native(v))
        <3>1. /\ enabled' = enabled /\ cur' = cur /\ body' = body /\ fullWidth' = fullWidth
              /\ pc' \in {"idle", "publish", "switched", "writeOpen", "writeConv"}
              /\ again' \in BOOLEAN /\ locked' \in BOOLEAN /\ want' = want
            BY <2>1, <2>2 DEF ReceiveConv, Refuse, Accept, TypeOK
        <3> QED BY <2>5, <3>1, <1>w DEF TypeOK, ActiveIsEnabled
    <2>3. CASE v # cpLastConv /\ Accept(Native(v), cpLastOpen)
        <3>1. Native(v) \in BOOLEAN
            BY DEF Native
        <3> QED BY <2>1, <2>3, <2>4, <3>1, <1>w, AcceptType DEF ReceiveConv, NoteConv, Refuse, Accept, TypeOK, ActiveIsEnabled
    <2> QED BY <2>1, <2>2, <2>3 DEF ReceiveConv
<1>8. CASE PublishRead
    <2>1. CASE has = {}
        <3>1. /\ pc' \in {"idle", "publish", "switched"} /\ again' \in BOOLEAN
              /\ locked' \in BOOLEAN /\ want' \in [open : Opens, conv : Convs]
            BY <1>8, <2>1, FinishedType DEF PublishRead
        <3> QED BY <1>w, <1>8, <2>1, <3>1 DEF PublishRead, TypeOK, ActiveIsEnabled
    <2>2. CASE has # {}
        <3>1. body' \in [Layouts -> {"deferred", "loaded", "broken"}]
            BY <1>w, <1>8, <2>2, EnsureBodyType DEF PublishRead, TypeOK
        <3>2. want' \in [open : Opens, conv : Convs]
            BY <1>w, <1>8, <2>2, ValuesType DEF PublishRead
        <3> QED BY <1>w, <1>8, <2>2, <3>1, <3>2 DEF PublishRead, TypeOK, ActiveIsEnabled
    <2> QED BY <2>1, <2>2
<1>9. CASE WriteOpen
    <2>1. want.open \in Opens
        BY DEF TypeOK
    <2>2. Overwritten \subseteq Compartments
        BY DEF Overwritten, Compartments
    <2>3. missed' \in SUBSET Compartments
        BY <1>9, <2>2 DEF WriteOpen, Left, Compartments, TypeOK
    <2>4. /\ cpOpen' \in Opens /\ cpConv' \in Convs /\ stale' \in BOOLEAN /\ refused' \in BOOLEAN
          /\ cpLastOpen' \in Opens \union {-1}
        BY <1>9, <2>1, LayoutsAssumption DEF WriteOpen, AfterFailure, TypeOK
    <2> QED BY <1>w, <1>9, <2>3, <2>4 DEF WriteOpen, TypeOK, ActiveIsEnabled
<1>10. CASE WriteConv
    <2>1. want.conv \in Convs
        BY DEF TypeOK
    <2>2. /\ pc' \in {"idle", "publish", "switched"} /\ again' \in BOOLEAN
          /\ locked' \in BOOLEAN /\ want' \in [open : Opens, conv : Convs]
        BY <1>10, FinishedType DEF WriteConv
    <2>3. cpLastConv' \in Convs \union {-1}
        BY <1>w, <1>10, <2>1 DEF WriteConv, AfterFailure, TypeOK
    <2>5. cpOpen' \in Opens /\ cpConv' \in Convs /\ stale' \in BOOLEAN /\ refused' \in BOOLEAN
        <3>1. /\ cpConv' = cpConv \/ cpConv' \in {want.conv} \union AskedConvs
              /\ cpOpen' = cpOpen \/ cpOpen' \in Opens
              /\ stale' = stale \/ stale' = TRUE
              /\ refused' = refused
            BY <1>10 DEF WriteConv
        <3>2. cpConv \in Convs /\ cpOpen \in Opens /\ stale \in BOOLEAN /\ refused \in BOOLEAN
            BY DEF TypeOK
        <3>3. cpOpen' \in Opens /\ cpConv' \in Convs
            BY <3>1, <3>2, <2>1, LayoutsAssumption
        <3>4. stale' \in BOOLEAN /\ refused' \in BOOLEAN
            BY <3>1, <3>2, Zenon
        <3> QED BY <3>3, <3>4
    <2>4. missed' \in SUBSET Compartments
        BY <1>w, <1>10 DEF WriteConv, Left, Compartments, TypeOK
    <2> QED BY <1>w, <1>10, <2>2, <2>3, <2>4, <2>5 DEF WriteConv, TypeOK, ActiveIsEnabled
<1>11. CASE SettingsApply
    <2>1. PICK on \in Choices, edited \in Layouts :
            /\ enabled' = IF on = {} THEN {0} ELSE on
            /\ cur' = IF edited \in enabled' THEN edited ELSE Least(enabled')
        BY <1>w, <1>11 DEF SettingsApply
    <2>2. enabled' \in SUBSET Layouts /\ enabled' # {} /\ Layouts \in SUBSET Nat
        BY <2>1, LayoutsAssumption DEF Layouts
    <2>3. enabled' \in SUBSET Nat
        BY <2>2
    <2>4. Least(enabled') \in enabled'
        BY <2>2, <2>3, LeastIsLeast
    <2>5. cur' \in enabled' /\ cur' \in Layouts
        BY <2>1, <2>2, <2>4
    <2> QED BY <1>w, <1>11, <2>2, <2>5, LayoutsAssumption DEF SettingsApply, TypeOK, ActiveIsEnabled
<1>12. CASE OtherProcess
    BY <1>w, <1>12 DEF OtherProcess, TypeOK, ActiveIsEnabled
<1>13. CASE Unheard
    <2>1. /\ cpOpen' \in Opens /\ cpConv' \in Convs /\ missed' \in SUBSET Compartments
        BY <1>13, LayoutsAssumption DEF Unheard, TypeOK, Compartments
    <2> QED BY <1>w, <1>13, <2>1 DEF Unheard, TypeOK, ActiveIsEnabled
<1>15. CASE Switched
    BY <1>w, <1>15, Popped DEF Switched, WaitingOK, TypeOK, ActiveIsEnabled
<1>14. CASE UNCHANGED vars
    BY <1>w, <1>14 DEF vars, TypeOK, ActiveIsEnabled
<1> QED BY <1>1, <1>2, <1>3, <1>4, <1>5, <1>6, <1>7, <1>8, <1>9, <1>10, <1>11, <1>12, <1>13, <1>14, <1>15 DEF Next

-----------------------------------------------------------------------------
\* The caches, through every step.
\* The outermost request that switches the layout stores what still stands in its compartment.
StoresWhatIsThere ==
    waiting # <<>> /\ "open" \in advised /\ "open" \notin missed /\ ~refused =>
        waiting[Len(waiting)] \in {-1, cpOpen}

Coherent == ConvCacheCoherent /\ OpenCacheCoherent /\ StoresWhatIsThere

\* Initially no compartment has been published.
LEMMA InitCoherent == Init => Coherent
BY DEF Init, Coherent, ConvCacheCoherent, OpenCacheCoherent, StoresWhatIsThere

\* Every step keeps the caches coherent with the compartments.
LEMMA CoherentStep == TypeOK /\ Coherent /\ [Next]_vars => Coherent'
<1> SUFFICES ASSUME TypeOK, Coherent, [Next]_vars PROVE Coherent'
    OBVIOUS
<1> USE DEF Coherent, ConvCacheCoherent, OpenCacheCoherent, StoresWhatIsThere,
            config, outside, cache, control, ghosts, ThenPublish
<1>w. /\ waiting \in Seq(Opens \union {-1})
      /\ pc = "switched" => waiting # <<>>
      /\ pc = "idle" => waiting = <<>>
    BY DEF TypeOK, WaitingOK
<1>1. CASE Activate
    BY <1>1, <1>w DEF Activate
<1>2. CASE Rotate
    BY <1>2 DEF Rotate
<1>3. CASE SetPassthrough
    BY <1>3 DEF SetPassthrough
<1>4. CASE Focus
    BY <1>4 DEF Focus
<1>5. CASE UseLayout
    BY <1>5 DEF UseLayout
<1>6. CASE ExternalOpen
    <2>1. PICK v \in Opens : ReceiveOpen(v)
        BY <1>6 DEF ExternalOpen
    <2>2. waiting # <<>> => "open" \in missed'
        BY <2>1 DEF ReceiveOpen, Overwritten
    <2>3. ConvCacheCoherent'
        BY <2>1 DEF ReceiveOpen, Overwritten
    <2>4. CASE Accept(v # 0, v) /\ waiting = <<>>
        <3>1. waiting' = <<v>> \o waiting
            BY <2>4 DEF Accept
        <3>2. waiting' # <<>> /\ waiting'[Len(waiting')] = v
            BY <3>1, <2>4, <1>w, Pushed
        <3> QED BY <3>2, <2>1, <2>3 DEF ReceiveOpen
    <2>5. CASE v = cpLastOpen \/ Refuse(v # 0)
        BY <2>1, <2>2, <2>3, <2>5 DEF ReceiveOpen, Accept, Refuse
    <2>6. CASE waiting # <<>>
        BY <2>2, <2>3, <2>6
    <2> QED BY <2>1, <2>4, <2>5, <2>6 DEF ReceiveOpen
<1>7. CASE ExternalConv
    <2>1. PICK v \in AskedConvs : ReceiveConv(v)
        BY <1>7 DEF ExternalConv
    <2>2. ConvCacheCoherent'
        BY <2>1 DEF ReceiveConv, NoteConv
    <2>3. ("open" \in missed' <=> "open" \in missed) /\ refused' = refused /\ cpOpen' = cpOpen
          /\ cpLastOpen' = cpLastOpen /\ advised' = advised
        BY <2>1 DEF ReceiveConv
    <2>4. CASE Accept(Native(v), cpLastOpen)
        <3>1. waiting' = <<cpLastOpen>> \o waiting /\ cpLastOpen \in Opens \union {-1}
            BY <2>4 DEF Accept, TypeOK
        <3>2. /\ waiting' # <<>>
              /\ waiting = <<>> => waiting'[Len(waiting')] = cpLastOpen
              /\ waiting # <<>> => waiting'[Len(waiting')] = waiting[Len(waiting)]
            BY <3>1, <1>w, Pushed
        <3> QED BY <3>2, <2>2, <2>3
    <2>5. CASE waiting' = waiting
        BY <2>5, <2>2, <2>3
    <2> QED BY <2>1, <2>4, <2>5 DEF ReceiveConv, Refuse
<1>8. CASE PublishRead
    BY <1>8 DEF PublishRead, Finished
<1>9. CASE WriteOpen
    <2>1. waiting' = waiting /\ has' = has /\ advised' = advised /\ cpLastConv' = cpLastConv
        BY <1>9 DEF WriteOpen
    <2>2. CASE UNCHANGED <<cpOpen, cpConv, missed, refused, cpLastOpen>>
        BY <2>1, <2>2
    <2>3. CASE /\ missed' = (missed \ {"open"}) \union Left("open", cpOpen' # want.open)
                                  \union Left("conv", cpConv' # cpConv) \union Overwritten
               /\ cpLastOpen' = want.open
        <3>1. waiting # <<>> => "open" \in missed'
            BY <2>3 DEF Overwritten
        <3>2. cpOpen' # want.open => "open" \in missed'
            BY <2>3 DEF Left
        <3>3. "conv" \notin missed' => "conv" \notin missed /\ cpConv' = cpConv
            BY <2>3 DEF Left
        <3> QED BY <2>1, <2>3, <3>1, <3>2, <3>3
    <2> QED BY <1>9, <2>2, <2>3 DEF WriteOpen, AfterFailure
<1>10. CASE WriteConv
    <2>1. waiting' = waiting /\ has' = has /\ advised' = advised /\ cpLastOpen' = cpLastOpen
        BY <1>10 DEF WriteConv, Finished
    <2>2. CASE UNCHANGED <<cpOpen, cpConv, missed, refused, cpLastConv>>
        BY <2>1, <2>2
    <2>3. CASE /\ missed' = (missed \ {"conv"}) \union Left("conv", cpConv' # want.conv)
                                  \union Left("open", cpOpen' # cpOpen)
               /\ cpLastConv' = want.conv /\ refused' = refused
        <3>1. cpConv' # want.conv => "conv" \in missed'
            BY <2>3 DEF Left
        <3>2. "open" \notin missed' => "open" \notin missed /\ cpOpen' = cpOpen
            BY <2>3 DEF Left
        <3> QED BY <2>1, <2>3, <3>1, <3>2
    <2> QED BY <1>10, <2>2, <2>3 DEF WriteConv, AfterFailure
<1>11. CASE SettingsApply
    BY <1>11 DEF SettingsApply
<1>12. CASE OtherProcess
    BY <1>12 DEF OtherProcess
<1>13. CASE Unheard
    BY <1>13 DEF Unheard
<1>15. CASE Switched
    <2>1. /\ cpLastOpen' = Head(waiting) /\ waiting' = Tail(waiting) /\ waiting # <<>>
          /\ UNCHANGED <<advised, cpLastConv, cpOpen, cpConv, missed, refused>>
        BY <1>15, <1>w DEF Switched
    <2>2. /\ Tail(waiting) = <<>> => Head(waiting) = waiting[Len(waiting)]
          /\ Tail(waiting) # <<>> => Tail(waiting)[Len(Tail(waiting))] = waiting[Len(waiting)]
        BY <2>1, <1>w, Popped
    <2> QED BY <2>1, <2>2
<1>14. CASE UNCHANGED vars
    BY <1>14 DEF vars
<1> QED BY <1>1, <1>2, <1>3, <1>4, <1>5, <1>6, <1>7, <1>8, <1>9, <1>10, <1>11, <1>12, <1>13, <1>14, <1>15 DEF Next

-----------------------------------------------------------------------------
\* What Compart_Publish has read is still the configuration, unless stale;
\* between handlers the caches hold it; the layout shown has its body.
PublishingCurrent ==
    /\ pc \in {"writeOpen", "writeConv"} /\ ~stale =>
           want = Values(cur, body, passthrough, fullWidth)
    /\ pc = "writeConv" /\ ~stale /\ "open" \in has => cpLastOpen = want.open

CacheCurrent ==
    pc = "idle" /\ ~stale =>
        /\ "conv" \in has => cpLastConv = Values(cur, body, passthrough, fullWidth).conv
        /\ "open" \in has => cpLastOpen = Values(cur, body, passthrough, fullWidth).open

BodyRead == ~stale /\ has # {} /\ pc \notin {"publish", "switched"} => body[cur] # "deferred"

Current == PublishingCurrent /\ CacheCurrent /\ BodyRead /\ LockedPublishIsCurrent

\* Initially nothing is being published.
LEMMA InitCurrent == Init => Current
BY DEF Init, Current, PublishingCurrent, CacheCurrent, BodyRead, LockedPublishIsCurrent

\* Every step keeps what is being published, and the cache, up to date.
LEMMA CurrentStep == TypeOK /\ Current /\ [Next]_vars => Current'
<1> SUFFICES ASSUME TypeOK, Current, [Next]_vars PROVE Current'
    OBVIOUS
<1> USE DEF Current, PublishingCurrent, CacheCurrent, BodyRead, LockedPublishIsCurrent,
            config, outside, cache, control, ghosts, ThenPublish
<1>1. CASE Activate
    BY <1>1 DEF Activate
<1>2. CASE Rotate
    BY <1>2 DEF Rotate
<1>3. CASE SetPassthrough
    BY <1>3 DEF SetPassthrough
<1>4. CASE Focus
    BY <1>4 DEF Focus
<1>5. CASE UseLayout
    BY <1>5 DEF UseLayout
<1>6. CASE ExternalOpen
    BY <1>6 DEF ExternalOpen, ReceiveOpen, Accept, Refuse
<1>7. CASE ExternalConv
    BY <1>7 DEF ExternalConv, ReceiveConv, NoteConv, Accept, Refuse
<1>8. CASE PublishRead
    <2>1. CASE has = {}
        BY <1>8, <2>1 DEF PublishRead, Finished
    <2>2. CASE has # {}
        <3>1. body'[cur] # "deferred"
            BY <1>8, <2>2 DEF PublishRead, EnsureBody, TypeOK
        <3> QED BY <1>8, <2>2, <3>1 DEF PublishRead
    <2> QED BY <2>1, <2>2
<1>9. CASE WriteOpen
    BY <1>9 DEF WriteOpen, AfterFailure, Left
<1>10. CASE WriteConv
    BY <1>10 DEF WriteConv, Finished, AfterFailure, Left
<1>11. CASE SettingsApply
    BY <1>11 DEF SettingsApply, MayLock
<1>12. CASE OtherProcess
    BY <1>12 DEF OtherProcess
<1>13. CASE Unheard
    BY <1>13 DEF Unheard
<1>15. CASE Switched
    BY <1>15 DEF Switched
<1>14. CASE UNCHANGED vars
    BY <1>14 DEF vars
<1> QED BY <1>1, <1>2, <1>3, <1>4, <1>5, <1>6, <1>7, <1>8, <1>9, <1>10, <1>11, <1>12, <1>13, <1>14, <1>15 DEF Next

-----------------------------------------------------------------------------
Inv == TypeOK /\ ActiveIsEnabled /\ Coherent /\ Current

\* The initial states satisfy the invariant.
LEMMA InitInv == Init => Inv
BY InitType, InitCoherent, InitCurrent DEF Inv

\* Every step keeps the invariant.
LEMMA NextInv == Inv /\ [Next]_vars => Inv'
BY TypeStep, CoherentStep, CurrentStep DEF Inv

(***************************************************************************)
(* Type correctness, for any number of layouts.                            *)
(***************************************************************************)
THEOREM CompartmentTypes == Spec => []TypeOK
<1>1. Inv => TypeOK
    BY DEF Inv
<1> QED BY <1>1, InitInv, NextInv, PTL DEF Spec

(***************************************************************************)
(* However rotations, requests and settings interleave, the active layout  *)
(* is one the user has switched on.                                        *)
(***************************************************************************)
THEOREM NeverAnUnwantedLayout == Spec => []ActiveIsEnabled
<1>1. Inv => ActiveIsEnabled
    BY DEF Inv
<1> QED BY <1>1, InitInv, NextInv, PTL DEF Spec

(***************************************************************************)
(* The cache that suppresses writes never claims a conversion mode that    *)
(* the compartment has lost.                                               *)
(***************************************************************************)
THEOREM CacheIsCoherent == Spec => []ConvCacheCoherent
<1>1. Inv => ConvCacheCoherent
    BY DEF Inv, Coherent
<1> QED BY <1>1, InitInv, NextInv, PTL DEF Spec

(***************************************************************************)
(* The same for the open state, except for a request that was refused.     *)
(***************************************************************************)
THEOREM OpenCacheIsCoherent == Spec => []OpenCacheCoherent
<1>1. Inv => OpenCacheCoherent
    BY DEF Inv, Coherent
<1> QED BY <1>1, InitInv, NextInv, PTL DEF Spec

(***************************************************************************)
(* Between handlers the compartments show the active layout and mode.      *)
(***************************************************************************)
THEOREM CompartmentsShowTheLayout == Spec => []CompartmentsAgree
<1>1. ASSUME Inv PROVE CompartmentsAgree
    <2>1. /\ Values(cur, body, passthrough, fullWidth).conv # -1
          /\ Values(cur, body, passthrough, fullWidth).open # -1
        BY DEF Values
    <2>2. (pc = "idle" => waiting = <<>>) /\ advised \subseteq has
        BY <1>1 DEF Inv, TypeOK, WaitingOK
    <2> QED BY <1>1, <2>1, <2>2 DEF Inv, Coherent, ConvCacheCoherent, OpenCacheCoherent, Current,
                CacheCurrent, CompartmentsAgree
<1> QED BY <1>1, InitInv, NextInv, PTL DEF Spec

(***************************************************************************)
(* What a key's handler writes is the configuration at that moment.        *)
(***************************************************************************)
THEOREM KeyPublishesTheTruth == Spec => []LockedPublishIsCurrent
<1>1. Inv => LockedPublishIsCurrent
    BY DEF Inv, Current
<1> QED BY <1>1, InitInv, NextInv, PTL DEF Spec

\* Giving way to a request: the layout moves only if it has to.
LEMMA AcceptMoves ==
    ASSUME TypeOK, ActiveIsEnabled, NEW hangul \in BOOLEAN, NEW open, Accept(hangul, open), cur' # cur
    PROVE  IsHangulType(cur, body) # hangul /\ IsHangulType(cur', body) = hangul /\ cur' \in enabled
<1>1. cur' \in Candidates(hangul)
    BY AcceptType
<1>2. cur \notin Candidates(hangul)
    BY DEF Accept, PickIndex
<1>3. IsHangulType(cur, body) \in BOOLEAN /\ IsHangulType(cur', body) \in BOOLEAN
    BY DEF IsHangulType
<1> QED BY <1>1, <1>2, <1>3 DEF Candidates, ActiveIsEnabled

\* The body of OutsideMovesOnlyToWanted.
MovesRightly ==
    Ready /\ <<cpOpen, cpConv>>' # <<cpOpen, cpConv>> /\ cur' # cur =>
        LET hangul == IF cpOpen' # cpOpen THEN cpOpen' # 0 ELSE Native(cpConv')
        IN  /\ IsHangulType(cur, body) # hangul
            /\ IsHangulType(cur', body) = hangul
            /\ cur' \in enabled

\* Every step that moves the layout for a request from outside moves it rightly.
LEMMA MovesStep == Inv /\ [Next]_vars => MovesRightly
<1> SUFFICES ASSUME Inv, [Next]_vars, Ready, cur' # cur,
                    cpOpen' # cpOpen \/ cpConv' # cpConv
             PROVE  LET hangul == IF cpOpen' # cpOpen THEN cpOpen' # 0 ELSE Native(cpConv')
                    IN  /\ IsHangulType(cur, body) # hangul
                        /\ IsHangulType(cur', body) = hangul
                        /\ cur' \in enabled
    BY DEF MovesRightly
<1> USE DEF Inv
<1>1. CASE ExternalOpen
    <2>1. PICK v \in Opens : ReceiveOpen(v)
        BY <1>1 DEF ExternalOpen
    <2>2. cpOpen' = v /\ cpConv' = cpConv /\ Accept(v # 0, v)
        BY <2>1 DEF ReceiveOpen, Refuse, config
    <2>3. cpOpen' # cpOpen
        BY <2>2
    <2>4. (cpOpen' # 0) = (v # 0) /\ (v # 0) \in BOOLEAN
        BY <2>2
    <2> QED BY <2>2, <2>3, <2>4, AcceptMoves
<1>2. CASE ExternalConv
    <2>1. PICK v \in AskedConvs : ReceiveConv(v)
        BY <1>2 DEF ExternalConv
    <2>2. cpConv' = v /\ cpOpen' = cpOpen /\ Accept(Native(v), cpLastOpen)
        BY <2>1 DEF ReceiveConv, Refuse, config
    <2>3. Native(cpConv') = Native(v) /\ Native(v) \in BOOLEAN
        BY <2>2 DEF Native
    <2> QED BY <2>2, <2>3, AcceptMoves
<1>3. ExternalOpen \/ ExternalConv
    BY DEF Next, vars, config, outside, Activate, Rotate, SetPassthrough, Focus, UseLayout, PublishRead,
           WriteOpen, WriteConv, SettingsApply, OtherProcess, Unheard, Switched
<1> QED BY <1>1, <1>2, <1>3

(***************************************************************************)
(* A request from outside moves the layout only when it has to, and only   *)
(* to an enabled layout of the wanted kind.                                *)
(***************************************************************************)
THEOREM OutsideMovesRightly == Spec => OutsideMovesOnlyToWanted
<1>1. Inv /\ [Next]_vars => [MovesRightly]_vars
    BY MovesStep
<1>2. Spec => [][MovesRightly]_vars
    BY <1>1, InitInv, NextInv, PTL DEF Spec
<1> QED BY <1>2 DEF OutsideMovesOnlyToWanted, MovesRightly
=============================================================================

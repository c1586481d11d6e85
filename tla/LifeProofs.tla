------------------------------ MODULE LifeProofs ------------------------------
(***************************************************************************)
(* Proofs about what other threads and processes keep alive: the services  *)
(* of the DLL (ServiceLife), for any services, documents and settings      *)
(* threads, the helper that draws for them (UiHelper), for any             *)
(* applications, lists and deaths, and the removal tool (Cleanup), for any *)
(* number of faults.                                                       *)
(***************************************************************************)
EXTENDS ServiceLife, UiHelper, Cleanup, FiniteSetTheorems, SequenceTheorems, TLAPS

(* The DLL: what it is counted for, and who may still call into it.          *)

Live == {o \in Services : life[o] = "live"}
Sinks == (OwnSinks \cup {"edit", "layout"}) \X (Docs \cup {None})

TypeOK ==
    /\ loaded \in BOOLEAN /\ dllRefs \in Int /\ factory \in Nat /\ locks \in Nat
    /\ life \in [Services -> {"none", "live", "freed"}] /\ host \in [Services -> Nat]
    /\ active \subseteq Services /\ sinks \in [Services -> SUBSET Sinks]
    /\ tes \in [Services -> Docs \cup {None}] /\ tls \in [Services -> Docs \cup {None}]
    /\ item \in [Services -> Services \cup {None}]
    /\ resend \in Services \cup {None} /\ chord \in Services \cup {None} /\ stray \subseteq Services
    /\ thread \in [Threads -> {"none", "starting", "open", "ended"}]
    /\ hwnd \in Threads \cup {None} /\ real \in Services \cup {None} /\ outlived \subseteq Threads

\* The references: whoever holds one holds a live service, the DLL is counted once for each
\* factory, lock and live service, and the host keeps the services that are active.
Counted ==
    /\ IsFiniteSet(Live) /\ \A o \in Services : IsFiniteSet(sinks[o])
    /\ dllRefs = factory + locks + Cardinality(Live)
    /\ \A o \in Services : host[o] > 0 => life[o] = "live"
    /\ \A o \in active : host[o] > 0

\* What calls back by itself belongs to an active service: the item, cut when the service is
\* deactivated, and the timers, which also keep the DLL.
Owned ==
    /\ \A o \in Services : item[o] # None => item[o] = o /\ o \in active
    /\ resend # None => resend \in active
    /\ chord # None => chord \in active
    /\ ~loaded => dllRefs = 0 /\ resend = None /\ chord = None

\* A sink holds a live service.  The edit sink is the one that pTESContext knows, so that it
\* goes with the others when the service is deactivated; a layout sink may be forgotten.
SinkOf(o, k, w) ==
    \/ k = "layout"
    \/ k = "edit" /\ w # None /\ w = tes[o] /\ o \in active
    \/ k \in OwnSinks /\ w = None /\ o \in active
Held ==
    \A o \in Services :
        /\ sinks[o] # {} => life[o] = "live"
        /\ \A k, w : <<k, w>> \in sinks[o] => SinkOf(o, k, w)

\* A settings thread that a Shutdown will end edits an active service's configuration.
Running == {t \in Threads : thread[t] \in {"starting", "open"}}
Windowed == \A t \in Running \ outlived : real \in active

LifeInv == TypeOK /\ Counted /\ Owned /\ Held /\ Windowed

LEMMA InitLife == ServiceLifeAssumption /\ Init => LifeInv
<1> SUFFICES ASSUME Init PROVE LifeInv
    OBVIOUS
<1>1. Live = {}
    BY DEF Init, Live
<1>2. TypeOK
    BY DEF Init, TypeOK, None
<1>3. Counted
    BY <1>1, FS_EmptySet DEF Init, Counted
<1>4. Owned /\ Held /\ Windowed
    BY DEF Init, Owned, Held, Windowed, Running
<1> QED BY <1>2, <1>3, <1>4 DEF LifeInv

\* With nothing counted there is no factory, no lock and no live service.
LEMMA NothingCounted ==
    ASSUME LifeInv, dllRefs = 0
    PROVE  factory = 0 /\ locks = 0 /\ Live = {} /\ active = {}
<1>1. /\ factory \in Nat /\ locks \in Nat /\ IsFiniteSet(Live) /\ active \subseteq Services
      /\ dllRefs = factory + locks + Cardinality(Live)
    BY DEF LifeInv, TypeOK, Counted
<1>2. PICK n \in Nat : n = Cardinality(Live)
    BY <1>1, FS_CardinalityType
<1>3. factory = 0 /\ locks = 0 /\ n = 0
    <2>1. factory + locks + n = 0
        BY <1>1, <1>2
    <2> QED BY <1>1, <2>1
<1>4. Live = {}
    BY <1>1, <1>2, <1>3, FS_EmptySet
<1>5. active \subseteq Live
    BY <1>1 DEF LifeInv, Counted, Live
<1> QED BY <1>3, <1>4, <1>5

\* The count moves with the factories and the locks.
LEMMA ServerLife ==
    ASSUME LifeInv, UNCHANGED <<tipVars, winVars>>,
           loaded' \in {loaded, FALSE}, dllRefs' \in Int, factory' \in Nat, locks' \in Nat,
           dllRefs' - (factory' + locks') = dllRefs - (factory + locks),
           ~loaded' => dllRefs' = 0 /\ resend = None /\ chord = None
    PROVE  LifeInv'
<1>1. /\ factory \in Nat /\ locks \in Nat /\ dllRefs \in Int /\ Live' = Live
      /\ dllRefs = factory + locks + Cardinality(Live) /\ loaded \in BOOLEAN /\ IsFiniteSet(Live)
    BY DEF LifeInv, TypeOK, Counted, tipVars, Live
<1>2. TypeOK'
    <2>1. loaded' \in BOOLEAN
        BY <1>1
    <2> QED BY <2>1 DEF LifeInv, TypeOK, tipVars, timerVars, winVars
<1>3. Counted'
    <2>1. PICK n \in Nat : n = Cardinality(Live)
        BY <1>1, FS_CardinalityType
    <2>2. dllRefs = factory + locks + n
        BY <1>1, <2>1
    <2>3. dllRefs' = factory' + locks' + n
        <3> DEFINE e == factory + locks
                   f == factory' + locks'
        <3>1. e \in Int /\ f \in Int
            BY <1>1
        <3> HIDE DEF e, f
        <3>2. dllRefs = e + n /\ dllRefs' - f = dllRefs - e
            BY <2>2 DEF e, f
        <3>3. dllRefs' = f + n
            BY <1>1, <3>1, <3>2
        <3> QED BY <3>3 DEF f
    <2> QED BY <1>1, <2>1, <2>3 DEF LifeInv, Counted, tipVars
<1>4. Owned'
    BY DEF LifeInv, Owned, tipVars, timerVars
<1>5. Held' /\ Windowed'
    BY DEF LifeInv, Held, SinkOf, Windowed, Running, tipVars, winVars
<1> QED BY <1>2, <1>3, <1>4, <1>5 DEF LifeInv

LEMMA CreateLife == LifeInv /\ (\E o \in Services : Create(o)) => LifeInv'
<1> SUFFICES ASSUME LifeInv, NEW o \in Services, Create(o) PROVE LifeInv'
    OBVIOUS
<1>1. /\ TypeOK /\ Counted /\ Owned /\ Held /\ Windowed /\ Live' = Live \cup {o} /\ o \notin Live
      /\ life' = [life EXCEPT ![o] = "live"] /\ host' = [host EXCEPT ![o] = 1]
    BY DEF LifeInv, Create, Live, TypeOK
<1>2. TypeOK'
    BY <1>1 DEF TypeOK, Create, timerVars, winVars
<1>3. Counted'
    <2>1. IsFiniteSet(Live') /\ Cardinality(Live') = Cardinality(Live) + 1 /\ Cardinality(Live) \in Nat
        BY <1>1, FS_AddElement, FS_CardinalityType DEF Counted
    <2>2. dllRefs' = factory' + locks' + Cardinality(Live')
        BY <1>1, <2>1 DEF Create, Counted, TypeOK
    <2>3. \A p \in Services : host'[p] > 0 => life'[p] = "live"
        BY <1>1 DEF Counted, TypeOK
    <2>4. \A p \in active' : host'[p] > 0
        BY <1>1 DEF Counted, TypeOK, Create
    <2> QED BY <1>1, <2>1, <2>2, <2>3, <2>4 DEF Counted, Create
<1>4. Owned'
    BY <1>1 DEF Owned, Create, timerVars
<1>5. Held' /\ Windowed'
    BY <1>1 DEF Held, SinkOf, Windowed, Running, Create, TypeOK, winVars
<1> QED BY <1>2, <1>3, <1>4, <1>5 DEF LifeInv

\* The last reference is not given up before the service was deactivated.
LEMMA ReleaseLife == LifeInv /\ (\E o \in Services : Release(o)) => LifeInv'
<1> SUFFICES ASSUME LifeInv, NEW o \in Services, Release(o) PROVE LifeInv'
    OBVIOUS
<1>1. /\ TypeOK /\ Counted /\ Owned /\ Held /\ Windowed /\ host' = [host EXCEPT ![o] = host[o] - 1]
      /\ host[o] \in Nat /\ host[o] > 0 /\ (host[o] = 1 => o \notin active) /\ life[o] = "live"
    BY DEF LifeInv, Release, TypeOK, Counted
<1>2. \A p \in active' : p \in active /\ p \in Services /\ host'[p] > 0
    BY <1>1 DEF TypeOK, Release, Counted
<1>3. CASE host[o] + Cardinality(sinks[o]) = 1
    <2>1. host[o] = 1 /\ sinks[o] = {}
        <3>1. IsFiniteSet(sinks[o]) /\ Cardinality(sinks[o]) \in Nat
            BY <1>1, FS_CardinalityType DEF Counted
        <3>2. host[o] = 1 /\ Cardinality(sinks[o]) = 0
            BY <1>1, <1>3, <3>1
        <3> QED BY <3>1, <3>2, FS_EmptySet
    <2>2. life' = [life EXCEPT ![o] = "freed"] /\ dllRefs' = dllRefs - 1 /\ Live' = Live \ {o} /\ o \in Live
        BY <1>1, <1>3 DEF Release, Live, TypeOK
    <2>3. TypeOK'
        BY <1>1, <2>1, <2>2 DEF TypeOK, Release, timerVars, winVars
    <2>4. Counted'
        <3>1. /\ IsFiniteSet(Live') /\ Cardinality(Live') = Cardinality(Live) - 1 /\ Cardinality(Live) \in Nat
            BY <1>1, <2>2, FS_RemoveElement, FS_CardinalityType DEF Counted
        <3>2. dllRefs' = factory' + locks' + Cardinality(Live')
            BY <1>1, <2>2, <3>1 DEF Release, Counted, TypeOK
        <3>3. \A p \in Services : host'[p] > 0 => life'[p] = "live"
            BY <1>1, <2>1, <2>2 DEF Counted, TypeOK
        <3> QED BY <1>1, <1>2, <3>1, <3>2, <3>3 DEF Counted, Release
    <2>5. ~loaded => FALSE
        <3>1. dllRefs = 0 => Live = {}
            BY NothingCounted
        <3> QED BY <1>1, <2>2, <3>1 DEF Owned
    <2>6. Owned'
        BY <1>1, <2>5 DEF Owned, Release, timerVars
    <2>7. Held' /\ Windowed'
        BY <1>1, <2>1, <2>2 DEF Held, SinkOf, Windowed, Running, Release, TypeOK, winVars
    <2> QED BY <2>3, <2>4, <2>6, <2>7 DEF LifeInv
<1>4. CASE host[o] + Cardinality(sinks[o]) # 1
    <2>1. UNCHANGED <<life, dllRefs>> /\ Live' = Live
        BY <1>4 DEF Release, Live
    <2>2. TypeOK'
        BY <1>1, <2>1 DEF TypeOK, Release, timerVars, winVars
    <2>3. Counted'
        BY <1>1, <1>2, <2>1 DEF Counted, Release, TypeOK
    <2>4. Owned'
        BY <1>1, <2>1 DEF Owned, Release, timerVars
    <2>5. Held' /\ Windowed'
        BY <1>1, <2>1 DEF Held, SinkOf, Windowed, Running, Release, winVars
    <2> QED BY <2>2, <2>3, <2>4, <2>5 DEF LifeInv
<1> QED BY <1>3, <1>4

\* Advising and unadvising keeps the sinks a finite set, and the edit sink the known one.
LEMMA AdviseType ==
    ASSUME LifeInv, NEW o \in Services, NEW s \in SUBSET Sinks, IsFiniteSet(s), NEW d \in Docs \cup {None},
           NEW missing, AdviseTextEditSink(o, s, d, missing), active' \subseteq Services,
           \A p \in active : p # o => p \in active',
           \A k, w : <<k, w>> \in s => \/ k = "layout"
                                       \/ k = "edit" /\ w = tes[o] /\ w # None
                                       \/ (k \in OwnSinks /\ w = None /\ o \in (active')),
           d # None => o \in active'
    PROVE  /\ sinks' \in [Services -> SUBSET Sinks] /\ \A p \in Services : IsFiniteSet(sinks'[p])
           /\ tes' \in [Services -> Docs \cup {None}] /\ tls' \in [Services -> Docs \cup {None}]
           /\ \A p \in Services \ {o} : sinks'[p] = sinks[p]
           /\ \A p \in Services : \A k, w : <<k, w>> \in sinks'[p] => SinkOf(p, k, w)'
<1>0. TypeOK /\ Counted /\ Held
    BY DEF LifeInv
<1> DEFINE left == Unadvised(o, s)
           two == {<<"edit", d>>} \cup {<<"layout", d>>}
           more == ({"edit", "layout"} \ missing) \X {d}
<1>1. left \subseteq s /\ IsFiniteSet(left) /\ left \subseteq Sinks
    <2>1. left \subseteq s
        BY DEF Unadvised
    <2> QED BY <2>1, FS_Subset
<1>2. more \subseteq two /\ two \subseteq Sinks
    <2>1. more \subseteq two
        OBVIOUS
    <2> QED BY <2>1 DEF Sinks
<1>3. IsFiniteSet(left \cup more)
    <2>1. IsFiniteSet(two)
        BY FS_Singleton, FS_Union
    <2>2. IsFiniteSet(more)
        BY <1>2, <2>1, FS_Subset
    <2> QED BY <1>1, <2>2, FS_Union
<1>4. ASSUME NEW k, NEW w, <<k, w>> \in left
      PROVE  k = "layout" \/ (k \in OwnSinks /\ w = None /\ o \in active')
    <2>1. ~(k = "edit" /\ w = tes[o] /\ w # None)
        BY <1>4 DEF Unadvised
    <2> QED BY <1>1, <1>4, <2>1
<1>5. PICK t \in SUBSET Sinks :
          /\ IsFiniteSet(t) /\ sinks' = [sinks EXCEPT ![o] = t]
          /\ \A k, w : <<k, w>> \in t => \/ k = "layout"
                                         \/ k = "edit" /\ w # None /\ w = tes'[o] /\ o \in active'
                                         \/ k \in OwnSinks /\ w = None /\ o \in active'
    <2>1. CASE d = None
        BY <1>1, <1>4, <2>1 DEF AdviseTextEditSink
    <2>2. CASE d # None
        <3>1. /\ left \cup more \in SUBSET Sinks /\ sinks' = [sinks EXCEPT ![o] = left \cup more]
              /\ tes' = [tes EXCEPT ![o] = IF "edit" \in missing THEN None ELSE d]
            BY <1>1, <1>2, <2>2 DEF AdviseTextEditSink
        <3>2. tes'[o] = IF "edit" \in missing THEN None ELSE d
            BY <1>0, <3>1 DEF TypeOK
        <3>3. ASSUME NEW k, NEW w, <<k, w>> \in more
              PROVE  k = "layout" \/ (k = "edit" /\ w # None /\ w = tes'[o] /\ o \in active')
            BY <2>2, <3>2, <3>3
        <3> QED BY <1>3, <1>4, <3>1, <3>3
    <2> QED BY <2>1, <2>2
<1>6. sinks' \in [Services -> SUBSET Sinks] /\ \A p \in Services : IsFiniteSet(sinks'[p])
    BY <1>0, <1>5 DEF TypeOK, Counted
<1>7. tes' \in [Services -> Docs \cup {None}] /\ tls' \in [Services -> Docs \cup {None}]
    BY <1>0 DEF AdviseTextEditSink, TypeOK
<1>8. \A p \in Services \ {o} : sinks'[p] = sinks[p] /\ tes'[p] = tes[p]
    BY <1>0, <1>5 DEF AdviseTextEditSink, TypeOK
<1>9. ASSUME NEW p \in Services, NEW k, NEW w, <<k, w>> \in sinks'[p] PROVE SinkOf(p, k, w)'
    <2>1. CASE p = o
        <3>1. sinks'[o] = t
            BY <1>0, <1>5 DEF TypeOK
        <3> QED BY <1>5, <1>9, <2>1, <3>1 DEF SinkOf
    <2>2. CASE p # o
        <3>1. SinkOf(p, k, w)
            BY <1>0, <1>8, <1>9, <2>2 DEF Held
        <3> QED BY <1>8, <2>2, <3>1 DEF SinkOf
    <2> QED BY <2>1, <2>2
<1> QED BY <1>6, <1>7, <1>8, <1>9

\* A step that leaves the references of host and DLL alone.
LEMMA StepLife ==
    ASSUME LifeInv, UNCHANGED <<dllVars, life, host>>, TypeOK',
           \A p \in Services : IsFiniteSet(sinks'[p]),
           \A p \in active' : p \in active \/ host[p] > 0,
           \A p \in Services : item'[p] # None => item'[p] = p /\ p \in active',
           resend' # None => resend' \in active' /\ (resend' = resend \/ loaded),
           chord' # None => chord' \in active' /\ (chord' = chord \/ loaded),
           \A p \in Services : sinks'[p] # {} => sinks[p] # {} \/ host[p] > 0,
           \A p \in Services : \A k, w : <<k, w>> \in sinks'[p] => SinkOf(p, k, w)',
           Windowed'
    PROVE  LifeInv'
<1>1. Live' = Live
    BY DEF Live
<1>2. Counted'
    BY <1>1 DEF LifeInv, TypeOK, Counted, dllVars
<1>3. Owned'
    BY DEF LifeInv, Owned, dllVars
<1>4. Held'
    BY DEF LifeInv, Counted, Held
<1> QED BY <1>2, <1>3, <1>4 DEF LifeInv

\* A service that the host holds finds the DLL loaded.
LEMMA LoadedLife == ASSUME LifeInv, NEW o \in active PROVE loaded
BY NothingCounted DEF LifeInv, Owned

LEMMA ActivateLife ==
    ASSUME LifeInv, NEW o \in Services, NEW d \in Docs \cup {None}, NEW missing, ActivateCommon(o, d, missing)
    PROVE  LifeInv'
<1> DEFINE own == OwnSinks \X {None}
           some == (OwnSinks \ missing) \X {None}
           s == sinks[o] \cup some
<1>1. /\ TypeOK /\ Counted /\ Owned /\ Held /\ Windowed /\ AdviseTextEditSink(o, s, d, missing)
      /\ active' = active \cup {o} /\ host[o] > 0 /\ UNCHANGED timerVars
      /\ item' = [item EXCEPT ![o] = IF "item" \in missing THEN None ELSE o]
      /\ UNCHANGED <<dllVars, life, host>> /\ UNCHANGED winVars
    BY DEF LifeInv, ActivateCommon
<1>2. s \in SUBSET Sinks /\ IsFiniteSet(s)
    <2>1. IsFiniteSet({<<"key", None>>} \cup {<<"thread", None>>} \cup {<<"func", None>>}
                      \cup {<<"open", None>>} \cup {<<"conv", None>>})
        BY FS_Singleton, FS_Union
    <2>2. own = {<<"key", None>>} \cup {<<"thread", None>>} \cup {<<"func", None>>}
                \cup {<<"open", None>>} \cup {<<"conv", None>>}
        BY DEF OwnSinks
    <2>3. some \subseteq own
        OBVIOUS
    <2>4. IsFiniteSet(some)
        BY <2>1, <2>2, <2>3, FS_Subset
    <2>5. IsFiniteSet(s)
        BY <1>1, <2>4, FS_Union DEF Counted
    <2>6. some \subseteq Sinks /\ sinks[o] \subseteq Sinks
        BY <1>1 DEF Sinks, TypeOK
    <2> QED BY <2>5, <2>6
<1>3. \A k, w : <<k, w>> \in s => \/ k = "layout"
                                  \/ k = "edit" /\ w = tes[o] /\ w # None
                                  \/ k \in OwnSinks /\ w = None /\ o \in active'
    BY <1>1 DEF Held, SinkOf
<1>4. active' \subseteq Services
    BY <1>1 DEF TypeOK
<1> HIDE DEF s
<1>5. /\ sinks' \in [Services -> SUBSET Sinks] /\ \A p \in Services : IsFiniteSet(sinks'[p])
      /\ tes' \in [Services -> Docs \cup {None}] /\ tls' \in [Services -> Docs \cup {None}]
      /\ \A p \in Services \ {o} : sinks'[p] = sinks[p]
      /\ \A p \in Services : \A k, w : <<k, w>> \in sinks'[p] => SinkOf(p, k, w)'
    BY <1>1, <1>2, <1>3, <1>4, AdviseType
<1>6. TypeOK'
    BY <1>1, <1>4, <1>5 DEF TypeOK, dllVars, timerVars, winVars
<1>7. \A p \in Services : item'[p] # None => item'[p] = p /\ p \in active'
    BY <1>1 DEF Owned, TypeOK
<1>8. Windowed'
    BY <1>1 DEF Windowed, Running, winVars
<1>9. \A p \in Services : sinks'[p] # {} => sinks[p] # {} \/ host[p] > 0
    BY <1>1, <1>5
<1>10. /\ resend' # None => resend' \in active' /\ resend' = resend
       /\ chord' # None => chord' \in active' /\ chord' = chord
    BY <1>1 DEF Owned, timerVars
<1>11. \A p \in active' : p \in active \/ host[p] > 0
    BY <1>1
<1> QED BY <1>1, <1>5, <1>6, <1>7, <1>8, <1>9, <1>10, <1>11, StepLife

\* Whoever is deactivated or left leaves the other services' timers alone.
LEMMA CancelledType ==
    ASSUME NEW owner \in Services \cup {None}, NEW o \in Services
    PROVE  /\ Cancelled(owner, o) \in {owner, None}
           /\ Cancelled(owner, o) # None => Cancelled(owner, o) = owner /\ owner # o
BY DEF Cancelled

LEMMA FocusLife ==
    ASSUME LifeInv, NEW o \in Services, NEW d \in Docs \cup {None}, NEW missing, TMES_OnSetFocus(o, d, missing)
    PROVE  LifeInv'
<1>1. /\ TypeOK /\ Counted /\ Owned /\ Held /\ Windowed /\ sinks[o] \in SUBSET Sinks /\ IsFiniteSet(sinks[o])
      /\ AdviseTextEditSink(o, sinks[o], d, missing) /\ o \in active /\ chord' = Cancelled(chord, o)
      /\ UNCHANGED <<dllVars, life, host>> /\ UNCHANGED <<active, item, resend, stray, winVars>>
    BY DEF LifeInv, TMES_OnSetFocus, TypeOK, Counted
<1>2. /\ sinks' \in [Services -> SUBSET Sinks] /\ \A p \in Services : IsFiniteSet(sinks'[p])
      /\ tes' \in [Services -> Docs \cup {None}] /\ tls' \in [Services -> Docs \cup {None}]
      /\ \A p \in Services \ {o} : sinks'[p] = sinks[p]
      /\ \A p \in Services : \A k, w : <<k, w>> \in sinks'[p] => SinkOf(p, k, w)'
    <2>1. \A k, w : <<k, w>> \in sinks[o] => \/ k = "layout"
                                             \/ k = "edit" /\ w = tes[o] /\ w # None
                                             \/ k \in OwnSinks /\ w = None /\ o \in active'
        BY <1>1 DEF Held, SinkOf
    <2>2. active' \subseteq Services
        BY <1>1 DEF TypeOK
    <2> QED BY <1>1, <2>1, <2>2, AdviseType
<1>3. chord' \in {chord, None} /\ chord \in Services \cup {None}
    BY <1>1, CancelledType DEF TypeOK
<1>4. TypeOK'
    BY <1>1, <1>2, <1>3 DEF TypeOK, dllVars, winVars
<1>5. Windowed' /\ (chord' # None => chord' \in active' /\ chord' = chord)
      /\ (resend' # None => resend' \in active' /\ resend' = resend)
      /\ \A p \in Services : item'[p] # None => item'[p] = p /\ p \in active'
    BY <1>1, <1>3 DEF Windowed, Running, Owned, winVars
<1>6. \A p \in Services : sinks'[p] # {} => sinks[p] # {} \/ host[p] > 0
    BY <1>1, <1>2 DEF Counted
<1> QED BY <1>1, <1>2, <1>4, <1>5, <1>6, StepLife

\* Whoever is deactivated leaves nothing behind that calls him.
LEMMA DeactivatedLife ==
    ASSUME LifeInv, NEW o \in Services, Deactivated(o), UNCHANGED <<dllVars, life, host>>,
           active' = active \ {o}
    PROVE  LifeInv'
<1> DEFINE s == sinks[o] \ (OwnSinks \X {None})
<1>1. /\ TypeOK /\ Counted /\ Owned /\ Held /\ Windowed /\ AdviseTextEditSink(o, s, None, {}) /\ s \subseteq sinks[o]
      /\ item' = [item EXCEPT ![o] = None] /\ Shutdown /\ UNCHANGED stray
      /\ resend' = Cancelled(resend, o) /\ chord' = Cancelled(chord, o)
    BY DEF LifeInv, Deactivated
<1>2. s \in SUBSET Sinks /\ IsFiniteSet(s)
    BY <1>1, FS_Subset DEF TypeOK, Counted
<1>3. \A k, w : <<k, w>> \in s => k = "layout" \/ (k = "edit" /\ w = tes[o] /\ w # None)
    BY <1>1 DEF Held, SinkOf
<1>4. active' \subseteq Services
    BY <1>1 DEF TypeOK
<1> HIDE DEF s
<1>5. /\ sinks' \in [Services -> SUBSET Sinks] /\ \A p \in Services : IsFiniteSet(sinks'[p])
      /\ tes' \in [Services -> Docs \cup {None}] /\ tls' \in [Services -> Docs \cup {None}]
      /\ \A p \in Services \ {o} : sinks'[p] = sinks[p]
      /\ \A p \in Services : \A k, w : <<k, w>> \in sinks'[p] => SinkOf(p, k, w)'
    BY <1>1, <1>2, <1>3, <1>4, AdviseType
<1>6. /\ resend' \in Services \cup {None} /\ chord' \in Services \cup {None}
      /\ resend' # None => resend' \in active' /\ resend' = resend
      /\ chord' # None => chord' \in active' /\ chord' = chord
    BY <1>1, CancelledType DEF TypeOK, Owned
<1>7. TypeOK'
    <2>1. item' \in [Services -> Services \cup {None}]
        BY <1>1 DEF TypeOK
    <2>2. /\ thread' \in [Threads -> {"none", "starting", "open", "ended"}] /\ hwnd' \in Threads \cup {None}
          /\ outlived' \subseteq Threads /\ real' \in Services \cup {None}
        BY <1>1 DEF TypeOK, Shutdown
    <2> QED BY <1>1, <1>4, <1>5, <1>6, <2>1, <2>2 DEF TypeOK, dllVars
<1>8. \A p \in Services : item'[p] # None => item'[p] = p /\ p \in active'
    BY <1>1 DEF Owned, TypeOK
<1>9. Windowed'
    BY <1>1 DEF Windowed, Running, Shutdown, TypeOK
<1>10. \A p \in Services : sinks'[p] # {} => sinks[p] # {} \/ host[p] > 0
    <2>1. sinks'[o] \subseteq sinks[o]
        BY <1>1 DEF AdviseTextEditSink, Unadvised, TypeOK
    <2> QED BY <1>5, <2>1
<1>11. \A p \in active' : p \in active \/ host[p] > 0
    OBVIOUS
<1> QED BY <1>5, <1>6, <1>7, <1>8, <1>9, <1>10, <1>11, StepLife

\* A step of the timers or of the settings window.
LEMMA TimerLife ==
    ASSUME LifeInv, UNCHANGED <<dllVars, life, host, active, sinks, tes, tls, item>>, TypeOK',
           resend' # None => resend' \in active /\ (resend' = resend \/ loaded),
           chord' # None => chord' \in active /\ (chord' = chord \/ loaded),
           Windowed'
    PROVE  LifeInv'
<1>1. \A p \in Services : \A k, w : <<k, w>> \in sinks'[p] => SinkOf(p, k, w)'
    BY DEF LifeInv, Held, SinkOf
<1>2. /\ \A p \in Services : IsFiniteSet(sinks'[p])
      /\ \A p \in active' : p \in active \/ host[p] > 0
      /\ \A p \in Services : item'[p] # None => item'[p] = p /\ p \in active'
      /\ \A p \in Services : sinks'[p] # {} => sinks[p] # {} \/ host[p] > 0
    BY DEF LifeInv, Counted, Owned
<1> QED BY <1>1, <1>2, StepLife

LEMMA WindowLife ==
    ASSUME LifeInv, UNCHANGED <<dllVars, tipVars>>, real' \in {real} \cup Services,
           thread' \in [Threads -> {"none", "starting", "open", "ended"}], hwnd' \in Threads \cup {None},
           outlived' \subseteq Threads, Windowed'
    PROVE  LifeInv'
<1>1. TypeOK'
    BY DEF LifeInv, TypeOK, dllVars, tipVars, timerVars
<1> QED BY <1>1, TimerLife DEF LifeInv, Owned, tipVars, timerVars

LEMMA NextLife == ServiceLifeAssumption /\ LifeInv /\ [Next]_vars => LifeInv'
<1> SUFFICES ASSUME ServiceLifeAssumption, LifeInv, [Next]_vars PROVE LifeInv'
    OBVIOUS
<1>0. TypeOK /\ Counted /\ Owned /\ Windowed /\ None \notin Services
    BY DEF LifeInv, ServiceLifeAssumption
<1>1. CASE UNCHANGED vars
    BY <1>0, <1>1, WindowLife DEF vars, dllVars, tipVars, timerVars, winVars, TypeOK, Windowed, Running
<1>2. CASE GetClassObject \/ ReleaseFactory \/ DllCanUnloadNow \/ \E on \in BOOLEAN : LockServer(on)
    <2>1. CASE GetClassObject
        BY <1>0, <2>1, ServerLife DEF GetClassObject, TypeOK
    <2>2. CASE ReleaseFactory
        BY <1>0, <2>2, ServerLife, NothingCounted DEF ReleaseFactory, TypeOK, Owned
    <2>3. CASE DllCanUnloadNow
        <3>1. dllRefs = 0 /\ resend = None /\ chord = None /\ UNCHANGED <<dllRefs, factory, locks, tipVars, winVars>>
              /\ loaded' = FALSE
            BY <2>3 DEF DllCanUnloadNow, MayUnload, HasPendingTimers
        <3>2. dllRefs' \in Int /\ factory' \in Nat /\ locks' \in Nat
            BY <1>0, <3>1 DEF TypeOK
        <3> QED BY <3>1, <3>2, ServerLife
    <2>4. CASE \E on \in BOOLEAN : LockServer(on)
        <3>1. PICK on \in BOOLEAN : LockServer(on)
            BY <2>4
        <3>2. loaded
            BY <1>0, <3>1, NothingCounted DEF LockServer, TypeOK, Owned
        <3> QED BY <1>0, <3>1, <3>2, ServerLife DEF LockServer, TypeOK
    <2> QED BY <1>2, <2>1, <2>2, <2>3, <2>4
<1>3. CASE ResendTimerProc \/ ChordTickProc \/ \E o \in Services : StrayFires(o)
    <2>1. TypeOK' /\ Windowed'
        BY <1>0, <1>3 DEF ResendTimerProc, ChordTickProc, StrayFires, TypeOK, Windowed, Running, dllVars, winVars
    <2> QED BY <1>0, <1>3, <2>1, TimerLife DEF ResendTimerProc, ChordTickProc, StrayFires, Owned
<1>4. ASSUME NEW o \in Services, AddRef(o) PROVE LifeInv'
    <2>1. Live' = Live /\ host' = [host EXCEPT ![o] = host[o] + 1] /\ life[o] = "live"
        BY <1>4 DEF AddRef, Live
    <2>2. TypeOK'
        BY <1>0, <1>4, <2>1 DEF AddRef, TypeOK, dllVars, timerVars, winVars
    <2>3. Counted'
        BY <1>0, <1>4, <2>1 DEF AddRef, Counted, TypeOK, dllVars
    <2>4. Owned'
        BY <1>0, <1>4 DEF AddRef, Owned, dllVars, timerVars
    <2>5. Held' /\ Windowed'
        BY <1>0, <1>4 DEF LifeInv, AddRef, Held, SinkOf, Windowed, Running, winVars
    <2> QED BY <2>2, <2>3, <2>4, <2>5 DEF LifeInv
<1>5. ASSUME NEW o \in Services, EatKey(o) \/ ScheduleChordTick(o) PROVE LifeInv'
    <2>1. o \in active /\ loaded
        BY <1>5, LoadedLife DEF EatKey, ScheduleChordTick
    <2>2. TypeOK' /\ Windowed'
        BY <1>0, <1>5 DEF EatKey, ScheduleChordTick, Replaced, Cancelled, TypeOK, Windowed, Running, dllVars, winVars
    <2> QED BY <1>0, <1>5, <2>1, <2>2, TimerLife DEF EatKey, ScheduleChordTick, Cancelled, Owned
<1>6. ASSUME NEW o \in Services, Deactivate(o) \/ ActivateRefused(o) PROVE LifeInv'
    <2>1. active' = active \ {o}
        BY <1>6 DEF Deactivate, ActivateRefused
    <2> QED BY <1>6, <2>1, DeactivatedLife DEF Deactivate, ActivateRefused
<1>7. ASSUME NEW o \in Services, Show(o) PROVE LifeInv'
    <2>1. /\ thread' \in [Threads -> {"none", "starting", "open", "ended"}] /\ outlived' \subseteq Threads
          /\ Windowed'
        BY <1>0, <1>7 DEF Show, TypeOK, Windowed, Running, tipVars
    <2> QED BY <1>0, <1>7, <2>1, WindowLife DEF Show, TypeOK
<1>8. ASSUME NEW t \in Threads, SettingsThreadProc(t) \/ CloseWindow(t) PROVE LifeInv'
    <2>1. /\ thread' \in [Threads -> {"none", "starting", "open", "ended"}] /\ hwnd' \in Threads \cup {None}
          /\ Windowed'
        BY <1>0, <1>8 DEF SettingsThreadProc, CloseWindow, TypeOK, Windowed, Running, tipVars
    <2> QED BY <1>0, <1>8, <2>1, WindowLife DEF SettingsThreadProc, CloseWindow, TypeOK
<1> QED BY <1>1, <1>2, <1>3, <1>4, <1>5, <1>6, <1>7, <1>8, CreateLife, ReleaseLife, ActivateLife, FocusLife
        DEF Next

\* For any services, documents and threads: the language bar item and the two timers know
\* only active services, every sink holds a live one and a deactivated service keeps none but
\* a layout sink, a settings thread that a Shutdown can end edits an active service, and the
\* DLL is counted exactly for what is in use (dllmain.c, langbar.c, text_service.c,
\* compartment.c, settings_ui.c).
THEOREM NothingCallsIntoTheVoid ==
    ASSUME ServiceLifeAssumption
    PROVE  Spec => []NoCallbackIntoTheVoid
<1>1. LifeInv => NoCallbackIntoTheVoid
    <2> SUFFICES ASSUME LifeInv PROVE NoCallbackIntoTheVoid
        OBVIOUS
    <2>1. /\ \A o \in Services : item[o] # None => item[o] \in active
          /\ \A owner \in {resend, chord} : owner # None => owner \in active /\ loaded
          /\ loaded \/ dllRefs = 0
        BY LoadedLife DEF LifeInv, Owned
    <2>2. \A o \in Services : sinks[o] # {} => life[o] = "live"
        BY DEF LifeInv, Held
    <2>3. ASSUME NEW o \in Services \ active, NEW sink \in sinks[o] PROVE sink[1] = "layout"
        <3>1. sink = <<sink[1], sink[2]>>
            BY <2>3 DEF LifeInv, TypeOK, Sinks
        <3> QED BY <2>3, <3>1 DEF LifeInv, Held, SinkOf
    <2>4. \A t \in Threads \ outlived : thread[t] \in {"starting", "open"} => real \in active
        BY DEF LifeInv, Windowed, Running
    <2>5. active \subseteq Live /\ dllRefs = factory + locks + Cardinality(Live)
        BY DEF LifeInv, Counted, TypeOK, Live
    <2> QED BY <2>1, <2>2, <2>3, <2>4, <2>5 DEF NoCallbackIntoTheVoid, Live
<1>2. Init => LifeInv
    BY InitLife
<1>3. LifeInv /\ [Next]_vars => LifeInv'
    BY NextLife
<1> QED BY <1>1, <1>2, <1>3, PTL DEF Spec

-----------------------------------------------------------------------------
(* The helper: what is in the pipe, in its variables, posted to its window    *)
(* and on the screen is what the application asks for.                        *)

\* A message that begins anew what the helper draws, and the rows of each kind.
Opens(m) == m.msg # "update"
Rows(kind) == IF kind = "list" THEN Count ELSE 1

Clients == Apps \cup {NoApp}
Kinds == {"none", "list", "code"}
Shows == [msg : {"show"}, of : Apps \X {"list", "code"}, count : Nat \ {0}, sel : Nat]
Updates == [msg : {"update"}, sel : Nat]
Hides == [msg : {"hide"}]
Msgs == Shows \cup Updates \cup Hides

Lists == [kind : {"list"}, sel : 0 .. Count - 1, drawn : {TRUE}]
Codes == [kind : {"code"}, sel : {0}, drawn : BOOLEAN]
Uis == {Nothing} \cup Lists \cup Codes

HelperTypeOK ==
    /\ served \in Clients /\ wire \in Seq(Msgs)
    /\ shared \in [of : Clients \X Kinds, count : Nat, sel : Nat]
    /\ posted \in Seq({"show", "update", "hide"})
    /\ win \in [shown : BOOLEAN, of : Clients \X Kinds, sel : Nat]
    /\ handle \in [Apps -> {"none", "open", "broken"}] /\ cooling \in [Apps -> BOOLEAN]
    /\ ui \in [Apps -> Uis] /\ focus \in Apps

\* The only pipe is its client's; without a client the helper holds no list.
OnePipe ==
    /\ \A a \in Apps : handle[a] = "open" => served = a
    /\ served = NoApp => wire = <<>> /\ shared.count = 0

\* Rows are what an application asks for.
IsOf(u, a, of, count) == u.drawn /\ of = <<a, u.kind>> /\ count = Rows(u.kind)

\* What the helper will hold when it has read the pipe `ms', now holding `sh', is what u of
\* a asks for, with its selection, or nothing.
Asked(u, a, ms, sh) ==
    /\ \A k \in 1 .. Len(ms) :
          (ms[k].msg = "show" /\ \A j \in k + 1 .. Len(ms) : ~Opens(ms[j]))
              => IsOf(u, a, ms[k].of, ms[k].count)
    /\ (sh.count # 0 /\ \A j \in 1 .. Len(ms) : ~Opens(ms[j])) => IsOf(u, a, sh.of, sh.count)
    /\ (ms # <<>> /\ ms[Len(ms)].msg # "hide" /\ u.drawn) => ms[Len(ms)].sel = u.sel
    /\ (ms = <<>> /\ sh.count # 0) => sh.sel = u.sel

WrittenIsAsked == \A a \in Apps : handle[a] = "open" => Asked(ui[a], a, wire, shared)

\* When the window has handled what was posted to it, it shows what the variables hold.
DrawnIsShared ==
    /\ (shared.count # 0 /\ posted # <<>>) => posted[Len(posted)] # "hide"
    /\ (shared.count # 0 /\ posted = <<>>) =>
          win.shown /\ win.of = shared.of /\ win.sel = shared.sel
    /\ (shared.count = 0 /\ win.shown) => \E k \in 1 .. Len(posted) : posted[k] = "hide"

HelperInv == HelperTypeOK /\ OnePipe /\ WrittenIsAsked /\ DrawnIsShared

-----------------------------------------------------------------------------
LEMMA InitHelper == UiHelperAssumption /\ HelperInit => HelperInv
<1> SUFFICES ASSUME UiHelperAssumption, HelperInit PROVE HelperInv
    OBVIOUS
<1>1. HelperTypeOK
    <2>1. <<NoApp, "none">> \in Clients \X Kinds
        BY DEF Clients, Kinds
    <2>2. wire \in Seq(Msgs) /\ posted \in Seq({"show", "update", "hide"})
        BY EmptySeq DEF HelperInit
    <2> QED BY <2>1, <2>2 DEF HelperInit, HelperTypeOK, Blank, Dark, Clients, Uis
<1>2. OnePipe
    BY DEF HelperInit, OnePipe, Blank
<1>3. WrittenIsAsked
    BY DEF HelperInit, WrittenIsAsked
<1>4. DrawnIsShared
    BY DEF HelperInit, DrawnIsShared, Blank, Dark
<1> QED BY <1>1, <1>2, <1>3, <1>4 DEF HelperInv

\* A message at the end of the pipe: u asks for what it says.
LEMMA AskedAfter ==
    ASSUME UiHelperAssumption, NEW a \in Apps, NEW u \in Uis, NEW v \in Uis, NEW ms \in Seq(Msgs),
           NEW sh, NEW m \in Msgs, NEW on, on = Append(ms, m),
           m.msg = "show" => IsOf(v, a, m.of, m.count) /\ m.sel = v.sel,
           m.msg = "update" => v.drawn = u.drawn /\ v.kind = u.kind /\ m.sel = v.sel /\ Asked(u, a, ms, sh)
    PROVE  Asked(v, a, on, sh)
<1>1. /\ Len(ms) \in Nat /\ Len(on) = Len(ms) + 1 /\ on[Len(on)] = m /\ on # <<>>
      /\ \A i \in 1 .. Len(ms) : on[i] = ms[i]
    BY AppendProperties, LenProperties
<1>2. m.msg \in {"show", "update", "hide"}
    BY DEF Msgs, Shows, Updates, Hides
<1>3. CASE Opens(m)
    <2>1. \A k \in 1 .. Len(on) :
             (on[k].msg = "show" /\ \A j \in k + 1 .. Len(on) : ~Opens(on[j])) => k = Len(on)
        BY <1>1, <1>3
    <2>2. ~ \A j \in 1 .. Len(on) : ~Opens(on[j])
        BY <1>1, <1>3
    <2>3. m.msg # "hide" => m.msg = "show"
        BY <1>2, <1>3 DEF Opens
    <2> QED BY <1>1, <2>1, <2>2, <2>3 DEF Asked
<1>4. CASE ~Opens(m)
    <2>1. m.msg = "update"
        BY <1>4 DEF Opens
    <2>2. Asked(u, a, ms, sh) /\ v.drawn = u.drawn /\ v.kind = u.kind /\ m.sel = v.sel
        BY <2>1
    <2>3. \A of, count : IsOf(u, a, of, count) => IsOf(v, a, of, count)
        BY <2>2 DEF IsOf
    <2>4. ASSUME NEW k \in 1 .. Len(on), on[k].msg = "show", \A j \in k + 1 .. Len(on) : ~Opens(on[j])
          PROVE  IsOf(v, a, on[k].of, on[k].count)
        <3>1. k \in 1 .. Len(ms) /\ on[k] = ms[k]
            BY <1>1, <2>1, <2>4
        <3>2. \A j \in k + 1 .. Len(ms) : ~Opens(ms[j])
            BY <1>1, <2>4, <3>1
        <3> QED BY <2>2, <2>3, <2>4, <3>1, <3>2 DEF Asked
    <2>5. ASSUME sh.count # 0, \A j \in 1 .. Len(on) : ~Opens(on[j])
          PROVE  IsOf(v, a, sh.of, sh.count)
        <3>1. \A j \in 1 .. Len(ms) : ~Opens(ms[j])
            BY <1>1, <2>5
        <3> QED BY <2>2, <2>3, <2>5, <3>1 DEF Asked
    <2> QED BY <1>1, <2>2, <2>4, <2>5 DEF Asked
<1> QED BY <1>3, <1>4

\* The client writes: what it has written is what it asks for from now on.
LEMMA Written ==
    ASSUME UiHelperAssumption, HelperTypeOK, OnePipe, WrittenIsAsked, NEW a \in Apps, NEW v \in Uis,
           NEW m \in Msgs, Write(a, m), ui' = [ui EXCEPT ![a] = v], shared' = shared,
           (m.msg = "show" /\ Reaches(a)) => IsOf(v, a, m.of, m.count) /\ m.sel = v.sel,
           m.msg = "update" => v.drawn = ui[a].drawn /\ v.kind = ui[a].kind /\ m.sel = v.sel
    PROVE  /\ OnePipe' /\ WrittenIsAsked' /\ served' \in Clients /\ wire' \in Seq(Msgs)
           /\ handle' \in [Apps -> {"none", "open", "broken"}] /\ cooling' \in [Apps -> BOOLEAN]
           /\ ui' \in [Apps -> Uis]
<1>1. ui' \in [Apps -> Uis] /\ ui'[a] = v /\ \A b \in Apps \ {a} : ui'[b] = ui[b]
    BY DEF HelperTypeOK
<1>2. CASE Reaches(a)
    <2>1. handle' = [handle EXCEPT ![a] = "open"] /\ served' = a /\ wire' = Append(wire, m) /\ cooling' = cooling
        BY <1>2 DEF Write
    <2>2. \A b \in Apps \ {a} : handle[b] # "open"
        BY <1>2 DEF Reaches, CanConnect, OnePipe, UiHelperAssumption
    <2>3. wire' \in Seq(Msgs)
        BY <2>1, AppendProperties DEF HelperTypeOK
    <2>4. Asked(ui[a], a, wire, shared)
        <3>1. CASE handle[a] = "open"
            BY <3>1 DEF WrittenIsAsked
        <3>2. CASE handle[a] # "open"
            <4>1. wire = <<>> /\ shared.count = 0
                BY <1>2, <3>2 DEF Reaches, CanConnect, OnePipe
            <4>2. Len(wire) = 0
                BY <4>1, EmptySeq
            <4> QED BY <4>1, <4>2 DEF Asked
        <3> QED BY <3>1, <3>2
    <2>5. Asked(v, a, Append(wire, m), shared)
        <3>1. ui[a] \in Uis /\ wire \in Seq(Msgs)
            BY DEF HelperTypeOK
        <3>2. PICK x : x = Append(wire, m)
            OBVIOUS
        <3>3. PICK u \in Uis : u = ui[a]
            BY <3>1
        <3>4. Asked(v, a, x, shared)
            BY <1>2, <2>4, <3>1, <3>2, <3>3, AskedAfter
        <3> QED BY <3>2, <3>4
    <2>6. WrittenIsAsked'
        BY <1>1, <2>1, <2>2, <2>5 DEF WrittenIsAsked, HelperTypeOK
    <2>7. OnePipe'
        BY <2>1, <2>2 DEF OnePipe, HelperTypeOK, UiHelperAssumption
    <2> QED BY <1>1, <2>1, <2>3, <2>6, <2>7 DEF HelperTypeOK, Clients
<1>3. CASE ~Reaches(a)
    <2>1. /\ handle' = [handle EXCEPT ![a] = "none"] /\ served' = served /\ wire' = wire
          /\ cooling' = [cooling EXCEPT ![a] = TRUE]
        BY <1>3 DEF Write
    <2>2. WrittenIsAsked'
        BY <1>1, <2>1 DEF WrittenIsAsked, HelperTypeOK
    <2>3. OnePipe'
        BY <2>1 DEF OnePipe, HelperTypeOK
    <2> QED BY <1>1, <2>1, <2>2, <2>3 DEF HelperTypeOK
<1> QED BY <1>2, <1>3

\* The client writes nothing: there is no pipe, or nothing is drawn.
LEMMA Unwritten ==
    ASSUME HelperTypeOK, OnePipe, WrittenIsAsked, NEW a \in Apps, NEW v \in Uis,
           UNCHANGED client, ui' = [ui EXCEPT ![a] = v], shared' = shared,
           handle[a] # "open" \/ ~ui[a].drawn, ~v.drawn
    PROVE  OnePipe' /\ WrittenIsAsked' /\ ui' \in [Apps -> Uis]
<1>1. ui' \in [Apps -> Uis] /\ ui'[a] = v /\ \A b \in Apps \ {a} : ui'[b] = ui[b]
    BY DEF HelperTypeOK
<1>2. UNCHANGED <<handle, wire, served>>
    BY DEF client
<1>3. ASSUME handle[a] = "open" PROVE Asked(v, a, wire, shared)
    <2>1. Asked(ui[a], a, wire, shared) /\ ~ui[a].drawn
        BY <1>3 DEF WrittenIsAsked
    <2>2. \A of, count : ~IsOf(ui[a], a, of, count)
        BY <2>1 DEF IsOf
    <2>3. wire \in Seq(Msgs)
        BY DEF HelperTypeOK
    <2>4. CASE wire = <<>>
        <3>1. Len(wire) = 0
            BY <2>4, EmptySeq
        <3>2. shared.count = 0
            BY <2>1, <2>2, <3>1 DEF Asked
        <3> QED BY <2>4, <3>1, <3>2 DEF Asked
    <2>5. CASE wire # <<>>
        <3>1. \A k \in 1 .. Len(wire) :
                 ~(wire[k].msg = "show" /\ \A j \in k + 1 .. Len(wire) : ~Opens(wire[j]))
            BY <2>1, <2>2 DEF Asked
        <3>2. ~(shared.count # 0 /\ \A j \in 1 .. Len(wire) : ~Opens(wire[j]))
            BY <2>1, <2>2 DEF Asked
        <3> QED BY <2>5, <3>1, <3>2 DEF Asked
    <2> QED BY <2>4, <2>5
<1> QED BY <1>1, <1>2, <1>3 DEF OnePipe, WrittenIsAsked

\* A step of an application leaves the screen alone.
Client ==
    /\ OnePipe /\ WrittenIsAsked /\ served \in Clients /\ wire \in Seq(Msgs)
    /\ handle \in [Apps -> {"none", "open", "broken"}] /\ cooling \in [Apps -> BOOLEAN]
    /\ ui \in [Apps -> Uis]

LEMMA ClientStep ==
    ASSUME HelperInv, Client', UNCHANGED screen, focus' \in Apps
    PROVE  HelperInv'
<1>1. UNCHANGED <<shared, posted, win>>
    BY DEF screen
<1>2. HelperTypeOK'
    BY <1>1 DEF HelperInv, HelperTypeOK, Client
<1>3. DrawnIsShared'
    BY <1>1 DEF HelperInv, DrawnIsShared
<1> QED BY <1>2, <1>3 DEF HelperInv, Client

LEMMA RowsOfKinds == UiHelperAssumption => Rows("list") \in Nat \ {0} /\ Rows("code") \in Nat \ {0}
BY DEF Rows, UiHelperAssumption

LEMMA ShowIsMsg ==
    ASSUME UiHelperAssumption, NEW a \in Apps, NEW kind \in {"list", "code"}, NEW count, count = Rows(kind),
           NEW m, m = [msg |-> "show", of |-> <<a, kind>>, count |-> count, sel |-> 0]
    PROVE  m \in Msgs /\ m.msg = "show" /\ m.of = <<a, kind>> /\ m.count = count /\ m.sel = 0
BY RowsOfKinds DEF Msgs, Shows

\* Asking for a list or a line; a pipe that breaks leaves nothing asked for.
LEMMA ShowStep ==
    ASSUME UiHelperAssumption, HelperInv, NEW a \in Apps, NEW kind \in {"list", "code"}, NEW count,
           count = Rows(kind), UiShow(a, kind, count), NEW v \in Uis, Becomes(a, v), UNCHANGED screen,
           Reaches(a) => v.drawn /\ v.kind = kind /\ v.sel = 0
    PROVE  Client'
<1> DEFINE m == [msg |-> "show", of |-> <<a, kind>>, count |-> count, sel |-> 0]
<1>1. m \in Msgs /\ m.msg = "show" /\ m.of = <<a, kind>> /\ m.count = count /\ m.sel = 0
    BY ShowIsMsg
<1>2. Write(a, m)
    BY DEF UiShow
<1> HIDE DEF m
<1>3. Reaches(a) => IsOf(v, a, m.of, m.count) /\ m.sel = v.sel
    BY <1>1 DEF IsOf
<1>4. /\ HelperTypeOK /\ OnePipe /\ WrittenIsAsked /\ shared' = shared /\ m \in Msgs
      /\ ui' = [ui EXCEPT ![a] = v] /\ ~(m.msg = "update")
    BY <1>1 DEF HelperInv, Becomes, screen
<1> QED BY <1>2, <1>3, <1>4, Written DEF Client

\* Taking away what was asked for.
LEMMA HideStep ==
    ASSUME UiHelperAssumption, HelperInv, NEW a \in Apps, HideWindow(a), Becomes(a, Nothing),
           UNCHANGED screen
    PROVE  Client'
<1>1. /\ HelperTypeOK /\ OnePipe /\ WrittenIsAsked /\ shared' = shared
      /\ ui' = [ui EXCEPT ![a] = Nothing] /\ Nothing \in Uis /\ ~Nothing.drawn
    BY DEF HelperInv, Becomes, screen, Uis, Nothing
<1>2. CASE handle[a] = "none"
    <2>1. UNCHANGED client
        BY <1>2 DEF HideWindow
    <2>2. PICK v \in Uis : v = Nothing
        BY <1>1
    <2>3. OnePipe' /\ WrittenIsAsked' /\ ui' \in [Apps -> Uis]
        BY <1>1, <1>2, <2>1, <2>2, Unwritten
    <2> QED BY <1>1, <2>1, <2>3 DEF Client, client, HelperTypeOK
<1>3. CASE handle[a] # "none"
    <2> DEFINE m == [msg |-> "hide"]
    <2>1. m \in Msgs /\ m.msg = "hide"
        BY DEF Msgs, Hides
    <2>2. Write(a, m)
        BY <1>3 DEF HideWindow
    <2> HIDE DEF m
    <2>3. PICK v \in Uis : v = Nothing
        BY <1>1
    <2> QED BY <1>1, <2>1, <2>2, <2>3, Written DEF Client
<1> QED BY <1>2, <1>3

\* Nothing is written, and nothing asked for.
LEMMA NothingStep ==
    ASSUME HelperInv, NEW a \in Apps, UNCHANGED client, Becomes(a, Nothing), UNCHANGED screen,
           handle[a] # "open" \/ ~ui[a].drawn
    PROVE  Client'
<1>1. /\ HelperTypeOK /\ OnePipe /\ WrittenIsAsked /\ shared' = shared
      /\ ui' = [ui EXCEPT ![a] = Nothing] /\ Nothing \in Uis /\ ~Nothing.drawn
    BY DEF HelperInv, Becomes, screen, Uis, Nothing
<1>2. PICK v \in Uis : v = Nothing
    BY <1>1
<1>3. OnePipe' /\ WrittenIsAsked' /\ ui' \in [Apps -> Uis]
    BY <1>1, <1>2, Unwritten
<1> QED BY <1>1, <1>3 DEF Client, client, HelperTypeOK

\* Nothing is written or changed.
LEMMA SameStep ==
    ASSUME HelperInv, UNCHANGED <<client, ui, screen>>
    PROVE  Client'
BY DEF HelperInv, Client, OnePipe, WrittenIsAsked, HelperTypeOK, client, screen

LEMMA UiKinds ==
    ASSUME UiHelperAssumption, NEW u \in Uis
    PROVE  /\ u.kind = "list" => u.drawn /\ u.sel \in 0 .. Count - 1 /\ u \in Lists
           /\ u.kind = "code" => u.drawn \in BOOLEAN /\ u.sel = 0 /\ u \in Codes
           /\ u.drawn => u.kind \in {"list", "code"} /\ u.sel < Rows(u.kind)
           /\ u.kind \in Kinds /\ u.sel \in Nat /\ Rows(u.kind) \in Nat
<1>1. CASE u = Nothing
    BY <1>1 DEF Nothing, Kinds, Rows
<1>2. CASE u \in Lists
    <2>1. u.kind = "list" /\ u.drawn = TRUE /\ u.sel \in 0 .. Count - 1
        BY <1>2 DEF Lists
    <2>2. Count \in Nat \ {0} /\ Rows("list") = Count
        BY DEF UiHelperAssumption, Rows
    <2> QED BY <1>2, <2>1, <2>2 DEF Kinds
<1>3. CASE u \in Codes
    BY <1>3 DEF Codes, Kinds, Rows
<1> QED BY <1>1, <1>2, <1>3 DEF Uis

\* A key of the list: the new selection is a row of it.
LEMMA MovedIsARow ==
    ASSUME UiHelperAssumption, NEW sel \in 0 .. Count - 1, NEW key \in {"up", "down", "prior", "next"}
    PROVE  Moved(sel, key) \in 0 .. Count - 1
<1> DEFINE page == sel \div PerPage
<1>1. page \in Nat /\ page * PerPage <= sel
    BY DEF UiHelperAssumption
<1>2. PerPage \in Nat \ {0} /\ Count \in Nat \ {0}
    BY DEF UiHelperAssumption
<1>3. page > 0 => (page - 1) * PerPage \in 0 .. Count - 1
    <2>1. page > 0 => (page - 1) * PerPage = page * PerPage - PerPage /\ (page - 1) * PerPage \in Nat
        BY <1>1, <1>2
    <2> QED BY <1>1, <1>2, <2>1
<1>4. (page + 1) * PerPage \in Nat
    BY <1>1, <1>2
<1> HIDE DEF page
<1>5. CASE key = "up"
    BY <1>2, <1>5 DEF Moved
<1>6. CASE key = "down"
    BY <1>2, <1>6 DEF Moved
<1>7. CASE key = "prior"
    <2>1. Moved(sel, key) = IF page > 0 THEN (page - 1) * PerPage ELSE 0
        BY <1>7 DEF Moved, page
    <2> QED BY <1>2, <1>3, <2>1
<1>8. CASE key = "next"
    <2>1. Moved(sel, key) = IF (page + 1) * PerPage < Count THEN (page + 1) * PerPage ELSE sel
        BY <1>8 DEF Moved, page
    <2> QED BY <1>2, <1>4, <2>1
<1> QED BY <1>5, <1>6, <1>7, <1>8

LEMMA ListKeyStep ==
    ASSUME UiHelperAssumption, HelperInv, NEW a \in Apps, UiCandHandleKey(a)
    PROVE  HelperInv'
<1>1. UNCHANGED screen /\ focus' = focus /\ focus \in Apps
    BY DEF UiCandHandleKey, Rest, HelperInv, HelperTypeOK
<1>2. ui[a] \in Uis /\ ui[a].kind = "list"
    BY DEF UiCandHandleKey, HelperInv, HelperTypeOK
<1>3. ASSUME UiCandHide(a) PROVE Client'
    BY <1>1, <1>3, HideStep DEF UiCandHide
<1>4. ASSUME NEW key \in {"up", "down", "prior", "next"},
             Becomes(a, [ui[a] EXCEPT !.sel = Moved(@, key)]), Update(a, Moved(ui[a].sel, key))
      PROVE  Client'
    <2> DEFINE to == Moved(ui[a].sel, key)
               v == [ui[a] EXCEPT !.sel = Moved(@, key)]
               m == [msg |-> "update", sel |-> to]
    <2>1. ui[a] \in Lists /\ ui[a].sel \in 0 .. Count - 1
        BY <1>2, UiKinds
    <2>2. to \in 0 .. Count - 1
        BY <2>1, MovedIsARow
    <2> HIDE DEF to
    <2>3. v = [ui[a] EXCEPT !.sel = to]
        BY DEF to
    <2> HIDE DEF v
    <2>4. v \in Uis /\ v.drawn = ui[a].drawn /\ v.kind = ui[a].kind /\ v.sel = to
        BY <2>1, <2>2, <2>3 DEF Uis, Lists
    <2>5. m \in Msgs /\ m.msg = "update" /\ m.sel = to
        BY <2>2 DEF Msgs, Updates
    <2>6. Write(a, m)
        BY <1>4 DEF Update, to
    <2>7. /\ HelperTypeOK /\ OnePipe /\ WrittenIsAsked /\ shared' = shared
          /\ ui' = [ui EXCEPT ![a] = v]
        BY <1>1, <1>4 DEF HelperInv, Becomes, screen, v
    <2> HIDE DEF m
    <2> QED BY <2>4, <2>5, <2>6, <2>7, Written DEF Client
<1>5. Client'
    BY <1>3, <1>4 DEF UiCandHandleKey, MoveKey
<1> QED BY <1>1, <1>5, ClientStep

\* UiCandShow and OpenCodeInput.
LEMMA OpenStep ==
    ASSUME UiHelperAssumption, HelperInv, NEW a \in Apps, UiCandShow(a) \/ OpenCodeInput(a)
    PROVE  HelperInv'
<1>1. UNCHANGED screen /\ focus' = focus /\ focus \in Apps
    BY DEF UiCandShow, OpenCodeInput, Rest, HelperInv, HelperTypeOK
<1>2. PICK kind \in {"list", "code"} :
         /\ IF Available(a) THEN UiShow(a, kind, Rows(kind)) ELSE UNCHANGED client
         /\ Becomes(a, IF Available(a) /\ Reaches(a)
                       THEN [kind |-> kind, sel |-> 0, drawn |-> TRUE] ELSE Nothing)
    <2>1. CASE UiCandShow(a)
        <3>1. Rows("list") = Count
            BY DEF Rows
        <3> QED BY <2>1, <3>1 DEF UiCandShow
    <2>2. CASE OpenCodeInput(a)
        <3>1. Rows("code") = 1
            BY DEF Rows
        <3> QED BY <2>2, <3>1 DEF OpenCodeInput
    <2> QED BY <2>1, <2>2
<1>3. CASE Available(a)
    <2> DEFINE v == IF Reaches(a) THEN [kind |-> kind, sel |-> 0, drawn |-> TRUE] ELSE Nothing
    <2>1. v \in Uis
        BY DEF Uis, Lists, Codes, UiHelperAssumption
    <2>2. Reaches(a) => v.drawn /\ v.kind = kind /\ v.sel = 0
        OBVIOUS
    <2>3. Becomes(a, v)
        BY <1>2, <1>3
    <2>4. PICK count : count = Rows(kind)
        OBVIOUS
    <2>5. UiShow(a, kind, count)
        BY <1>2, <1>3, <2>4
    <2> HIDE DEF v
    <2>6. Client'
        BY <1>1, <2>1, <2>2, <2>3, <2>4, <2>5, ShowStep
    <2> QED BY <1>1, <2>6, ClientStep
<1>4. CASE ~Available(a)
    <2>1. UNCHANGED client /\ Becomes(a, Nothing) /\ handle[a] = "none"
        BY <1>2, <1>4 DEF Available
    <2>2. Client'
        BY <1>1, <2>1, NothingStep
    <2> QED BY <1>1, <2>2, ClientStep
<1> QED BY <1>3, <1>4

\* The line is drawn again, or is not any more.
LEMMA RedrawStep ==
    ASSUME UiHelperAssumption, HelperInv, NEW a \in Apps, ui[a].kind = "code", ui[a].drawn,
           UiShow(a, "code", 1), Becomes(a, [ui[a] EXCEPT !.drawn = Reaches(a)]), UNCHANGED screen
    PROVE  Client'
<1> DEFINE v == [ui[a] EXCEPT !.drawn = Reaches(a)]
<1>1. ui[a] \in Codes /\ Reaches(a) \in BOOLEAN
    BY UiKinds DEF HelperInv, HelperTypeOK, Reaches, CanConnect
<1>2. v \in Uis /\ v.kind = "code" /\ v.sel = 0 /\ v.drawn = Reaches(a)
    BY <1>1 DEF Uis, Codes
<1>3. Becomes(a, v)
    OBVIOUS
<1> HIDE DEF v
<1>4. 1 = Rows("code")
    BY DEF Rows
<1>5. PICK count : count = 1
    OBVIOUS
<1>6. PICK kind \in {"list", "code"} : kind = "code"
    OBVIOUS
<1>7. UiShow(a, kind, count) /\ count = Rows(kind) /\ (Reaches(a) => v.drawn /\ v.kind = kind /\ v.sel = 0)
    BY <1>2, <1>4, <1>5, <1>6
<1> QED BY <1>2, <1>3, <1>7, ShowStep

LEMMA CodeKeyStep ==
    ASSUME UiHelperAssumption, HelperInv, NEW a \in Apps, CodeKey(a)
    PROVE  HelperInv'
<1>1. UNCHANGED screen /\ focus' = focus /\ focus \in Apps /\ ui[a].kind = "code"
    BY DEF CodeKey, Rest, HelperInv, HelperTypeOK
<1>2. CASE ui[a].drawn
    <2>1. UiShow(a, "code", 1) /\ Becomes(a, [ui[a] EXCEPT !.drawn = Reaches(a)])
        BY <1>2 DEF CodeKey
    <2>2. Client'
        BY <1>1, <1>2, <2>1, RedrawStep
    <2> QED BY <1>1, <2>2, ClientStep
<1>3. CASE ~ui[a].drawn
    <2>1. UNCHANGED <<client, ui, screen>>
        BY <1>1, <1>3 DEF CodeKey
    <2> QED BY <1>1, <2>1, SameStep, ClientStep
<1> QED BY <1>2, <1>3

LEMMA CodeEndStep ==
    ASSUME UiHelperAssumption, HelperInv, NEW a \in Apps, CodeEnd(a)
    PROVE  HelperInv'
<1>1. UNCHANGED screen /\ focus' = focus /\ focus \in Apps /\ Becomes(a, Nothing)
    BY DEF CodeEnd, Rest, HelperInv, HelperTypeOK
<1>2. CASE ui[a].drawn
    <2>1. HideWindow(a)
        BY <1>2 DEF CodeEnd
    <2>2. Client'
        BY <1>1, <2>1, HideStep
    <2> QED BY <1>1, <2>2, ClientStep
<1>3. CASE ~ui[a].drawn
    <2>1. UNCHANGED client
        BY <1>3 DEF CodeEnd
    <2>2. Client'
        BY <1>1, <1>3, <2>1, NothingStep
    <2> QED BY <1>1, <2>2, ClientStep
<1> QED BY <1>2, <1>3

LEMMA FocusStep ==
    ASSUME UiHelperAssumption, HelperInv, NEW b \in Apps, FocusTo(b)
    PROVE  HelperInv'
<1>1. UNCHANGED screen /\ focus' \in Apps /\ DismissTransientUi(focus)
    BY DEF FocusTo
<1>2. PICK a \in Apps : a = focus
    BY DEF HelperInv, HelperTypeOK
<1>3. CASE ui[a].drawn
    <2>1. HideWindow(a) /\ Becomes(a, Nothing)
        BY <1>1, <1>2, <1>3 DEF DismissTransientUi, UiCandHide
    <2>2. Client'
        BY <1>1, <2>1, HideStep
    <2> QED BY <1>1, <2>2, ClientStep
<1>4. CASE ~ui[a].drawn
    <2>1. UNCHANGED client /\ Becomes(a, Nothing)
        BY <1>1, <1>2, <1>4 DEF DismissTransientUi
    <2>2. Client'
        BY <1>1, <1>4, <2>1, NothingStep
    <2> QED BY <1>1, <2>2, ClientStep
<1> QED BY <1>3, <1>4

LEMMA DigitStep ==
    ASSUME UiHelperAssumption, HelperInv, DigitOfClick
    PROVE  HelperInv'
<1>1. UNCHANGED screen /\ focus' = focus /\ focus \in Apps
    BY DEF DigitOfClick, Rest, HelperInv, HelperTypeOK
<1>2. PICK a \in Apps : a = focus
    BY <1>1
<1>3. CASE ui[a].kind = "list"
    <2>1. HideWindow(a) /\ Becomes(a, Nothing)
        BY <1>2, <1>3 DEF DigitOfClick, UiCandHide
    <2>2. Client'
        BY <1>1, <2>1, HideStep
    <2> QED BY <1>1, <2>2, ClientStep
<1>4. CASE ui[a].kind = "code" /\ ui[a].drawn
    <2>1. UiShow(a, "code", 1) /\ Becomes(a, [ui[a] EXCEPT !.drawn = Reaches(a)])
        BY <1>2, <1>4 DEF DigitOfClick
    <2>2. Client'
        BY <1>1, <1>4, <2>1, RedrawStep
    <2> QED BY <1>1, <2>2, ClientStep
<1>5. CASE ui[a].kind # "list" /\ ~(ui[a].kind = "code" /\ ui[a].drawn)
    <2>1. UNCHANGED <<client, ui, screen>>
        BY <1>1, <1>2, <1>5 DEF DigitOfClick
    <2> QED BY <1>1, <2>1, SameStep, ClientStep
<1> QED BY <1>3, <1>4, <1>5

\* The rest of a sequence, and one more at its end.
LEMMA RestOf ==
    ASSUME NEW S, NEW q \in Seq(S), q # <<>>
    PROVE  /\ Tail(q) \in Seq(S) /\ Head(q) = q[1] /\ Head(q) \in S /\ Len(q) \in Nat \ {0}
           /\ Len(Tail(q)) = Len(q) - 1
           /\ \A i \in 1 .. Len(q) - 1 : Tail(q)[i] = q[i + 1]
BY HeadTailProperties, LenProperties, EmptySeq, ElementOfSeq

\* What the helper reads of the pipe it no longer holds there.
LEMMA AskedRead ==
    ASSUME UiHelperAssumption, NEW a, NEW u \in Uis, NEW ms \in Seq(Msgs), ms # <<>>, NEW sh, NEW to,
           NEW m, m = Head(ms), NEW rest, rest = Tail(ms), Asked(u, a, ms, sh),
           m.msg = "hide" => to.count = 0,
           m.msg = "show" => to.of = m.of /\ to.count = m.count /\ to.sel = m.sel,
           m.msg = "update" => /\ to.of = sh.of /\ to.count = sh.count
                               /\ m.sel < sh.count => to.sel = m.sel
    PROVE  Asked(u, a, rest, to)
<1>1. /\ rest \in Seq(Msgs) /\ m = ms[1] /\ m \in Msgs /\ Len(ms) \in Nat \ {0}
      /\ Len(rest) = Len(ms) - 1 /\ \A i \in 1 .. Len(ms) - 1 : rest[i] = ms[i + 1]
    BY RestOf
<1>2. m.msg \in {"show", "update", "hide"}
    BY <1>1 DEF Msgs, Shows, Updates, Hides
<1>3. ASSUME NEW k \in 1 .. Len(rest), rest[k].msg = "show", \A j \in k + 1 .. Len(rest) : ~Opens(rest[j])
      PROVE  IsOf(u, a, rest[k].of, rest[k].count)
    <2>1. k + 1 \in 1 .. Len(ms) /\ rest[k] = ms[k + 1]
        BY <1>1
    <2>2. ASSUME NEW j \in k + 2 .. Len(ms) PROVE ~Opens(ms[j])
        <3>1. j - 1 \in k + 1 .. Len(rest) /\ rest[j - 1] = ms[j]
            BY <1>1
        <3> QED BY <1>3, <3>1
    <2>3. \A j \in (k + 1) + 1 .. Len(ms) : ~Opens(ms[j])
        BY <1>1, <2>2
    <2> QED BY <1>3, <2>1, <2>3 DEF Asked
<1>4. ASSUME to.count # 0, \A j \in 1 .. Len(rest) : ~Opens(rest[j])
      PROVE  /\ IsOf(u, a, to.of, to.count)
             /\ m.msg = "update" => IsOf(u, a, sh.of, sh.count)
    <2>1. ASSUME NEW j \in 2 .. Len(ms) PROVE ~Opens(ms[j])
        <3>1. j - 1 \in 1 .. Len(rest) /\ rest[j - 1] = ms[j]
            BY <1>1
        <3> QED BY <1>4, <3>1
    <2>2. CASE m.msg = "show"
        <3>1. 1 \in 1 .. Len(ms) /\ ms[1].msg = "show" /\ \A j \in 1 + 1 .. Len(ms) : ~Opens(ms[j])
            BY <1>1, <2>1, <2>2
        <3>2. IsOf(u, a, ms[1].of, ms[1].count)
            BY <3>1 DEF Asked
        <3> QED BY <1>1, <2>2, <3>2
    <2>3. CASE m.msg = "update"
        <3>1. \A j \in 1 .. Len(ms) : ~Opens(ms[j])
            BY <1>1, <2>1, <2>3 DEF Opens
        <3>2. IsOf(u, a, sh.of, sh.count)
            BY <1>4, <2>3, <3>1 DEF Asked
        <3> QED BY <2>3, <3>2
    <2> QED BY <1>2, <1>4, <2>2, <2>3
<1>5. rest # <<>> => rest[Len(rest)] = ms[Len(ms)]
    <2>1. rest # <<>> => Len(rest) # 0
        BY <1>1, EmptySeq
    <2> QED BY <1>1, <2>1
<1>6. ASSUME rest = <<>>, to.count # 0 PROVE to.sel = u.sel
    <2>1. Len(rest) = 0 /\ Len(ms) = 1
        <3>1. Len(rest) = 0
            BY <1>6, EmptySeq
        <3>2. Len(rest) = Len(ms) - 1 /\ Len(ms) \in Nat
            BY <1>1
        <3> QED BY <3>1, <3>2
    <2>2. IsOf(u, a, to.of, to.count) /\ (m.msg = "update" => IsOf(u, a, sh.of, sh.count))
        BY <1>4, <1>6, <2>1
    <2>3. m.sel = u.sel
        BY <1>1, <1>6, <2>1, <2>2 DEF Asked, IsOf
    <2>4. u.drawn => u.sel < Rows(u.kind)
        BY UiKinds
    <2>5. m.msg = "update" => m.sel < sh.count
        BY <2>2, <2>3, <2>4 DEF IsOf
    <2> QED BY <1>2, <1>6, <2>3, <2>5
<1> QED BY <1>3, <1>4, <1>5, <1>6 DEF Asked

LEMMA ReadStep ==
    ASSUME UiHelperAssumption, HelperInv, ReadPipe
    PROVE  HelperInv'
<1>1. /\ wire # <<>> /\ wire' = Tail(wire) /\ ApplyMessage(Head(wire))
      /\ UNCHANGED <<served, win, handle, cooling, ui, focus>>
    BY DEF ReadPipe
<1>2. HelperTypeOK /\ OnePipe /\ WrittenIsAsked /\ DrawnIsShared
    BY DEF HelperInv
<1> DEFINE m == Head(wire)
<1>3. m \in Msgs /\ wire' \in Seq(Msgs) /\ m.msg \in {"show", "update", "hide"}
    <2>1. m \in Msgs /\ wire' \in Seq(Msgs)
        BY <1>1, <1>2, RestOf DEF HelperTypeOK
    <2> QED BY <2>1 DEF Msgs, Shows, Updates, Hides
<1>4. ApplyMessage(m)
    BY <1>1
<1>5. m = Head(wire)
    OBVIOUS
<1> HIDE DEF m
<1>6. /\ posted' = Append(posted, m.msg)
      /\ m.msg = "hide" => shared' = [shared EXCEPT !.count = 0]
      /\ m.msg = "show" => shared' = [of |-> m.of, count |-> m.count, sel |-> m.sel]
      /\ m.msg = "update" =>
            shared' = [shared EXCEPT !.sel = IF m.sel < shared.count THEN m.sel ELSE @]
    BY <1>3, <1>4 DEF ApplyMessage, Posts
<1>7. /\ m.msg = "show" => m.of \in Clients \X Kinds /\ m.count \in Nat \ {0} /\ m.sel \in Nat
      /\ m.msg = "update" => m.sel \in Nat
    BY <1>3 DEF Msgs, Shows, Updates, Hides, Clients, Kinds
<1>8. shared \in [of : Clients \X Kinds, count : Nat, sel : Nat]
    BY <1>2 DEF HelperTypeOK
<1>9. /\ shared' \in [of : Clients \X Kinds, count : Nat, sel : Nat]
      /\ m.msg = "hide" => shared'.count = 0
      /\ m.msg = "show" => shared'.of = m.of /\ shared'.count = m.count /\ shared'.sel = m.sel
      /\ m.msg = "update" => /\ shared'.of = shared.of /\ shared'.count = shared.count
                             /\ m.sel < shared.count => shared'.sel = m.sel
    BY <1>3, <1>6, <1>7, <1>8
<1>10. /\ posted' \in Seq({"show", "update", "hide"}) /\ posted' # <<>>
       /\ Len(posted) \in Nat /\ Len(posted') = Len(posted) + 1 /\ posted'[Len(posted')] = m.msg
       /\ \A i \in 1 .. Len(posted) : posted'[i] = posted[i]
    BY <1>2, <1>3, <1>6, AppendProperties, LenProperties DEF HelperTypeOK
<1>11. HelperTypeOK'
    BY <1>1, <1>2, <1>3, <1>9, <1>10 DEF HelperTypeOK
<1>12. OnePipe'
    BY <1>1, <1>2 DEF OnePipe
<1>13. WrittenIsAsked'
    <2> SUFFICES ASSUME NEW a \in Apps, handle[a] = "open" PROVE Asked(ui[a], a, wire', shared')
        BY <1>1 DEF WrittenIsAsked
    <2>1. Asked(ui[a], a, wire, shared) /\ ui[a] \in Uis /\ wire \in Seq(Msgs)
        BY <1>2 DEF WrittenIsAsked, HelperTypeOK
    <2>2. PICK u \in Uis : u = ui[a]
        BY <2>1
    <2>3. PICK to : to = shared'
        OBVIOUS
    <2>4. PICK rest : rest = Tail(wire)
        OBVIOUS
    <2>5. Asked(u, a, rest, to)
        BY <1>1, <1>5, <1>9, <2>1, <2>2, <2>3, <2>4, AskedRead
    <2> QED BY <1>1, <2>2, <2>3, <2>4, <2>5
<1>14. DrawnIsShared'
    <2>1. (shared.count = 0 /\ win.shown) => \E k \in 1 .. Len(posted) : posted[k] = "hide"
        BY <1>2 DEF DrawnIsShared
    <2>2. shared'.count # 0 => m.msg # "hide"
        BY <1>9
    <2>3. (shared'.count = 0 /\ win.shown) => \E k \in 1 .. Len(posted') : posted'[k] = "hide"
        <3>1. CASE m.msg = "hide"
            BY <1>10, <3>1
        <3>2. CASE m.msg = "show"
            BY <1>7, <1>9, <3>2
        <3>3. CASE m.msg = "update"
            BY <1>9, <1>10, <2>1, <3>3
        <3> QED BY <1>3, <3>1, <3>2, <3>3
    <2> QED BY <1>1, <1>10, <2>2, <2>3 DEF DrawnIsShared
<1> QED BY <1>11, <1>12, <1>13, <1>14 DEF HelperInv

\* SrvWndProc handles what was posted first.
LEMMA WindowStep ==
    ASSUME UiHelperAssumption, HelperInv, SrvWndProc
    PROVE  HelperInv'
<1>1. /\ posted # <<>> /\ posted' = Tail(posted) /\ UNCHANGED <<system, client, shared, ui, focus>>
      /\ IF Head(posted) = "hide" THEN win' = Dark
         ELSE win' = IF shared.count <= 0 THEN win
                     ELSE [shown |-> TRUE, of |-> shared.of, sel |-> shared.sel]
    BY DEF SrvWndProc, PlaceWindow
<1>2. UNCHANGED <<handle, cooling, served, wire, shared, ui, focus>>
    BY <1>1 DEF client
<1>3. HelperTypeOK /\ OnePipe /\ WrittenIsAsked /\ DrawnIsShared
    BY DEF HelperInv
<1>4. /\ posted' \in Seq({"show", "update", "hide"}) /\ Head(posted) = posted[1] /\ Len(posted) \in Nat \ {0}
      /\ Len(posted') = Len(posted) - 1 /\ \A i \in 1 .. Len(posted) - 1 : posted'[i] = posted[i + 1]
    <2>1. PICK S : S = {"show", "update", "hide"}
        OBVIOUS
    <2>2. posted \in Seq(S)
        BY <1>3, <2>1 DEF HelperTypeOK
    <2>3. /\ Tail(posted) \in Seq(S) /\ Head(posted) = posted[1] /\ Len(posted) \in Nat \ {0}
          /\ Len(Tail(posted)) = Len(posted) - 1
          /\ \A i \in 1 .. Len(posted) - 1 : Tail(posted)[i] = posted[i + 1]
        BY <1>1, <2>2, RestOf
    <2> QED BY <1>1, <2>1, <2>3
<1>5. shared \in [of : Clients \X Kinds, count : Nat, sel : Nat]
    BY <1>3 DEF HelperTypeOK
<1>6. win' \in [shown : BOOLEAN, of : Clients \X Kinds, sel : Nat]
    <2>1. <<NoApp, "none">> \in Clients \X Kinds
        BY DEF Clients, Kinds
    <2>2. Dark \in [shown : BOOLEAN, of : Clients \X Kinds, sel : Nat]
        BY <2>1 DEF Dark
    <2>3. [shown |-> TRUE, of |-> shared.of, sel |-> shared.sel] \in [shown : BOOLEAN, of : Clients \X Kinds, sel : Nat]
        BY <1>5
    <2>4. win \in [shown : BOOLEAN, of : Clients \X Kinds, sel : Nat]
        BY <1>3 DEF HelperTypeOK
    <2> QED BY <1>1, <2>2, <2>3, <2>4
<1>7. HelperTypeOK'
    BY <1>2, <1>3, <1>4, <1>6 DEF HelperTypeOK
<1>8. OnePipe' /\ WrittenIsAsked'
    BY <1>2, <1>3 DEF OnePipe, WrittenIsAsked
<1>9. posted' = <<>> <=> Len(posted) = 1
    <2>1. posted' = <<>> <=> Len(posted') = 0
        BY <1>4, EmptySeq
    <2> QED BY <1>4, <2>1
<1>10. posted' # <<>> => posted'[Len(posted')] = posted[Len(posted)]
    BY <1>4, <1>9
<1>11. CASE shared.count = 0
    <2>1. win'.shown => win.shown /\ Head(posted) # "hide"
        BY <1>1, <1>11 DEF Dark
    <2>2. ASSUME win'.shown PROVE \E k \in 1 .. Len(posted') : posted'[k] = "hide"
        <3>1. PICK k \in 1 .. Len(posted) : posted[k] = "hide"
            BY <1>3, <1>11, <2>1, <2>2 DEF DrawnIsShared
        <3>2. k # 1
            BY <1>4, <2>1, <2>2, <3>1
        <3>3. k - 1 \in 1 .. Len(posted') /\ posted'[k - 1] = "hide"
            BY <1>4, <3>1, <3>2
        <3> QED BY <3>3
    <2>3. shared'.count = 0
        BY <1>2, <1>11
    <2>4. DrawnIsShared'
        BY <2>2, <2>3 DEF DrawnIsShared
    <2> QED BY <1>7, <1>8, <2>4 DEF HelperInv
<1>12. CASE shared.count # 0
    <2>1. posted[Len(posted)] # "hide"
        BY <1>1, <1>3, <1>12 DEF DrawnIsShared
    <2>2. ASSUME posted' = <<>> PROVE win' = [shown |-> TRUE, of |-> shared.of, sel |-> shared.sel]
        <3>1. Head(posted) # "hide"
            BY <1>4, <1>9, <2>1, <2>2
        <3>2. ~(shared.count <= 0)
            BY <1>5, <1>12
        <3> QED BY <1>1, <3>1, <3>2
    <2>3. posted' = <<>> => win'.shown /\ win'.of = shared.of /\ win'.sel = shared.sel
        BY <2>2
    <2>4. shared'.count # 0 /\ shared'.of = shared.of /\ shared'.sel = shared.sel
        BY <1>2, <1>12
    <2>5. posted' # <<>> => posted'[Len(posted')] # "hide"
        BY <1>10, <2>1
    <2>6. DrawnIsShared'
        BY <2>3, <2>4, <2>5 DEF DrawnIsShared
    <2> QED BY <1>7, <1>8, <2>6 DEF HelperInv
<1> QED BY <1>11, <1>12

\* The client is gone, and its list with it.
LEMMA GoneStep ==
    ASSUME UiHelperAssumption, HelperInv, ClientGone
    PROVE  HelperInv'
<1>1. /\ served' = NoApp /\ wire = <<>> /\ handle[served] # "open" /\ served # NoApp
      /\ shared' = [shared EXCEPT !.count = 0] /\ posted' = Append(posted, "hide")
      /\ UNCHANGED <<wire, win, handle, cooling, ui, focus>>
    BY DEF ClientGone, ClearTheList, Posts
<1>2. HelperTypeOK /\ OnePipe /\ WrittenIsAsked /\ DrawnIsShared
    BY DEF HelperInv
<1>3. shared' \in [of : Clients \X Kinds, count : Nat, sel : Nat] /\ shared'.count = 0
    BY <1>1, <1>2 DEF HelperTypeOK
<1>4. /\ posted' \in Seq({"show", "update", "hide"}) /\ Len(posted) \in Nat
      /\ Len(posted') = Len(posted) + 1 /\ posted'[Len(posted')] = "hide"
    BY <1>1, <1>2, AppendProperties, LenProperties DEF HelperTypeOK
<1>5. HelperTypeOK'
    BY <1>1, <1>2, <1>3, <1>4 DEF HelperTypeOK, Clients
<1>6. \A a \in Apps : handle[a] # "open"
    BY <1>1, <1>2 DEF OnePipe
<1>7. OnePipe' /\ WrittenIsAsked'
    BY <1>1, <1>2, <1>3, <1>6 DEF OnePipe, WrittenIsAsked
<1>8. DrawnIsShared'
    BY <1>3, <1>4 DEF DrawnIsShared
<1> QED BY <1>5, <1>7, <1>8 DEF HelperInv

\* The helper ends: every pipe breaks, and the window goes.
LEMMA EndStep ==
    ASSUME UiHelperAssumption, HelperInv, HelperEnds, UNCHANGED <<cooling, ui, focus>>
    PROVE  HelperInv'
<1>1. /\ handle' = [a \in Apps |-> IF handle[a] = "open" THEN "broken" ELSE handle[a]]
      /\ served' = NoApp /\ wire' = <<>> /\ shared' = Blank /\ posted' = <<>> /\ win' = Dark
      /\ UNCHANGED <<cooling, ui, focus>>
    BY DEF HelperEnds
<1>2. HelperTypeOK
    BY DEF HelperInv
<1>3. HelperTypeOK'
    <2>1. <<NoApp, "none">> \in Clients \X Kinds
        BY DEF Clients, Kinds
    <2>2. wire' \in Seq(Msgs) /\ posted' \in Seq({"show", "update", "hide"})
        BY <1>1, EmptySeq
    <2>3. handle' \in [Apps -> {"none", "open", "broken"}]
        BY <1>1, <1>2 DEF HelperTypeOK
    <2> QED BY <1>1, <1>2, <2>1, <2>2, <2>3 DEF HelperTypeOK, Blank, Dark, Clients
<1>4. \A a \in Apps : handle'[a] # "open"
    BY <1>1
<1>5. OnePipe' /\ WrittenIsAsked' /\ DrawnIsShared'
    BY <1>1, <1>4 DEF OnePipe, WrittenIsAsked, DrawnIsShared, Blank, Dark
<1> QED BY <1>3, <1>5 DEF HelperInv

LEMMA AppDiesStep ==
    ASSUME UiHelperAssumption, HelperInv, NEW a \in Apps, AppDies(a)
    PROVE  HelperInv'
<1>1. /\ handle' = [handle EXCEPT ![a] = "none"] /\ cooling' = [cooling EXCEPT ![a] = FALSE]
      /\ ui' = [ui EXCEPT ![a] = Nothing] /\ UNCHANGED <<served, wire, screen, focus>>
    BY DEF AppDies, Becomes
<1>2. HelperTypeOK /\ OnePipe /\ WrittenIsAsked /\ UNCHANGED <<shared, posted, win>>
    BY <1>1 DEF HelperInv, screen
<1>3. handle' \in [Apps -> {"none", "open", "broken"}] /\ cooling' \in [Apps -> BOOLEAN]
      /\ ui' \in [Apps -> Uis] /\ \A b \in Apps : handle'[b] = "open" => handle[b] = "open" /\ ui'[b] = ui[b]
    BY <1>1, <1>2 DEF HelperTypeOK, Uis
<1>4. Client'
    BY <1>1, <1>2, <1>3 DEF Client, OnePipe, WrittenIsAsked, HelperTypeOK
<1> QED BY <1>1, <1>2, <1>4, ClientStep DEF HelperTypeOK

LEMMA NextHelper == UiHelperAssumption /\ HelperInv /\ [HelperNext]_helperVars => HelperInv'
<1> SUFFICES ASSUME UiHelperAssumption, HelperInv, [HelperNext]_helperVars PROVE HelperInv'
    OBVIOUS
<1>1. ASSUME NEW a \in Apps, CoolDown(a) PROVE HelperInv'
    <2>1. cooling' = [cooling EXCEPT ![a] = FALSE] /\ UNCHANGED <<screen, handle, served, wire, ui, focus>>
        BY <1>1 DEF CoolDown
    <2>2. HelperTypeOK /\ OnePipe /\ WrittenIsAsked /\ UNCHANGED <<shared, posted, win>>
        BY <2>1 DEF HelperInv, screen
    <2>3. Client' /\ focus' \in Apps
        BY <2>1, <2>2 DEF Client, OnePipe, WrittenIsAsked, HelperTypeOK
    <2> QED BY <2>1, <2>3, ClientStep
<1>2. ASSUME NEW a \in Apps, UiCandShow(a) \/ OpenCodeInput(a) PROVE HelperInv'
    BY <1>2, OpenStep
<1>3. ASSUME NEW a \in Apps, UiCandHandleKey(a) PROVE HelperInv'
    BY <1>3, ListKeyStep
<1>4. ASSUME NEW a \in Apps, CodeKey(a) PROVE HelperInv'
    BY <1>4, CodeKeyStep
<1>5. ASSUME NEW a \in Apps, CodeEnd(a) PROVE HelperInv'
    BY <1>5, CodeEndStep
<1>6. ASSUME NEW a \in Apps, FocusTo(a) PROVE HelperInv'
    BY <1>6, FocusStep
<1>7. ASSUME NEW a \in Apps, AppDies(a) PROVE HelperInv'
    BY <1>7, AppDiesStep
<1>8. ASSUME StaleTimer \/ HelperDies PROVE HelperInv'
    <2>1. HelperEnds /\ UNCHANGED <<cooling, ui, focus>>
        BY <1>8 DEF StaleTimer, HelperDies
    <2> QED BY <2>1, EndStep
<1>9. ASSUME Click \/ EnsureUiHelperRunning \/ Install \/ UNCHANGED helperVars PROVE HelperInv'
    <2>1. UNCHANGED <<client, screen, ui, focus>>
        BY <1>9 DEF Click, EnsureUiHelperRunning, Install, helperVars, client, screen
    <2>2. Client' /\ focus' \in Apps
        BY <2>1, SameStep DEF HelperInv, HelperTypeOK
    <2> QED BY <2>1, <2>2, ClientStep
<1> QED BY <1>1, <1>2, <1>3, <1>4, <1>5, <1>6, <1>7, <1>8, <1>9, DigitStep, ReadStep, GoneStep, WindowStep
        DEF HelperNext

-----------------------------------------------------------------------------
\* When the helper has caught up, what it draws is what an application asks for now, with its
\* selection (ApplyMessage, PlaceWindow, UiCandHide): for any applications, lists and deaths.
THEOREM ScreenShowsWhatIsAsked ==
    ASSUME UiHelperAssumption
    PROVE  HelperSpec => []ScreenIsAskedFor
<1>1. HelperInv => ScreenIsAskedFor
    <2> SUFFICES ASSUME HelperInv, wire = <<>>, posted = <<>>, win.shown,
                        served # NoApp => handle[served] = "open"
                 PROVE  \E a \in Apps : win.of = <<a, ui[a].kind>> /\ ui[a].drawn /\ win.sel = ui[a].sel
        BY DEF ScreenIsAskedFor
    <2>1. HelperTypeOK /\ OnePipe /\ WrittenIsAsked /\ DrawnIsShared
        BY DEF HelperInv
    <2>2. Len(wire) = 0 /\ Len(posted) = 0
        BY EmptySeq
    <2>3. shared.count # 0
        BY <2>1, <2>2 DEF DrawnIsShared
    <2>4. win.of = shared.of /\ win.sel = shared.sel
        BY <2>1, <2>3 DEF DrawnIsShared
    <2>5. served \in Apps /\ handle[served] = "open"
        BY <2>1, <2>3 DEF OnePipe, HelperTypeOK, Clients
    <2>6. Asked(ui[served], served, wire, shared)
        BY <2>1, <2>5 DEF WrittenIsAsked
    <2>7. IsOf(ui[served], served, shared.of, shared.count) /\ shared.sel = ui[served].sel
        BY <2>2, <2>3, <2>6 DEF Asked
    <2> QED BY <2>4, <2>5, <2>7 DEF IsOf
<1>2. HelperInit => HelperInv
    BY InitHelper
<1>3. HelperInv /\ [HelperNext]_helperVars => HelperInv'
    BY NextHelper
<1> QED BY <1>1, <1>2, <1>3, PTL DEF HelperSpec
-----------------------------------------------------------------------------
(* The removal *)

\* Only programs and their DLLs are ever held, so only those wait for a restart; and what
\* the tool has called done stays so.
RemovalInv ==
    /\ product \in BOOLEAN /\ named \in BOOLEAN /\ registry \subseteq RegKeys
    /\ held \subseteq {"exe", "dll", "ime"} /\ atRestart \subseteq {"exe", "dll", "ime"}
    /\ DoneMeansGone

LEMMA RemovalStarts == RemovalInit => RemovalInv
BY DEF RemovalInit, RemovalInv, DoneMeansGone

\* With nothing found, nothing is there.
LEMMA NothingFound ==
    ASSUME product \in BOOLEAN, registry \subseteq RegKeys,
           Found(onDisk, registry, product) \ {"settings"} = {}
    PROVE  registry = {} /\ ~product /\ "ime" \notin onDisk /\ (named => Traces = {})
<1>1. registry = {} /\ ~product /\ "ime" \notin onDisk
    BY DEF Found, RegKeys
<1>2. named => onDisk \cap InFolder = {}
    BY DEF Found, FolderKnown
<1> QED BY <1>1, <1>2 DEF Traces, InFolder, OurFiles

LEMMA RemovalKeeps == RemovalInv /\ [RemovalNext]_removalVars => RemovalInv'
<1> SUFFICES ASSUME RemovalInv, [RemovalNext]_removalVars PROVE RemovalInv'
    OBVIOUS
<1> USE DEF machine, tool
<1>1. ASSUME UNCHANGED machine, pc' # "ended" \/ (pc = "ended" /\ message' = message)
      PROVE  RemovalInv'
    BY <1>1 DEF RemovalInv, DoneMeansGone, Traces
<1>2. ASSUME pc' # "ended", UNCHANGED named, product' \in BOOLEAN, registry' \subseteq registry,
             held' \subseteq held, atRestart' \subseteq {"exe", "dll", "ime"}
      PROVE  RemovalInv'
    BY <1>2 DEF RemovalInv, DoneMeansGone
<1>3. CASE UNCHANGED removalVars
    BY <1>1, <1>3 DEF removalVars
<1>4. CASE Open \/ Rescan \/ Tick \/ Close
    BY <1>1, <1>4 DEF Open, Rescan, Tick, Close
<1>5. CASE Remove
    BY <1>2, <1>5 DEF Remove, RemovalInv
<1>6. CASE Products
    BY <1>2, <1>6 DEF Products, RemovalInv, ByMsi
<1>7. CASE RemoveRest
    <2>1. PICK files : atRestart' = atRestart \cup (files \cap held)
        BY <1>7 DEF RemoveRest
    <2>2. pc' = "count" /\ UNCHANGED <<named, product, held>> /\ registry' \subseteq registry
        BY <1>7 DEF RemoveRest
    <2> QED BY <1>2, <2>1, <2>2 DEF RemovalInv
<1>8. CASE LookAgain
    <2>1. UNCHANGED machine
        BY <1>8 DEF LookAgain
    <2>2. message' = "done" => Found(onDisk, registry, product) \ {"settings"} = {}
        BY <1>8 DEF LookAgain, Message
    <2>3. message' = "done" => registry = {} /\ ~product /\ "ime" \notin onDisk /\ (named => Traces = {})
        BY <2>2, NothingFound DEF RemovalInv
    <2> QED BY <2>1, <2>3 DEF RemovalInv, DoneMeansGone, Traces
<1>9. CASE Restart
    BY <1>2, <1>9 DEF Restart, RemovalInv
<1>10. ASSUME NEW f \in Files, LetGo(f) PROVE RemovalInv'
    BY <1>10 DEF LetGo, RemovalInv, DoneMeansGone, Traces
<1> QED BY <1>3, <1>4, <1>5, <1>6, <1>7, <1>8, <1>9, <1>10 DEF RemovalNext

\* Whatever the installer and the registry refuse and whatever programs hold: when the tool
\* says that nothing of Jamotong is left, nothing is.
THEOREM WhatIsDoneIsGone == RemovalSpec => []DoneMeansGone
<1>1. RemovalInv => DoneMeansGone
    BY DEF RemovalInv
<1> QED BY <1>1, RemovalStarts, RemovalKeeps, PTL DEF RemovalSpec

\* No step, a restart included, takes the user's settings with the box not ticked, nor
\* other people's files in a folder of another name.
THEOREM OthersFilesStay == RemovalSpec => OnlyOursGoes
<1>1. RemovalInv /\ [RemovalNext]_removalVars => [OnlyOursAreTaken]_removalVars
    <2> SUFFICES ASSUME RemovalInv, RemovalNext PROVE OnlyOursAreTaken
        OBVIOUS
    <2> USE DEF machine, tool
    <2>0. "settings" \notin atRestart /\ "theirs" \notin atRestart
        BY DEF RemovalInv
    <2>1. CASE UNCHANGED <<onDisk, atRestart>>
        BY <2>0, <2>1 DEF OnlyOursAreTaken
    <2>2. CASE Products
        BY <2>0, <2>2 DEF Products, OnlyOursAreTaken, ByMsi
    <2>3. CASE RemoveRest
        <3> DEFINE found == Found(onDisk, registry, product)
                   files == onDisk \cap ((IF "folder" \in found THEN CleanFolder ELSE {})
                                       \cup (found \cap {"ime"})
                                       \cup (IF tick /\ "settings" \in found THEN {"settings"} ELSE {}))
        <3>1. onDisk' = onDisk \ (files \ held) /\ atRestart' = atRestart \cup (files \cap held)
            BY <2>3 DEF RemoveRest
        <3>2. ("settings" \in files => tick) /\ ("theirs" \in files => named)
            BY DEF CleanFolder, InFolder, OurFiles
        <3> HIDE DEF files
        <3> QED BY <2>0, <3>1, <3>2 DEF OnlyOursAreTaken
    <2>4. CASE Restart
        BY <2>0, <2>4 DEF Restart, OnlyOursAreTaken
    <2> QED BY <2>1, <2>2, <2>3, <2>4 DEF RemovalNext, Open, Rescan, Tick,
            Close, Remove, LookAgain, LetGo
<1> QED BY <1>1, RemovalStarts, RemovalKeeps, PTL DEF RemovalSpec, OnlyOursGoes
===============================================================================

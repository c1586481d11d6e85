----------------------------- MODULE Compartment -----------------------------
(***************************************************************************)
(* The two TSF compartments in which the service publishes its state and   *)
(* in which an application or the language bar may ask for another one     *)
(* (compartment.c, comp_state.c; the callers in langbar.c, text_service.c):*)
(*   cpOpen   KEYBOARD_OPENCLOSE: 1 while a Hangul layout is active         *)
(*   cpConv   INPUTMODE_CONVERSION: NATIVE + FULLSHAPE bits                 *)
(* Three actors: the service's thread runs one handler at a time, ending   *)
(* in Compart_Publish; the settings thread replaces the configuration      *)
(* under g_configLock between any two of its steps; applications write the *)
(* compartments, between handlers or from their own sinks, called while    *)
(* the service writes or switches the layout.                              *)
(***************************************************************************)
EXTENDS Integers, FiniteSets, Sequences

CONSTANTS
    N,                \* layoutCount
    HangulLayouts,    \* the layouts whose file declares a Hangul type
    DeferredLayouts,  \* the layouts whose body is read at their first use
    Choices,          \* the sets of layouts that the user may switch on
    FullWidths,       \* the values the user gives options.fullWidth
    AskedConvs,       \* the conversion modes that applications write
    MaxNest           \* bound: requests under way at once, each made while the one before
                      \* it switches the layout

Layouts == 0 .. N - 1
Compartments == {"open", "conv"}
Opens == {0, 1}
Convs == {0, 1, 8, 9}

ASSUME LayoutsAssumption ==
    /\ N \in Nat \ {0}
    /\ HangulLayouts \subseteq Layouts
    /\ DeferredLayouts \subseteq Layouts
    /\ Choices \subseteq SUBSET Layouts /\ Choices # {}
    /\ FullWidths \subseteq BOOLEAN /\ FullWidths # {}
    /\ AskedConvs \subseteq Convs /\ MaxNest \in Nat

VARIABLES
    \* JamotongConfig, shared with the settings thread
    enabled,          \* the layouts the user has switched on
    cur,              \* currentLayoutIndex
    body,             \* of each layout: "deferred", "loaded" or "broken"
    fullWidth,        \* options.fullWidth
    locked,           \* the service holds g_configLock over its handler
    \* the service object
    passthrough,
    has,              \* the compartments Compart_Attach obtained
    advised,          \* those among them whose changes it is told of
    cpLastOpen, cpLastConv,   \* the values last written or accepted, -1 for none
    pc, again, want,  \* where in its handler; whether it publishes twice; values to write
    waiting,          \* of each request whose layout switch is under way, the innermost
                      \* first: what it will store in cpLastOpen
    \* outside
    regPassthrough,   \* HKCU\Software\Jamotong\Passthrough
    cpOpen, cpConv,   \* the compartments' values
    \* history, for the properties only
    stale,            \* the configuration changed, or a write failed, since publish read it
    missed,           \* the compartments changed where the service could not take it in
    refused           \* a request through cpOpen was turned down and still stands there

config  == <<enabled, cur, body, fullWidth>>
outside == <<regPassthrough, cpOpen, cpConv>>
cache   == <<has, advised, cpLastOpen, cpLastConv>>
control == <<pc, again, want, waiting, locked>>
ghosts  == <<stale, missed, refused>>
vars    == <<config, passthrough, cache, control, outside, ghosts>>

Native(conv) == conv % 2 = 1

-----------------------------------------------------------------------------
\* CompState_IsHangulType of a layout's type: a body that would not load
\* turned the type into LAYOUT_TYPE_PASSTHROUGH (Config_EnsureLayoutBody).
IsHangulType(i, b) == i \in HangulLayouts /\ b[i] # "broken"

Values(i, b, pt, fw) ==
    LET hangul == ~pt /\ IsHangulType(i, b)
    IN  [open |-> IF hangul THEN 1 ELSE 0,
         conv |-> (IF hangul THEN 1 ELSE 0) + (IF ~pt /\ fw THEN 8 ELSE 0)]

\* Config_EnsureLayoutBody: what reading a deferred body may make of it.
EnsureBody(i, b) ==
    IF b[i] = "deferred" THEN {[b EXCEPT ![i] = "loaded"], [b EXCEPT ![i] = "broken"]} ELSE {b}

\* The layout reached from i in d steps of the circular order.
After(i, d) == (i + d) % N

Least(S) == CHOOSE i \in S : \A j \in S : i <= j
Nearest(i, S) == After(i, Least({d \in 1 .. N : After(i, d) \in S}))

\* The enabled layouts of the wanted kind.
Candidates(hangul) == {i \in enabled : IsHangulType(i, body) <=> hangul}

\* Mutant: the search starts behind the active layout, whatever it is.
PickIndex_Next(hangul) ==
    IF Candidates(hangul) = {} THEN -1 ELSE Nearest(cur, Candidates(hangul))

\* CompState_PickIndex: the active layout if it is a candidate, else the next
\* one in the circular order; -1 if there is none.
PickIndex(hangul) ==
    CASE cur \in Candidates(hangul) -> cur
      [] cur \notin Candidates(hangul) /\ Candidates(hangul) # {} -> Nearest(cur, Candidates(hangul))
      [] OTHER -> -1

\* Mutant: rotation visits the layouts that are off, too.
NextEnabled_Any == After(cur, 1)

\* Config_RotateLayout: the next enabled layout.
NextEnabled == IF enabled = {} THEN cur ELSE Nearest(cur, enabled)

Nothing == [open |-> 0, conv |-> 0]

-----------------------------------------------------------------------------
\* The service is loaded and its compartments are not attached yet.  A settings file can
\* switch every layout off; the first one is active then.
Init ==
    /\ enabled \in Choices
    /\ cur = IF enabled = {} THEN 0 ELSE Least(enabled)
    /\ body = [i \in Layouts |-> IF i \in DeferredLayouts THEN "deferred" ELSE "loaded"]
    /\ fullWidth \in FullWidths /\ locked = FALSE
    /\ regPassthrough \in BOOLEAN /\ passthrough = regPassthrough
    /\ has = {} /\ advised = {} /\ cpLastOpen = -1 /\ cpLastConv = -1
    /\ pc = "idle" /\ again = FALSE /\ want = Nothing /\ waiting = <<>>
    /\ cpOpen \in Opens /\ cpConv \in AskedConvs
    /\ stale = FALSE /\ missed = {} /\ refused = FALSE

\* A handler ends in Compart_Publish: under the lock from a key, once or twice.
ThenPublish(lock, twice) ==
    /\ pc' = "publish" /\ again' = twice /\ locked' = lock
    /\ UNCHANGED <<want, waiting>>

\* What can run inside another handler: an application that is called while the layout is
\* switched (its edit sessions end, the language bar changes) writes a compartment or
\* moves the focus.
Ready == pc = "idle" \/ (pc = "switched" /\ Len(waiting) < MaxNest)

\* TIP_Deactivate and TIP_ActivateCommon: Compart_Detach, the registry's mode,
\* then Compart_Attach with whatever compartments the manager hands out (none
\* when options.useCompartments is off) and whichever sinks it takes.
Activate ==
    /\ pc = "idle"
    /\ has' \in SUBSET Compartments /\ advised' \in SUBSET has'
    /\ cpLastOpen' = -1 /\ cpLastConv' = -1
    /\ passthrough' = regPassthrough
    /\ missed' = {} /\ refused' = FALSE /\ UNCHANGED stale
    /\ ThenPublish(FALSE, FALSE)
    /\ UNCHANGED <<config, outside>>

\* Mutant: rotation forgets to publish.
Rotate_Silent ==
    /\ pc = "idle"
    /\ cur' = NextEnabled
    /\ UNCHANGED <<enabled, body, fullWidth, passthrough, cache, control, outside, ghosts>>

\* Rotation: the shortcut or the preserved key (under the lock), a click or the
\* menu of the language bar (not under it).
Rotate ==
    /\ pc = "idle"
    /\ cur' = NextEnabled
    /\ \E lock \in BOOLEAN : ThenPublish(lock, FALSE)
    /\ UNCHANGED <<enabled, body, fullWidth, passthrough, cache, outside, ghosts>>

\* Jamotong_SetPassthrough from the menu (publishes once), from the shortcut
\* that ends the mode (twice) and from the one that starts or toggles it
\* (twice, under the lock).
SetPassthrough ==
    /\ pc = "idle"
    /\ passthrough' = ~passthrough
    /\ regPassthrough' = passthrough'
    /\ \/ ThenPublish(FALSE, FALSE)
       \/ passthrough /\ ThenPublish(FALSE, TRUE)
       \/ ThenPublish(TRUE, TRUE)
    /\ UNCHANGED <<config, cache, cpOpen, cpConv, ghosts>>

\* KES_OnSetFocus: follow the registry; publish only if the mode changed.
Focus ==
    /\ Ready
    /\ passthrough # regPassthrough
    /\ passthrough' = regPassthrough
    /\ ThenPublish(FALSE, FALSE)
    /\ UNCHANGED <<config, cache, outside, ghosts>>

\* A key event or the language bar takes the current layout and reads its body.
UseLayout ==
    /\ pc = "idle" /\ body[cur] = "deferred"
    /\ body' \in EnsureBody(cur, body)
    /\ UNCHANGED <<enabled, cur, fullWidth, passthrough, cache, control, outside, ghosts>>

-----------------------------------------------------------------------------
\* CES_OnChange after the new value was read: give way to the request if an
\* enabled layout of the wanted kind exists.  Jamotong_OnLayoutSwitched comes
\* before the value that the handler has read enters the cache ...
Accept(hangul, open) ==
    /\ ~passthrough /\ PickIndex(hangul) # -1
    /\ cur' = PickIndex(hangul)
    /\ pc' = "switched" /\ waiting' = <<open>> \o waiting
    /\ UNCHANGED <<enabled, body, fullWidth, again, want, locked>>

\* ... else only publish our own values.
Refuse(hangul) ==
    /\ passthrough \/ PickIndex(hangul) = -1
    /\ UNCHANGED config
    /\ ThenPublish(FALSE, FALSE)

\* What the handlers around this one will store over.
Overwritten == IF waiting = <<>> THEN {} ELSE {"open"}

\* Another component has set KEYBOARD_OPENCLOSE to v: only an accepted value
\* enters the cache.
ReceiveOpen(v) ==
    /\ cpOpen' = v
    /\ missed' = (missed \ {"open"}) \union Overwritten
    /\ \/ v = cpLastOpen /\ refused' = FALSE /\ UNCHANGED <<config, control>>
       \/ v # cpLastOpen /\ refused' = FALSE /\ Accept(v # 0, v)
       \/ v # cpLastOpen /\ refused' = TRUE /\ Refuse(v # 0)
    /\ UNCHANGED <<passthrough, cache, regPassthrough, cpConv, stale>>

\* Mutant: as for cpOpen, only an accepted value enters the cache.
NoteConv_IfAccepted(v) ==
    cpLastConv' = IF passthrough \/ PickIndex(Native(v)) = -1 THEN cpLastConv ELSE v
NoteConv(v) == cpLastConv' = v

\* The same for the NATIVE bit of the conversion mode: the value enters the
\* cache before anything is decided, so a refusal is written back.
ReceiveConv(v) ==
    /\ cpConv' = v
    /\ missed' = missed \ {"conv"}
    /\ NoteConv(v)
    /\ \/ v = cpLastConv /\ UNCHANGED <<config, control>>
       \/ v # cpLastConv /\ Accept(Native(v), cpLastOpen)
       \/ v # cpLastConv /\ Refuse(Native(v))
    /\ UNCHANGED <<passthrough, has, advised, cpLastOpen, regPassthrough, cpOpen, stale, refused>>

ExternalOpen == Ready /\ "open" \in advised /\ \E v \in Opens : ReceiveOpen(v)
ExternalConv == Ready /\ "conv" \in advised /\ \E v \in AskedConvs : ReceiveConv(v)

\* The layout is switched: the handler stores what it read, whatever came since.
Switched ==
    /\ pc = "switched"
    /\ cpLastOpen' = Head(waiting)
    /\ waiting' = Tail(waiting)
    /\ pc' = "publish" /\ again' = FALSE
    /\ UNCHANGED <<config, passthrough, has, advised, cpLastConv, want, locked, outside, ghosts>>

-----------------------------------------------------------------------------
Finished ==
    /\ pc' = CASE again -> "publish"
              [] ~again /\ waiting # <<>> -> "switched"
              [] OTHER -> "idle"
    /\ again' = FALSE /\ want' = Nothing
    /\ locked' = (locked /\ again)
    /\ UNCHANGED waiting

\* Compart_Publish, first part: read the configuration under g_configLock.
PublishRead ==
    /\ pc = "publish"
    /\ IF has = {}
       THEN Finished /\ UNCHANGED <<body, stale>>
       ELSE /\ body' \in EnsureBody(cur, body)
            /\ want' = Values(cur, body', passthrough, fullWidth)
            /\ stale' = FALSE
            /\ pc' = "writeOpen"
            /\ UNCHANGED <<again, waiting, locked>>
    /\ UNCHANGED <<enabled, cur, fullWidth, passthrough, cache, outside, missed, refused>>

\* What an application's sink, called during our write, leaves unseen (cpSelfWrite).
Left(c, changed) == IF changed THEN {c} ELSE {}

\* The cached value after a write that failed. Mutant: the value meant to be written.
AfterFailure_Meant(last, meant) == meant
AfterFailure(last, meant) == last

\* Then write each value that differs from the last one written; the cache
\* follows only a write that succeeded.
WriteOpen ==
    /\ pc = "writeOpen" /\ pc' = "writeConv"
    /\ \/ /\ "open" \notin has \/ cpLastOpen = want.open
          /\ UNCHANGED <<cpLastOpen, cpOpen, cpConv, ghosts>>
       \/ /\ "open" \in has /\ cpLastOpen # want.open
          /\ stale' = TRUE
          /\ cpLastOpen' = AfterFailure(cpLastOpen, want.open)
          /\ UNCHANGED <<cpOpen, cpConv, missed, refused>>
       \/ /\ "open" \in has /\ cpLastOpen # want.open
          /\ cpOpen' \in Opens /\ cpConv' \in {cpConv} \union AskedConvs
          /\ cpLastOpen' = want.open
          /\ missed' = (missed \ {"open"}) \union Left("open", cpOpen' # want.open)
                                           \union Left("conv", cpConv' # cpConv)
                                           \union Overwritten
          /\ refused' = FALSE
          /\ UNCHANGED stale
    /\ UNCHANGED <<config, passthrough, has, advised, cpLastConv, again, want, waiting, locked,
                   regPassthrough>>

WriteConv ==
    /\ pc = "writeConv" /\ Finished
    /\ \/ /\ "conv" \notin has \/ cpLastConv = want.conv
          /\ UNCHANGED <<cpLastConv, cpOpen, cpConv, ghosts>>
       \/ /\ "conv" \in has /\ cpLastConv # want.conv
          /\ stale' = TRUE
          /\ cpLastConv' = AfterFailure(cpLastConv, want.conv)
          /\ UNCHANGED <<cpOpen, cpConv, missed, refused>>
       \/ /\ "conv" \in has /\ cpLastConv # want.conv
          /\ cpOpen' \in Opens /\ cpConv' \in {want.conv} \union AskedConvs
          /\ cpLastConv' = want.conv
          /\ missed' = (missed \ {"conv"}) \union Left("conv", cpConv' # want.conv)
                                           \union Left("open", cpOpen' # cpOpen)
          /\ UNCHANGED <<stale, refused>>
    /\ UNCHANGED <<config, passthrough, has, advised, cpLastOpen, regPassthrough>>

-----------------------------------------------------------------------------
\* Config_ApplyEdited on the settings thread: the edited copy's layouts, its own
\* current index and options; at least one layout stays on and the active one is
\* on. Nothing is published.
\* Mutant: the settings thread does not take the lock.
MayLock_Always == TRUE
MayLock == ~locked

SettingsApply ==
    /\ MayLock
    /\ \E on \in Choices, edited \in Layouts :
        /\ enabled' = IF on = {} THEN {0} ELSE on
        /\ cur' = IF edited \in enabled' THEN edited ELSE Least(enabled')
    /\ fullWidth' \in FullWidths
    /\ stale' = TRUE
    /\ UNCHANGED <<body, passthrough, cache, control, outside, missed, refused>>

\* Another process's copy of the service toggles the pass-through mode.
OtherProcess ==
    /\ regPassthrough' = ~regPassthrough
    /\ UNCHANGED <<config, passthrough, cache, control, cpOpen, cpConv, ghosts>>

\* A compartment changes without the service's knowledge: it has not got it, AdviseSink
\* has failed, or the value cannot be read when it is told.
Unheard ==
    /\ \/ cpOpen' \in Opens /\ UNCHANGED cpConv /\ missed' = missed \union ({"open"} \intersect advised)
       \/ cpConv' \in AskedConvs /\ UNCHANGED cpOpen /\ missed' = missed \union ({"conv"} \intersect advised)
    /\ UNCHANGED <<config, passthrough, cache, control, regPassthrough, stale, refused>>

Next ==
    \/ Activate \/ Rotate \/ SetPassthrough \/ Focus \/ UseLayout
    \/ ExternalOpen \/ ExternalConv \/ Switched
    \/ PublishRead \/ WriteOpen \/ WriteConv
    \/ SettingsApply \/ OtherProcess \/ Unheard

Spec == Init /\ [][Next]_vars

-----------------------------------------------------------------------------
(***************************************************************************)
(* Properties                                                              *)
(***************************************************************************)

WaitingOK ==
    /\ waiting \in Seq(Opens \union {-1})
    /\ pc = "switched" => waiting # <<>>
    /\ pc = "idle" => waiting = <<>>

\* Every variable has its type; the active index always names a layout, and a handler that
\* has switched the layout has something to store.
TypeOK ==
    /\ enabled \in SUBSET Layouts
    /\ cur \in Layouts
    /\ body \in [Layouts -> {"deferred", "loaded", "broken"}]
    /\ fullWidth \in BOOLEAN /\ locked \in BOOLEAN
    /\ passthrough \in BOOLEAN /\ regPassthrough \in BOOLEAN
    /\ has \in SUBSET Compartments /\ advised \in SUBSET has
    /\ cpLastOpen \in Opens \union {-1} /\ cpLastConv \in Convs \union {-1}
    /\ pc \in {"idle", "publish", "switched", "writeOpen", "writeConv"} /\ again \in BOOLEAN
    /\ WaitingOK
    /\ want \in [open : Opens, conv : Convs]
    /\ cpOpen \in Opens /\ cpConv \in Convs
    /\ stale \in BOOLEAN /\ missed \in SUBSET Compartments /\ refused \in BOOLEAN

\* Compart_Publish skips a write by comparing with the cache, so the cache must
\* not claim a value the compartment has not: through failed writes, requests
\* taken, turned down and nested in one another, and re-activation it holds the value of a
\* compartment whose changes it is told of, unless an application changed it during our
\* own write or where it could not be read.
ConvCacheCoherent ==
    "conv" \in advised /\ "conv" \notin missed => cpLastConv \in {-1, cpConv}

\* The same for OPENCLOSE, except for a refused request (see RefusalRestored), for the
\* request whose handler has yet to store it, and for what happens within the layout
\* switch of such a request: the handler stores over it what it read before.
OpenCacheCoherent ==
    "open" \in advised /\ "open" \notin missed /\ ~refused /\ waiting = <<>> =>
        cpLastOpen \in {-1, cpOpen}

\* Between handlers the compartments show the active layout and mode, however
\* the last change came about: rotation, mode, focus, a request from outside
\* (also one for a layout whose body then would not load, and one within another).
CompartmentsAgree ==
    pc = "idle" /\ ~stale =>
        LET now == Values(cur, body, passthrough, fullWidth)
        IN  /\ "conv" \in advised /\ "conv" \notin missed => cpConv = now.conv
            /\ "open" \in advised /\ "open" \notin missed /\ ~refused => cpOpen = now.open

\* No sequence of rotations, outside requests and settings leaves a layout
\* active that the user has switched off while another one is on.
ActiveIsEnabled == enabled # {} => cur \in enabled

\* A key's handler holds g_configLock across the rotation and the publishing,
\* so what it writes is the configuration at that moment.
LockedPublishIsCurrent ==
    locked /\ pc \in {"writeOpen", "writeConv"} =>
        want = Values(cur, body, passthrough, fullWidth)

\* A request from outside changes the layout only if the active one is not of
\* the wanted kind, and then to an enabled one that is.
OutsideMovesOnlyToWanted ==
    [][Ready /\ <<cpOpen, cpConv>>' # <<cpOpen, cpConv>> /\ cur' # cur =>
        LET hangul == IF cpOpen' # cpOpen THEN cpOpen' # 0 ELSE Native(cpConv')
        IN  /\ IsHangulType(cur, body) # hangul
            /\ IsHangulType(cur', body) = hangul
            /\ cur' \in enabled]_vars

\* compartment.c: "무간섭 중엔 밖의 요구를 되돌린다" and "우리 값을 다시 발행해 어긋남
\* 해소": a request that is turned down does not stay in the compartment.
RefusalRestored ==
    pc = "idle" /\ ~stale /\ "open" \in advised /\ "open" \notin missed =>
        cpOpen = Values(cur, body, passthrough, fullWidth).open

=============================================================================

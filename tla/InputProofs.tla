----------------------------- MODULE InputProofs -----------------------------
(***************************************************************************)
(* Proofs about five of the ways from a key to a text.  The key sink, for   *)
(* any letters, keys, shortcuts and rotation: its two halves agree, nothing *)
(* overtakes the syllable that is being composed, and the keys of a struck  *)
(* syllable are counted.  The code input, for any threads and digits: what  *)
(* is written is what was typed.  Edit controls, for any texts, words and   *)
(* countings: what is selected and replaced is what was looked for.  Hanja  *)
(* conversion, for any documents, hosts and dictionaries: a late choice     *)
(* replaces the original and nothing else.  The inline composition, for any *)
(* documents, calls that may fail and bounds, and with keys that wait for   *)
(* the sessions accepted before them: it implements the abstract document.  *)
(***************************************************************************)
EXTENDS KeyRoute, CodeInput, EditControl, Hanja, InlineComp, FiniteSetTheorems,
        SequenceTheorems, NaturalsInduction, WellFoundedInduction, TLAPS

\* < as a relation, for the library's facts on well-founded relations.
LEMMA LessThan == \A x, y \in Nat : y < x => <<y, x>> \in OpToRel(<, Nat)
BY DEF OpToRel

LEMMA LeastOf ==
    ASSUME NEW S \in SUBSET Nat, S # {}
    PROVE  \E x \in S : \A y \in S : x <= y
<1>1. PICK x \in S : \A y \in S : <<y, x>> \notin OpToRel(<, Nat)
    BY NatLessThanWellFounded, WFMin
<1>2. \A y \in S : x <= y
    <2> SUFFICES ASSUME NEW y \in S, y < x PROVE FALSE
        BY SMT
    <2>1. x \in Nat /\ y \in Nat
        OBVIOUS
    <2>2. <<y, x>> \in OpToRel(<, Nat)
        BY <2>1, LessThan, Zenon
    <2> QED BY <1>1, <2>2, Zenon
<1> QED BY <1>2

------------------------------------------------------------------------------
(* THE KEY SINK *)

Chords == [keys : SUBSET Letters, active : Nat, jamo : SUBSET Letters]

Service ==
    [layout : DOMAIN Rotation, fullWidth : BOOLEAN, passthrough : BOOLEAN, disabled : BOOLEAN,
     popup : {"none", "code", "list", "helper"}, comp : Nat, reading : Nat, hit : Chords,
     front : SUBSET FrontKeys, last : Nat]

\* The service takes keys at all.
Works(s) == ~s.passthrough /\ ~s.disabled

\* A service as it is after the moment c.  Where a syllable can be composed at all, and
\* where the keys of a chord can be down, is what keeps the order.
Sound(s, c) ==
    /\ s \in Service
    /\ s.comp <= c /\ s.last <= c /\ s.reading <= c
    /\ s.comp # 0 => s.last < s.comp
    /\ s.comp # 0 => Works(s) /\ s.layout \in {"hangul", "front"}
    /\ s.front # {} => Works(s) /\ s.layout \in {"front", "seqfront"}
    /\ s.hit.keys # {} => s.layout = "moachigi"

LEMMA LayoutKinds ==
    ASSUME KeyRouteAssumption
    PROVE  DOMAIN Rotation \subseteq {"pass", "static", "hangul", "front", "moachigi", "seqfront"}
BY DEF KeyRouteAssumption

LEMMA NoChordType == NoChord \in Chords /\ NoChord.keys = {}
BY DEF NoChord, Chords

LEMMA LaterSound ==
    ASSUME NEW c \in Nat, NEW s, Sound(s, c)
    PROVE  Sound(s, c + 1)
BY DEF Sound, Service, Works

\* Something goes to the application while nothing is composed.
LEMMA CommitSound ==
    ASSUME NEW c \in Nat, NEW s, Sound(s, c), s.comp = 0, NEW m \in Nat, m <= c
    PROVE  Sound(Commit(s, m), c) /\ Commit(s, m).hit = s.hit /\ Commit(s, m).comp = 0
BY DEF Sound, Service, Commit, Works

LEMMA FlushSound ==
    ASSUME NEW c \in Nat, NEW s, Sound(s, c)
    PROVE  /\ Sound(Flush(s), c) /\ Flush(s).comp = 0 /\ Flush(s).hit = s.hit
           /\ Flush(s).layout = s.layout /\ Flush(s).passthrough = s.passthrough
           /\ Flush(s).disabled = s.disabled /\ Flush(s).last <= c
<1> DEFINE t == Commit(s, s.comp)
<1>1. /\ t \in Service /\ t.last <= c /\ t.comp = s.comp /\ t.hit = s.hit /\ t.layout = s.layout
      /\ t.passthrough = s.passthrough /\ t.disabled = s.disabled /\ t.front = s.front
      /\ t.reading = s.reading
    BY DEF Sound, Service, Commit
<1>2. Flush(s) = [t EXCEPT !.comp = 0]
    BY DEF Flush
<1> HIDE DEF t
<1>3. /\ Flush(s) \in Service /\ Flush(s).comp = 0 /\ Flush(s).hit = s.hit
      /\ Flush(s).layout = s.layout /\ Flush(s).passthrough = s.passthrough
      /\ Flush(s).disabled = s.disabled /\ Flush(s).last <= c
      /\ Flush(s).front = s.front /\ Flush(s).reading = s.reading
    BY <1>1, <1>2 DEF Service
<1> QED BY <1>3 DEF Sound, Works

LEMMA FlushSeqSound ==
    ASSUME NEW c \in Nat, NEW s, Sound(s, c), s.comp = 0
    PROVE  Sound(FlushSeq(s), c) /\ FlushSeq(s).comp = 0 /\ FlushSeq(s).hit = s.hit
BY DEF Sound, Service, Commit, FlushSeq, Works

\* The fields a reset leaves alone, and those it does not.
LEMMA ResetFields ==
    ASSUME NEW s \in Service
    PROVE  LET t == ResetComposition(s)
           IN  /\ t \in Service /\ t.comp = 0 /\ t.hit = NoChord /\ t.last = s.last
               /\ t.front = s.front /\ t.layout = s.layout /\ t.reading = s.reading
               /\ t.passthrough = s.passthrough /\ t.disabled = s.disabled
<1>1. SUFFICES ASSUME NEW h \in Chords
               PROVE  LET t == [s EXCEPT !.comp = 0, !.hit = h]
                      IN  /\ t \in Service /\ t.comp = 0 /\ t.hit = h /\ t.last = s.last
                          /\ t.front = s.front /\ t.layout = s.layout /\ t.reading = s.reading
                          /\ t.passthrough = s.passthrough /\ t.disabled = s.disabled
    BY NoChordType DEF ResetComposition
<1> QED BY DEF Service

LEMMA ResetSound ==
    ASSUME NEW c \in Nat, NEW s, Sound(s, c)
    PROVE  Sound(ResetComposition(s), c) /\ ResetComposition(s).hit = NoChord
<1>1. s \in Service
    BY DEF Sound
<1> QED BY <1>1, ResetFields, NoChordType DEF Sound, Works

\* The state after a fold: nothing is held, so the mode and the layout may change.
Folded(s, c) ==
    /\ s \in Service /\ s.comp = 0 /\ s.last <= c /\ s.reading <= c
    /\ s.front = {} /\ s.hit = NoChord

LEMMA FoldedIsSound ==
    ASSUME NEW c \in Nat, NEW s, Folded(s, c)
    PROVE  Sound(s, c)
BY DEF Folded, Sound, NoChord

LEMMA TransitionFolds ==
    ASSUME NEW c \in Nat, NEW s \in Service, s.comp <= c, s.last <= c, s.reading <= c, NEW why
    PROVE  Folded(Transition(s, why), c)
<1> DEFINE Held(t) == t \in Service /\ t.last <= c
<1>1. \A t : Held(t) => Folded(FoldInput(t), c)
    <2> SUFFICES ASSUME NEW t, Held(t) PROVE Folded(FoldInput(t), c)
        OBVIOUS
    <2> DEFINE u == ResetComposition(t)
    <2>2. u \in Service /\ u.comp = 0 /\ u.hit = NoChord /\ u.last <= c
        BY ResetFields
    <2>3. FoldInput(t) = [u EXCEPT !.front = {}, !.reading = 0, !.popup = "none"]
        BY DEF FoldInput
    <2> HIDE DEF u
    <2>4. /\ FoldInput(t) \in Service /\ FoldInput(t).comp = 0 /\ FoldInput(t).hit = u.hit
          /\ FoldInput(t).last = u.last /\ FoldInput(t).front = {} /\ FoldInput(t).reading = 0
        BY <2>2, <2>3 DEF Service
    <2> QED BY <2>2, <2>4 DEF Folded
<1>2. Held(Flush(s)) /\ Held(FlushSeq(s))
    BY DEF Service, Flush, FlushSeq, Commit
<1>3. FlushSeq(s).comp = s.comp
    BY DEF Service, FlushSeq, Commit
<1>4. Held(Flush(FlushSeq(s)))
    <2> DEFINE t == FlushSeq(s)
    <2>1. t \in Service /\ t.last <= c /\ t.comp <= c
        BY <1>2, <1>3
    <2> HIDE DEF t
    <2>2. Held(Flush(t))
        BY <2>1 DEF Service, Flush, Commit
    <2> QED BY <2>2 DEF t
<1> HIDE DEF Held
<1> QED BY <1>1, <1>2, <1>4 DEF Transition

LEMMA ModeAfterFold ==
    ASSUME NEW c \in Nat, NEW s, Folded(s, c), NEW on \in BOOLEAN, NEW l \in DOMAIN Rotation
    PROVE  /\ Folded([s EXCEPT !.passthrough = on], c) /\ Folded([s EXCEPT !.layout = l], c)
BY DEF Folded, Service

-------------------------------------------------------------------------------
(* The keys of a chord *)

LEMMA ChordDownType ==
    ASSUME NEW h \in Chords, NEW k \in Letters, NEW repeat
    PROVE  Chord_KeyDown(h, k, repeat) \in Chords
BY DEF Chords, Chord_KeyDown, Healed

LEMMA ChordUpType ==
    ASSUME NEW h \in Chords, NEW k \in Letters
    PROVE  Chord_KeyUp(h, k) \in Chords /\ Chord_KeyUp(h, k).keys \subseteq h.keys
<1> DEFINE remain == IF h.active > 0 THEN h.active - 1 ELSE 0
<1>1. remain \in Nat
    BY DEF Chords
<1>2. Chord_KeyUp(h, k) = IF remain = 0 THEN NoChord ELSE [h EXCEPT !.keys = @ \ {k}, !.active = remain]
    BY DEF Chord_KeyUp
<1> HIDE DEF remain
<1>3. CASE remain = 0
    BY <1>2, <1>3, NoChordType
<1>4. CASE remain # 0
    BY <1>1, <1>2, <1>4 DEF Chords
<1> QED BY <1>3, <1>4

-------------------------------------------------------------------------------
(* What OnKeyDown makes of a key *)

\* What may become of the struck keys.
HitAfter(s, t, vk, repeat) ==
    t.hit \in {s.hit, NoChord} \/ (vk \in Letters /\ t.hit = Chord_KeyDown(s.hit, vk, repeat))

\* A key that is passed on overtakes nothing.
InOrder(r, vk) == r.eaten \/ r.s.comp = 0 \/ IsModifierOrLock(vk)

WellDone(r, s, vk, n, repeat) ==
    Sound(r.s, n) /\ HitAfter(s, r.s, vk, repeat) /\ InOrder(r, vk)

LEMMA FsmLetterSound ==
    ASSUME NEW c \in Nat, NEW s, Sound(s, c), Works(s), s.layout \in {"hangul", "front"},
           NEW t \in FsmLetter(s, c + 1)
    PROVE  Sound(t, c + 1) /\ t.hit = s.hit
<1>1. CASE t = [s EXCEPT !.comp = IF @ = 0 THEN c + 1 ELSE @]
    BY <1>1 DEF Sound, Service, Works
<1>2. CASE t = [Flush(s) EXCEPT !.comp = c + 1]
    <2> DEFINE f == Flush(s)
    <2>1. /\ Sound(f, c) /\ f.hit = s.hit /\ f.layout = s.layout
          /\ f.passthrough = s.passthrough /\ f.disabled = s.disabled
        BY FlushSound
    <2> HIDE DEF f
    <2>2. t = [f EXCEPT !.comp = c + 1]
        BY <1>2 DEF f
    <2> QED BY <2>1, <2>2 DEF Sound, Service, Works
<1> QED BY <1>1, <1>2 DEF FsmLetter

LEMMA PassedLater ==
    ASSUME NEW c \in Nat, NEW s, Sound(s, c)
    PROVE  /\ Sound(s, c + 1) /\ Sound(Flush(s), c + 1) /\ Flush(s).comp = 0
           /\ Flush(s).hit = s.hit
           /\ Sound(Commit(Flush(s), c + 1), c + 1) /\ Commit(Flush(s), c + 1).comp = 0
           /\ Commit(Flush(s), c + 1).hit = s.hit
           /\ Sound([s EXCEPT !.comp = 0], c + 1) /\ [s EXCEPT !.comp = 0].hit = s.hit
           /\ s.comp = 0 => /\ Sound(Commit(s, c + 1), c + 1) /\ Commit(s, c + 1).comp = 0
                            /\ Commit(s, c + 1).hit = s.hit
<1>1. Sound(s, c + 1)
    BY LaterSound
<1>2. Sound(Flush(s), c + 1) /\ Flush(s).comp = 0 /\ Flush(s).hit = s.hit
    BY <1>1, FlushSound
<1>3. /\ Sound(Commit(Flush(s), c + 1), c + 1) /\ Commit(Flush(s), c + 1).comp = 0
      /\ Commit(Flush(s), c + 1).hit = s.hit
    BY <1>2, CommitSound
<1>4. Sound([s EXCEPT !.comp = 0], c + 1) /\ [s EXCEPT !.comp = 0].hit = s.hit
    BY <1>1 DEF Sound, Service, Works
<1>5. s.comp = 0 => /\ Sound(Commit(s, c + 1), c + 1) /\ Commit(s, c + 1).comp = 0
                    /\ Commit(s, c + 1).hit = s.hit
    BY <1>1, CommitSound
<1> QED BY <1>1, <1>2, <1>3, <1>4, <1>5

LEMMA TakenOne ==
    ASSUME NEW p, NEW r \in Taken({p})
    PROVE  r.s = p /\ r.eaten
BY DEF Taken

LEMMA TakenWell ==
    ASSUME NEW s, NEW vk, NEW n, NEW repeat, NEW T, NEW r \in Taken(T),
           \A t \in T : Sound(t, n) /\ HitAfter(s, t, vk, repeat)
    PROVE  WellDone(r, s, vk, n, repeat)
BY DEF Taken, WellDone, InOrder

LEMMA PassedWell ==
    ASSUME NEW s, NEW vk, NEW n, NEW repeat, NEW T, NEW r \in Passed(T),
           \A t \in T : Sound(t, n) /\ HitAfter(s, t, vk, repeat),
           IsModifierOrLock(vk) \/ \A t \in T : t.comp = 0
    PROVE  WellDone(r, s, vk, n, repeat)
BY DEF Passed, WellDone, InOrder

LEMMA FrontDownSound ==
    ASSUME NEW c \in Nat, NEW s, Sound(s, c), Works(s), s.layout \in {"front", "seqfront"},
           NEW vk \in FrontKeys, NEW r \in FrontDown(s, vk), NEW repeat
    PROVE  WellDone(r, s, vk, c + 1, repeat)
<1>1. r = [s |-> [s EXCEPT !.front = @ \cup {vk}], eaten |-> TRUE]
    BY DEF FrontDown, Taken
<1>2. Sound([s EXCEPT !.front = @ \cup {vk}], c + 1) /\ [s EXCEPT !.front = @ \cup {vk}].hit = s.hit
    BY DEF Sound, Service, Works
<1> QED BY <1>1, <1>2 DEF WellDone, HitAfter, InOrder

LEMMA MoachigiDownSound ==
    ASSUME NEW c \in Nat, NEW s, Sound(s, c), s.layout = "moachigi", NEW vk, NEW repeat,
           NEW r \in MoachigiDown(s, vk, repeat)
    PROVE  WellDone(r, s, vk, c + 1, repeat)
<1>1. CASE r = [s |-> ResetComposition(s), eaten |-> TRUE]
    BY <1>1, ResetSound, LaterSound DEF WellDone, HitAfter, InOrder
<1>2. CASE vk \in Letters /\ r = [s |-> [s EXCEPT !.hit = Chord_KeyDown(@, vk, repeat)], eaten |-> TRUE]
    <2> DEFINE h == Chord_KeyDown(s.hit, vk, repeat)
    <2>1. h \in Chords
        BY <1>2, ChordDownType DEF Sound, Service
    <2> HIDE DEF h
    <2>2. r.s = [s EXCEPT !.hit = h] /\ r.eaten
        BY <1>2 DEF h
    <2>3. Sound(r.s, c) /\ r.s.hit = h
        BY <2>1, <2>2 DEF Sound, Service, Works
    <2>4. Sound(r.s, c + 1)
        BY <2>3, LaterSound
    <2> QED BY <1>2, <2>2, <2>3, <2>4 DEF WellDone, HitAfter, InOrder, h
<1>3. CASE r = [s |-> s, eaten |-> FALSE]
    <2>1. s.comp = 0
        BY DEF Sound
    <2> QED BY <1>3, <2>1, LaterSound DEF WellDone, HitAfter, InOrder
<1> QED BY <1>1, <1>2, <1>3 DEF MoachigiDown, Taken, Passed

LEMMA HangulDownSound ==
    ASSUME KeyRouteAssumption, NEW c \in Nat, NEW s, Sound(s, c), Works(s), s.layout \in {"hangul", "front"}, NEW vk,
           NEW repeat, NEW r \in HangulDown(s, vk, c + 1)
    PROVE  WellDone(r, s, vk, c + 1, repeat)
<1>0. FrontKeys \subseteq Letters
    BY DEF KeyRouteAssumption
<1>1. CASE r \in Taken({s, [s EXCEPT !.comp = 0]})
    <2>1. \A t \in {s, [s EXCEPT !.comp = 0]} : Sound(t, c + 1) /\ HitAfter(s, t, vk, repeat)
        BY PassedLater DEF HitAfter
    <2> QED BY <1>1, <2>1, TakenWell
<1>2. CASE vk \in FrontKeys /\ s.layout = "front" /\ r \in FrontDown(s, vk)
    BY <1>2, FrontDownSound
<1>3. CASE r \in Taken(FsmLetter(s, c + 1))
    BY <1>3, FsmLetterSound DEF Taken, WellDone, HitAfter, InOrder
<1>4. CASE r \in Taken({Commit(Flush(s), c + 1)})
    <2>1. LET t == Commit(Flush(s), c + 1) IN Sound(t, c + 1) /\ HitAfter(s, t, vk, repeat)
        BY PassedLater DEF HitAfter
    <2> QED BY <1>4, <2>1, TakenWell
<1>5. CASE r \in Passed({s}) /\ (s.comp = 0 \/ IsModifierOrLock(vk))
    <2>1. Sound(s, c + 1) /\ HitAfter(s, s, vk, repeat)
        BY PassedLater DEF HitAfter
    <2> QED BY <1>5, <2>1, PassedWell
<1> QED BY <1>0, <1>1, <1>2, <1>3, <1>4, <1>5 DEF HangulDown

LEMMA LayoutDownSound ==
    ASSUME KeyRouteAssumption, NEW c \in Nat, NEW s, Sound(s, c), Works(s), NEW vk, NEW repeat,
           NEW r \in LayoutDown(s, vk, c + 1, repeat)
    PROVE  WellDone(r, s, vk, c + 1, repeat)
<1>1. s.layout \in {"pass", "static", "hangul", "front", "moachigi", "seqfront"}
    BY LayoutKinds DEF Sound, Service
<1>2. CASE s.layout \in {"pass", "static"}
    <2>1. s.comp = 0
        BY <1>2 DEF Sound
    <2>2. r \in Taken({Commit(s, c + 1)}) \cup Passed({s, Flush(s)})
        BY <1>2 DEF LayoutDown, Passed
    <2>3. CASE r \in Taken({Commit(s, c + 1)})
        <3>1. LET t == Commit(s, c + 1) IN Sound(t, c + 1) /\ HitAfter(s, t, vk, repeat)
            BY <2>1, PassedLater DEF HitAfter
        <3> QED BY <2>3, <3>1, TakenWell
    <2>4. CASE r \in Passed({s, Flush(s)})
        <3>1. \A t \in {s, Flush(s)} :
                 Sound(t, c + 1) /\ HitAfter(s, t, vk, repeat) /\ t.comp = 0
            <4>1. Sound(s, c + 1) /\ HitAfter(s, s, vk, repeat)
                BY PassedLater DEF HitAfter
            <4>2. Sound(Flush(s), c + 1) /\ HitAfter(s, Flush(s), vk, repeat) /\ Flush(s).comp = 0
                BY PassedLater DEF HitAfter
            <4> QED BY <2>1, <4>1, <4>2
        <3> QED BY <2>4, <3>1, PassedWell
    <2> QED BY <2>2, <2>3, <2>4
<1>3. CASE s.layout = "seqfront"
    <2>1. s.comp = 0
        BY <1>3 DEF Sound
    <2>2. CASE vk \in FrontKeys /\ r \in FrontDown(s, vk)
        BY <1>3, <2>2, FrontDownSound
    <2>3. CASE r \in Passed({s})
        <3>1. Sound(s, c + 1) /\ HitAfter(s, s, vk, repeat)
            BY PassedLater DEF HitAfter
        <3> QED BY <2>1, <2>3, <3>1, PassedWell
    <2> QED BY <1>3, <2>2, <2>3 DEF LayoutDown
<1>4. CASE s.layout \in {"hangul", "front", "moachigi"} /\ vk = "esc" /\ Composing(s)
    <2>1. r \in Taken({ResetComposition(s)})
        BY <1>4 DEF LayoutDown
    <2> QED BY <2>1, ResetSound, LaterSound DEF Taken, WellDone, HitAfter, InOrder
<1>5. CASE s.layout = "moachigi" /\ (vk # "esc" \/ ~Composing(s))
    <2>1. r \in MoachigiDown(s, vk, repeat)
        BY <1>5 DEF LayoutDown
    <2> QED BY <1>5, <2>1, MoachigiDownSound
<1>6. CASE s.layout \in {"hangul", "front"} /\ (vk # "esc" \/ ~Composing(s))
    <2>1. r \in HangulDown(s, vk, c + 1)
        BY <1>6 DEF LayoutDown
    <2> QED BY <1>6, <2>1, HangulDownSound
<1> QED BY <1>1, <1>2, <1>3, <1>4, <1>5, <1>6

LEMMA PopupSound ==
    ASSUME NEW c \in Nat, NEW s, Sound(s, c), NEW p \in {"none", "code", "list", "helper"}
    PROVE  Sound([s EXCEPT !.popup = p], c) /\ [s EXCEPT !.popup = p].hit = s.hit
BY DEF Sound, Service, Works

LEMMA OpenCodeInputSound ==
    ASSUME NEW c \in Nat, NEW s, Sound(s, c), NEW t \in OpenCodeInput(s)
    PROVE  Sound(t, c) /\ t.hit = s.hit
BY PopupSound DEF OpenCodeInput

LEMMA HanjaSound ==
    ASSUME NEW c \in Nat, NEW s, Sound(s, c), NEW t \in Hanja(s)
    PROVE  Sound(t, c) /\ t.hit = s.hit
<1>1. Sound(Flush(s), c) /\ Flush(s).hit = s.hit
    BY FlushSound
<1> QED BY <1>1, PopupSound DEF Hanja

LEMMA InPopupSound ==
    ASSUME NEW c \in Nat, NEW s, Sound(s, c), NEW t \in InPopup(s, c)
    PROVE  Sound(t, c) /\ t.hit = s.hit
<1> DEFINE f == Flush(s)
           m == IF s.popup = "code" THEN c ELSE 0
<1>1. Sound(f, c) /\ f.hit = s.hit /\ f.comp = 0
    BY FlushSound
<1>2. m \in Nat /\ m <= c
    OBVIOUS
<1>3. t \in {s, [s EXCEPT !.popup = "none"], [Commit(f, m) EXCEPT !.popup = "none"]}
    BY DEF InPopup
<1> HIDE DEF f, m
<1>4. Sound(Commit(f, m), c) /\ Commit(f, m).hit = s.hit
    BY <1>1, <1>2, CommitSound
<1> QED BY <1>3, <1>4, PopupSound

LEMMA PassthroughFolds ==
    ASSUME NEW c \in Nat, NEW s, Sound(s, c)
    PROVE  /\ Folded(SetPassthrough(s, FALSE), c)
           /\ Folded(SetPassthrough(Flush(s), TRUE), c)
           /\ Folded(SetPassthrough(Flush(s), ~s.passthrough), c)
<1>1. Sound(Flush(s), c)
    BY FlushSound
<1>2. Folded(Transition(s, "external"), c) /\ Folded(Transition(Flush(s), "external"), c)
    BY <1>1, TransitionFolds DEF Sound
<1>3. ASSUME NEW t, Folded(t, c)
      PROVE  /\ Folded([t EXCEPT !.passthrough = TRUE], c)
             /\ Folded([t EXCEPT !.passthrough = FALSE], c)
             /\ Folded([t EXCEPT !.passthrough = ~s.passthrough], c)
    BY <1>3 DEF Folded, Service
<1> QED BY <1>2, <1>3 DEF SetPassthrough

LEMMA RotateFolds ==
    ASSUME KeyRouteAssumption, NEW c \in Nat, NEW s, Sound(s, c)
    PROVE  Folded(RotateLayoutFromKey(s), c)
<1> DEFINE t == Transition(s, "key")
<1>1. Folded(t, c)
    BY TransitionFolds DEF Sound
<1>2. RotateLayoutFromKey(s) = [t EXCEPT !.layout = Rotation[@]]
    BY DEF RotateLayoutFromKey
<1> HIDE DEF t
<1>3. Rotation[t.layout] \in DOMAIN Rotation
    BY <1>1 DEF Folded, Service, KeyRouteAssumption
<1>4. Folded([t EXCEPT !.layout = Rotation[t.layout]], c)
    BY <1>1, <1>3, ModeAfterFold
<1> QED BY <1>2, <1>4

-------------------------------------------------------------------------------
(* The whole of OnKeyDown *)

LEMMA FoldedWell ==
    ASSUME NEW c \in Nat, NEW s, NEW t, Folded(t, c + 1), NEW vk, NEW repeat
    PROVE  Sound(t, c + 1) /\ HitAfter(s, t, vk, repeat)
BY FoldedIsSound DEF Folded, HitAfter

LEMMA CommandedSound ==
    ASSUME KeyRouteAssumption, HanjaMakesNoText, NEW c \in Nat, NEW s, Sound(s, c), Works(s),
           NEW k \in Strokes, NEW repeat, NEW r \in Commanded(s, k, c + 1, repeat)
    PROVE  WellDone(r, s, k.vk, c + 1, repeat)
<1> DEFINE Good(t) == Sound(t, c + 1) /\ HitAfter(s, t, k.vk, repeat)
<1>1. Good(s) /\ Sound(Flush(s), c + 1) /\ Good(Flush(s)) /\ Flush(s).comp = 0
    BY PassedLater DEF HitAfter
<1>2. \A t \in OpenCodeInput(Flush(s)) : Good(t)
    BY <1>1, PassedLater, OpenCodeInputSound DEF HitAfter
<1>3. \A t \in Hanja(s) : Good(t)
    BY <1>1, HanjaSound DEF HitAfter
<1>4. Good(SetPassthrough(Flush(s), TRUE))
    <2>1. Sound(s, c + 1)
        BY <1>1
    <2>2. c + 1 \in Nat
        OBVIOUS
    <2>3. Folded(SetPassthrough(Flush(s), TRUE), c + 1)
        BY <2>1, <2>2, PassthroughFolds, Zenon
    <2> QED BY <2>3, FoldedWell
<1>5. Good(RotateLayoutFromKey(s))
    BY <1>1, RotateFolds, FoldedWell
<1>6. \/ r \in Taken({s}) \/ r \in Taken({SetPassthrough(Flush(s), TRUE)})
      \/ r \in Taken(OpenCodeInput(Flush(s)))
      \/ r \in Taken(Hanja(s))
      \/ Config_IsShortcut("hanja", k) /\ r \in Passed({s, Flush(s)})
      \/ r \in Taken({RotateLayoutFromKey(s)}) \/ r \in Passed({Flush(s)})
      \/ r \in LayoutDown(s, k.vk, c + 1, repeat)
    BY DEF Commanded, IsCommand
<1> HIDE DEF Good
<1>7. CASE r.eaten /\ Good(r.s)
    BY <1>7 DEF Good, WellDone, InOrder
<1>8. CASE r \in Passed({Flush(s)})
    <2>1. r.s = Flush(s)
        BY <1>8 DEF Passed
    <2> QED BY <1>1, <2>1 DEF Good, WellDone, InOrder
<1>9. CASE Config_IsShortcut("hanja", k) /\ r \in Passed({s, Flush(s)})
    <2>1. IsModifierOrLock(k.vk)
        BY <1>9 DEF HanjaMakesNoText
    <2>2. r.s \in {s, Flush(s)}
        BY <1>9 DEF Passed
    <2> QED BY <1>1, <2>1, <2>2 DEF Good, WellDone, InOrder
<1>10. CASE r \in LayoutDown(s, k.vk, c + 1, repeat)
    BY <1>10, LayoutDownSound
<1>11. ASSUME NEW T, r \in Taken(T)
       PROVE  r.s \in T /\ r.eaten
    BY <1>11 DEF Taken
<1>12. CASE r \in Taken({s}) \/ r \in Taken({SetPassthrough(Flush(s), TRUE)})
                \/ r \in Taken({RotateLayoutFromKey(s)})
    <2>1. r.eaten /\ (\/ r.s = s \/ r.s = SetPassthrough(Flush(s), TRUE)
                      \/ r.s = RotateLayoutFromKey(s))
        BY <1>12, TakenOne, Zenon
    <2>2. Good(r.s)
        BY <1>1, <1>4, <1>5, <2>1, Zenon
    <2> QED BY <1>7, <2>1, <2>2
<1>13. CASE r \in Taken(OpenCodeInput(Flush(s))) \/ r \in Taken(Hanja(s))
    BY <1>2, <1>3, <1>7, <1>11, <1>13
<1> QED BY <1>6, <1>8, <1>9, <1>10, <1>12, <1>13

\* Only a key that OnTestKeyDown has claimed comes here.
LEMMA KeyDownSound ==
    ASSUME KeyRouteAssumption, HanjaMakesNoText, NEW c \in Nat, NEW s, Sound(s, c),
           NEW k \in Strokes, NEW repeat, NEW r \in KeyDown(s, k, c + 1, repeat)
    PROVE  WellDone(r, s, k.vk, c + 1, repeat)
<1>1. CASE r \in Passed({s}) /\ ~Works(s)
    <2>1. r.s = s
        BY <1>1 DEF Passed
    <2>2. s.comp = 0
        BY <1>1 DEF Sound
    <2> QED BY <2>1, <2>2, PassedLater DEF WellDone, HitAfter, InOrder
<1>2. CASE r \in Taken({SetPassthrough(s, FALSE)})
    <2>1. r.s = SetPassthrough(s, FALSE) /\ r.eaten
        BY <1>2, TakenOne, Zenon
    <2>2. c + 1 \in Nat /\ Sound(s, c + 1)
        BY LaterSound
    <2>3. Folded(SetPassthrough(s, FALSE), c + 1)
        BY <2>2, PassthroughFolds, Zenon
    <2>4. Folded(r.s, c + 1)
        BY <2>1, <2>3, Zenon
    <2> QED BY <2>1, <2>4, FoldedWell DEF WellDone, InOrder
<1>3. CASE r \in Taken(InPopup(s, c + 1))
    <2>1. r.s \in InPopup(s, c + 1) /\ r.eaten
        BY <1>3 DEF Taken
    <2>2. Sound(s, c + 1) /\ c + 1 \in Nat
        BY LaterSound
    <2> QED BY <2>1, <2>2, InPopupSound DEF WellDone, HitAfter, InOrder
<1>4. CASE Works(s) /\ r \in Commanded(s, k, c + 1, repeat)
    BY <1>4, CommandedSound
<1>5. CASE Works(s) /\ r \in Commanded([s EXCEPT !.popup = "none"], k, c + 1, repeat)
    <2> DEFINE t == [s EXCEPT !.popup = "none"]
    <2>1. Sound(t, c) /\ t.hit = s.hit
        BY PopupSound
    <2>2. Works(t)
        BY <1>5 DEF Sound, Service, Works
    <2>3. WellDone(r, t, k.vk, c + 1, repeat)
        BY <1>5, <2>1, <2>2, CommandedSound
    <2> HIDE DEF t
    <2> QED BY <2>1, <2>3 DEF WellDone, HitAfter
<1> QED BY <1>1, <1>2, <1>3, <1>4, <1>5 DEF KeyDown, Works

-------------------------------------------------------------------------------
(* Before it: what OnTestKeyDown commits *)

LEMMA TestSound ==
    ASSUME NEW c \in Nat, NEW s, Sound(s, c), NEW k \in Strokes, NEW t \in FlushInTest(s, k)
    PROVE  Sound(t, c) /\ t.hit = s.hit /\ (t = s \/ t.comp = 0)
<1>1. Sound(Flush(s), c) /\ Flush(s).comp = 0 /\ Flush(s).hit = s.hit
    BY FlushSound
<1>2. /\ Sound(FlushSeq(Flush(s)), c) /\ FlushSeq(Flush(s)).comp = 0
      /\ FlushSeq(Flush(s)).hit = s.hit
    BY <1>1, FlushSeqSound
<1> QED BY <1>1, <1>2 DEF FlushInTest

\* A key that is not claimed overtakes nothing either.
LEMMA NotClaimed ==
    ASSUME KeyRouteAssumption, NEW c \in Nat, NEW s, Sound(s, c), NEW k \in Strokes,
           ~TestKeyDown(s, k), NEW t \in FlushInTest(s, k)
    PROVE  t.comp = 0 \/ IsModifierOrLock(k.vk)
<1>1. CASE s.disabled \/ s.passthrough
    <2>1. s.comp = 0
        BY <1>1 DEF Sound, Works
    <2> QED BY <2>1, TestSound
<1>2. CASE ~s.disabled /\ ~s.passthrough
    <2>1. s.popup = "none" /\ ~IsCommand(k)
        BY <1>2 DEF TestKeyDown
    <2>2. CASE HasCtrlAltWin(k)
        <3>1. t \in {Flush(s), FlushSeq(Flush(s))}
            BY <1>2, <2>1, <2>2 DEF FlushInTest
        <3>2. Sound(Flush(s), c) /\ Flush(s).comp = 0
            BY FlushSound
        <3> QED BY <3>1, <3>2, FlushSeqSound
    <2>3. CASE ~HasCtrlAltWin(k)
        <3>1. t = s
            BY <2>3 DEF FlushInTest
        <3>2. ~LayoutWants(s, k.vk)
            BY <1>2, <2>3 DEF TestKeyDown
        <3>3. s.layout \in {"hangul", "front"} => s.comp = 0 \/ IsModifierOrLock(k.vk)
            BY <3>2 DEF LayoutWants
        <3> QED BY <3>1, <3>3 DEF Sound
    <2> QED BY <2>2, <2>3
<1> QED BY <1>1, <1>2

\* The two halves of the sink agree, with what OnTestKeyDown commits between them.
LEMMA Foresees ==
    ASSUME KeyRouteAssumption, NEW s \in Service, NEW k \in Strokes, NEW n, NEW repeat,
           NEW t \in FlushInTest(s, k), NEW r \in KeyDown(t, k, n, repeat), r.eaten
    PROVE  TestKeyDown(s, k)
<1>1. FrontKeys \subseteq Letters
    BY DEF KeyRouteAssumption
<1>2. s.layout \in {"pass", "static", "hangul", "front", "moachigi", "seqfront"}
    BY LayoutKinds DEF Service
<1>3. \A T : r \in Passed(T) => ~r.eaten
    BY DEF Passed
<1>4. SUFFICES ASSUME ~TestKeyDown(s, k) PROVE FALSE
    OBVIOUS
<1>5. CASE s.disabled
    BY <1>3, <1>5 DEF FlushInTest, KeyDown
<1>6. CASE ~s.disabled /\ s.passthrough
    <2>1. t = s /\ ~Config_IsShortcut("passthrough", k)
        BY <1>4, <1>6 DEF FlushInTest, TestKeyDown
    <2> QED BY <1>3, <1>6, <2>1 DEF KeyDown
<1>7. CASE ~s.disabled /\ ~s.passthrough
    <2>1. s.popup = "none" /\ ~IsCommand(k)
        BY <1>4, <1>7 DEF TestKeyDown
    <2>2. /\ t \in Service /\ t.disabled = s.disabled /\ t.passthrough = s.passthrough
          /\ t.popup = s.popup /\ (~HasCtrlAltWin(k) => t = s)
        <3> DEFINE f == Flush(s)
                   Kept(u) == /\ u \in Service /\ u.disabled = s.disabled
                              /\ u.passthrough = s.passthrough /\ u.popup = s.popup
        <3>1. Kept(s) /\ Kept(f)
            BY DEF Service, Flush, Commit
        <3>2. t = s \/ (HasCtrlAltWin(k) /\ t \in {f, FlushSeq(f)})
            BY DEF FlushInTest
        <3> HIDE DEF f
        <3>3. Kept(FlushSeq(f))
            BY <3>1 DEF Service, FlushSeq, Commit
        <3> QED BY <3>1, <3>2, <3>3
    <2>3. r \in Commanded(t, k, n, repeat)
        BY <1>7, <2>1, <2>2 DEF KeyDown
    <2>4. \A fn \in {"settings", "code", "passthrough", "hanja", "rotate"} :
              ~Config_IsShortcut(fn, k)
        BY <2>1 DEF IsCommand
    <2>5. ~HasCtrlAltWin(k) /\ r \in LayoutDown(t, k.vk, n, repeat)
        BY <1>3, <2>1, <2>3, <2>4 DEF Commanded
    <2>6. t = s /\ ~LayoutWants(s, k.vk)
        BY <1>4, <1>7, <2>2, <2>5 DEF TestKeyDown
    <2>7. CASE s.layout \in {"static", "pass", "seqfront"}
        BY <1>3, <2>5, <2>6, <2>7 DEF LayoutDown, LayoutWants
    <2>8. CASE s.layout \in {"hangul", "front", "moachigi"}
        <3>1. ~(k.vk \in {"back", "esc"} /\ Composing(s)) /\ k.vk \notin Letters
              /\ (s.comp = 0 \/ IsModifierOrLock(k.vk))
            BY <2>6, <2>8 DEF LayoutWants
        <3>2. CASE s.layout = "moachigi"
            <4>1. r \in MoachigiDown(s, k.vk, repeat)
                BY <2>5, <2>6, <3>1, <3>2 DEF LayoutDown
            <4> QED BY <1>3, <3>1, <4>1 DEF MoachigiDown
        <3>3. CASE s.layout # "moachigi"
            <4>1. r \in HangulDown(s, k.vk, n)
                BY <2>5, <2>6, <2>8, <3>1, <3>3 DEF LayoutDown
            <4> QED BY <1>1, <1>3, <3>1, <4>1 DEF HangulDown, Composing
        <3> QED BY <3>2, <3>3
    <2> QED BY <1>2, <2>7, <2>8
<1> QED BY <1>5, <1>6, <1>7 DEF Service

-------------------------------------------------------------------------------
(* The counters of the struck keys *)

Counted(h) == h.active = Cardinality(h.keys) /\ (h.jamo # {} => h.keys # {})

LEMMA NoChordCounted == Counted(NoChord)
BY FS_EmptySet DEF Counted, NoChord

LEMMA CountedDown ==
    ASSUME KeyRouteAssumption, NEW h \in Chords, Counted(h), NEW k \in Letters, NEW repeat
    PROVE  /\ Counted(Chord_KeyDown(h, k, repeat))
           /\ Chord_KeyDown(h, k, repeat).keys \subseteq h.keys \cup {k}
<1> DEFINE d == Chord_KeyDown(h, k, repeat)
<1>1. IsFiniteSet(h.keys)
    BY FS_Subset DEF KeyRouteAssumption, Chords
<1>2. CASE k \in h.keys /\ repeat
    BY <1>2 DEF Chord_KeyDown
<1>3. CASE k \in h.keys /\ ~repeat
    <2>1. Cardinality(h.keys) > 0
        BY <1>1, <1>3, FS_EmptySet, FS_CardinalityType
    <2>2. d.keys = h.keys /\ d.active = h.active
        BY <1>3, <2>1 DEF Chord_KeyDown, Healed, Chords, Counted
    <2> QED BY <1>3, <2>2 DEF Counted
<1>4. CASE k \notin h.keys
    <2>1. d.keys = h.keys \cup {k} /\ d.active = h.active + 1
        BY <1>4 DEF Chord_KeyDown, Chords
    <2>2. Cardinality(h.keys \cup {k}) = Cardinality(h.keys) + 1
        BY <1>1, <1>4, FS_AddElement
    <2> QED BY <2>1, <2>2 DEF Counted
<1> QED BY <1>2, <1>3, <1>4

LEMMA CountedUp ==
    ASSUME KeyRouteAssumption, NEW h \in Chords, Counted(h), NEW k \in h.keys
    PROVE  /\ Counted(Chord_KeyUp(h, k))
           /\ Chord_KeyUp(h, k).keys \subseteq h.keys \ {k}
<1> DEFINE u == Chord_KeyUp(h, k)
<1>1. IsFiniteSet(h.keys)
    BY FS_Subset DEF KeyRouteAssumption, Chords
<1>2. Cardinality(h.keys \ {k}) = Cardinality(h.keys) - 1 /\ IsFiniteSet(h.keys \ {k})
    BY <1>1, FS_RemoveElement
<1>3. Cardinality(h.keys) > 0 /\ Cardinality(h.keys) \in Nat
    BY <1>1, FS_EmptySet, FS_CardinalityType
<1>4. CASE h.active = 1
    <2>1. u = NoChord
        BY <1>4 DEF Chord_KeyUp
    <2> QED BY <2>1, NoChordCounted, NoChordType
<1>5. CASE h.active # 1
    <2>1. u = [h EXCEPT !.keys = @ \ {k}, !.active = h.active - 1]
        BY <1>3, <1>5 DEF Chord_KeyUp, Counted
    <2>2. u.keys = h.keys \ {k} /\ u.active = h.active - 1
        BY <2>1 DEF Chords
    <2>3. h.keys \ {k} # {}
        BY <1>2, <1>3, <1>5, FS_EmptySet DEF Counted
    <2> QED BY <1>2, <2>2, <2>3 DEF Counted
<1> QED BY <1>4, <1>5

-------------------------------------------------------------------------------
(* The invariant *)

RouteInv ==
    /\ clock \in Nat /\ Sound(svc, clock)
    /\ preserved \subseteq {sc \in Shortcuts : Preservable(sc)}
    /\ StruckAtOnceEnds

\* The struck keys after a key went down: whatever the sink did with them, each one is
\* down, or its key-up was lost.
LEMMA StruckAfterPress ==
    ASSUME KeyRouteAssumption, RouteInv, NEW k \in Strokes, NEW repeat,
           HitAfter(svc, svc', k.vk, repeat),
           pressed' = pressed \cup ({k.vk} \cap Letters),
           ghosts' = (ghosts \ {k.vk}) \cap svc'.hit.keys
    PROVE  StruckAtOnceEnds'
<1> DEFINE h == svc.hit
<1>1. h \in Chords /\ Counted(h) /\ h.keys \subseteq pressed \cup ghosts
    BY DEF RouteInv, Sound, Service, StruckAtOnceEnds, Counted
<1>2. Counted(svc'.hit) /\ svc'.hit.keys \subseteq h.keys \cup ({k.vk} \cap Letters)
    BY <1>1, NoChordCounted, NoChordType, CountedDown DEF HitAfter
<1>3. h.keys \subseteq Letters
    BY <1>1 DEF Chords
<1>4. svc'.hit.keys \subseteq pressed' \cup ghosts'
    BY <1>1, <1>2, <1>3
<1> QED BY <1>2, <1>4 DEF StruckAtOnceEnds, Counted

LEMMA InitInv ==
    ASSUME KeyRouteAssumption, Init
    PROVE  RouteInv
<1>1. svc \in Service /\ svc.hit = NoChord /\ svc.comp = 0 /\ svc.last = 0 /\ svc.reading = 0
      /\ svc.front = {}
    <2>1. svc \in [layout : DOMAIN Rotation, fullWidth : BOOLEAN, passthrough : {FALSE},
                   disabled : {FALSE}, popup : {"none"}, comp : {0}, reading : {0},
                   hit : {NoChord}, front : {{}}, last : {0}]
        BY DEF Init
    <2>2. svc.hit = NoChord /\ svc.comp = 0 /\ svc.last = 0 /\ svc.reading = 0 /\ svc.front = {}
        BY <2>1
    <2>3. svc.hit \in Chords
        BY <2>2, NoChordType
    <2>4. svc.front \in SUBSET FrontKeys
        BY <2>2
    <2>5. svc \in Service
        <3>1. ASSUME NEW hits, NEW fronts, svc.hit \in hits, svc.front \in fronts
              PROVE  svc \in [layout : DOMAIN Rotation, fullWidth : BOOLEAN,
                               passthrough : BOOLEAN, disabled : BOOLEAN,
                               popup : {"none", "code", "list", "helper"}, comp : Nat,
                               reading : Nat, hit : hits, front : fronts, last : Nat]
            <4>1. svc \in [layout : DOMAIN Rotation, fullWidth : BOOLEAN, passthrough : BOOLEAN,
                            disabled : BOOLEAN, popup : {"none"}, comp : {0}, reading : {0},
                            hit : {NoChord}, front : {{}}, last : {0}]
                BY <2>1, Zenon
            <4> QED BY <3>1, <4>1
        <3> QED BY <2>3, <2>4, <3>1 DEF Service
    <2> QED BY <2>2, <2>5
<1>2. Sound(svc, 0)
    BY <1>1, NoChordType DEF Sound
<1>3. StruckAtOnceEnds
    BY <1>1, NoChordCounted, NoChordType DEF StruckAtOnceEnds, Counted
<1> QED BY <1>2, <1>3 DEF RouteInv, Init

LEMMA PressInv ==
    ASSUME KeyRouteAssumption, HanjaMakesNoText, RouteInv, NEW k \in Strokes, Press(k)
    PROVE  RouteInv'
<1> DEFINE n == clock + 1
           repeat == k.vk \in pressed
<1>1. clock \in Nat /\ clock' = n /\ Sound(svc, clock) /\ preserved' = preserved
    BY DEF RouteInv, Press, Happens
<1>2. PICK t \in FlushInTest(svc, k) :
          IF TestKeyDown(svc, k)
          THEN \E r \in KeyDown(t, k, n, repeat) :
                  svc' = IF r.eaten THEN r.s ELSE ToApplication(r.s, k, n)
          ELSE svc' = ToApplication(t, k, n)
    BY DEF Press
<1>3. Sound(t, clock) /\ t.hit = svc.hit
    BY <1>1, TestSound
<1>4. ASSUME NEW u, Sound(u, n), u.comp = 0 \/ IsModifierOrLock(k.vk)
      PROVE  Sound(ToApplication(u, k, n), n) /\ ToApplication(u, k, n).hit = u.hit
    BY <1>1, <1>4, CommitSound DEF ToApplication
<1>5. Sound(svc', n) /\ HitAfter(svc, svc', k.vk, repeat)
    <2>1. CASE TestKeyDown(svc, k)
        <3>1. PICK r \in KeyDown(t, k, n, repeat) :
                  svc' = IF r.eaten THEN r.s ELSE ToApplication(r.s, k, n)
            BY <1>2, <2>1
        <3>2. WellDone(r, t, k.vk, n, repeat)
            BY <1>1, <1>3, KeyDownSound
        <3> QED BY <1>3, <1>4, <3>1, <3>2 DEF WellDone, HitAfter, InOrder
    <2>2. CASE ~TestKeyDown(svc, k)
        <3>1. t.comp = 0 \/ IsModifierOrLock(k.vk)
            BY <1>1, <2>2, NotClaimed
        <3>2. Sound(t, n)
            BY <1>1, <1>3, LaterSound
        <3> QED BY <1>2, <1>3, <1>4, <2>2, <3>1, <3>2 DEF HitAfter
    <2> QED BY <2>1, <2>2
<1>6. StruckAtOnceEnds'
    BY <1>5, StruckAfterPress DEF Press
<1> QED BY <1>1, <1>5, <1>6 DEF RouteInv

LEMMA CompletePendingSound ==
    ASSUME NEW c \in Nat, NEW s, Sound(s, c), Works(s), s.layout \in {"front", "seqfront"},
           NEW t \in CompletePending(s, c + 1)
    PROVE  Sound(t, c + 1) /\ t.hit = s.hit
<1>1. CASE s.layout = "front"
    <2>1. \/ t \in {s, Commit(Flush(s), c + 1), [s EXCEPT !.comp = 0]}
          \/ t \in FsmLetter(s, c + 1)
        BY <1>1 DEF CompletePending, HangulTextSink, HangulKeySink
    <2>2. ASSUME t \in FsmLetter(s, c + 1) PROVE Sound(t, c + 1) /\ t.hit = s.hit
        BY <1>1, <2>2, FsmLetterSound
    <2>3. /\ Sound(s, c + 1)
          /\ Sound(Commit(Flush(s), c + 1), c + 1) /\ Commit(Flush(s), c + 1).hit = s.hit
          /\ Sound([s EXCEPT !.comp = 0], c + 1) /\ [s EXCEPT !.comp = 0].hit = s.hit
        BY PassedLater
    <2> QED BY <2>1, <2>2, <2>3
<1>2. CASE s.layout = "seqfront"
    <2>1. s.comp = 0 /\ Sound(s, c + 1)
        BY <1>2, LaterSound DEF Sound
    <2>2. t \in {s, Commit(s, c + 1), [s EXCEPT !.reading = IF @ = 0 THEN c + 1 ELSE @]}
        BY <1>2 DEF CompletePending
    <2>3. CASE t = [s EXCEPT !.reading = IF @ = 0 THEN c + 1 ELSE @]
        BY <2>1, <2>3 DEF Sound, Service, Works
    <2>4. Sound(Commit(s, c + 1), c + 1) /\ Commit(s, c + 1).hit = s.hit
        BY <2>1, PassedLater
    <2> QED BY <2>1, <2>2, <2>3, <2>4
<1> QED BY <1>1, <1>2

LEMMA ReleaseInv ==
    ASSUME KeyRouteAssumption, RouteInv, NEW k \in Letters, Release(k)
    PROVE  RouteInv'
<1> DEFINE n == clock + 1
           h == Chord_KeyUp(svc.hit, k)
           m == IF h = NoChord THEN n ELSE 0
           up == [svc EXCEPT !.front = @ \ {k}]
<1>1. clock \in Nat /\ n \in Nat /\ clock' = n /\ Sound(svc, clock) /\ preserved' = preserved
    BY DEF RouteInv, Release, Happens
<1>2. /\ svc.hit \in Chords /\ Counted(svc.hit) /\ svc.hit.keys \subseteq pressed \cup ghosts
    BY DEF RouteInv, Sound, Service, StruckAtOnceEnds, Counted
<1>3. pressed' = pressed \ {k} /\ ghosts' = ghosts \cap svc'.hit.keys
    BY DEF Release
<1>4. CASE k \in svc.hit.keys
    <2>1. svc' = [Commit(svc, m) EXCEPT !.hit = h]
        BY <1>4 DEF Release
    <2>2. h \in Chords /\ Counted(h) /\ h.keys \subseteq svc.hit.keys \ {k}
        BY <1>2, <1>4, ChordUpType, CountedUp
    <2>3. svc.comp = 0 /\ svc.layout = "moachigi" /\ svc.front = {}
        BY <1>1, <1>4 DEF Sound
    <2>4. m \in Nat /\ m <= n
        BY <1>1
    <2> HIDE DEF h, m
    <2>5. Sound(Commit(svc, m), n) /\ Commit(svc, m).comp = 0
        BY <1>1, <2>3, <2>4, LaterSound, CommitSound
    <2>6. Commit(svc, m).layout = "moachigi"
        BY <1>1, <2>3 DEF Commit, Sound, Service
    <2>7. svc'.hit = h /\ Sound(svc', n)
        BY <2>1, <2>2, <2>5, <2>6 DEF Sound, Service, Works
    <2>8. StruckAtOnceEnds'
        BY <1>2, <1>3, <2>2, <2>7 DEF StruckAtOnceEnds, Counted
    <2> QED BY <1>1, <2>7, <2>8 DEF RouteInv
<1>5. CASE k \notin svc.hit.keys
    <2>1. Sound(svc', n) /\ svc'.hit = svc.hit
        <3>1. CASE k \notin svc.front
            BY <1>1, <1>5, <3>1, LaterSound DEF Release
        <3>2. CASE k \in svc.front
            <4>1. Works(svc) /\ svc.layout \in {"front", "seqfront"}
                BY <1>1, <3>2 DEF Sound
            <4>2. /\ Sound(up, clock) /\ up.hit = svc.hit /\ up.layout = svc.layout
                  /\ Works(up)
                BY <1>1, <4>1 DEF Sound, Service, Works
            <4>3. svc' = up \/ svc' \in CompletePending(up, n)
                BY <1>5, <3>2 DEF Release
            <4> HIDE DEF up
            <4> QED BY <1>1, <4>1, <4>2, <4>3, LaterSound, CompletePendingSound
        <3> QED BY <3>1, <3>2
    <2>2. StruckAtOnceEnds'
        BY <1>2, <1>3, <1>5, <2>1 DEF StruckAtOnceEnds, Counted
    <2> QED BY <1>1, <2>1, <2>2 DEF RouteInv
<1> QED BY <1>4, <1>5

LEMMA LoseReleaseInv ==
    ASSUME RouteInv, NEW k \in Letters, LoseRelease(k)
    PROVE  RouteInv'
BY DEF RouteInv, LoseRelease, StruckAtOnceEnds

\* After an event that folds the input no struck key is left.
LEMMA FoldedInv ==
    ASSUME RouteInv, NEW c \in Nat, clock' = c, Folded(svc', c), preserved' = preserved
    PROVE  RouteInv'
<1>1. Sound(svc', c) /\ svc'.hit = NoChord
    BY FoldedIsSound DEF Folded
<1>2. StruckAtOnceEnds'
    BY <1>1, NoChordCounted, NoChordType DEF StruckAtOnceEnds, Counted
<1> QED BY <1>1, <1>2 DEF RouteInv

LEMMA PreservedKeyInv ==
    ASSUME KeyRouteAssumption, RouteInv, NEW sc \in Shortcuts, PreservedKey(sc)
    PROVE  RouteInv'
<1> DEFINE n == clock + 1
<1>1. /\ clock \in Nat /\ n \in Nat /\ clock' = n /\ Sound(svc, n) /\ preserved' = preserved
      /\ pressed' = pressed /\ ghosts' = ghosts \cap svc'.hit.keys
    BY LaterSound DEF RouteInv, PreservedKey, Happens
<1>2. sc.fn \in {"settings", "code", "passthrough", "rotate"}
    BY DEF RouteInv, PreservedKey, Preservable, KeyRouteAssumption
<1>3. CASE sc.fn \in {"settings", "code"}
    <2>1. Sound(svc', n) /\ svc'.hit = svc.hit
        <3>1. Sound(Flush(svc), n) /\ Flush(svc).hit = svc.hit
            BY <1>1, FlushSound
        <3>2. svc' = svc \/ svc' \in OpenCodeInput(Flush(svc))
            BY <1>3 DEF PreservedKey
        <3> QED BY <1>1, <3>1, <3>2, OpenCodeInputSound
    <2>2. StruckAtOnceEnds'
        BY <1>1, <2>1 DEF RouteInv, StruckAtOnceEnds
    <2> QED BY <1>1, <2>1, <2>2 DEF RouteInv
<1>4. CASE sc.fn = "passthrough"
    <2>1. svc' = SetPassthrough(Flush(svc), ~svc.passthrough)
        BY <1>4 DEF PreservedKey
    <2>2. Folded(SetPassthrough(Flush(svc), ~svc.passthrough), n)
        BY <1>1, PassthroughFolds, Zenon
    <2>3. Folded(svc', n)
        BY <2>1, <2>2, Zenon
    <2> QED BY <1>1, <2>3, FoldedInv
<1>5. CASE sc.fn = "rotate"
    <2>1. svc' = RotateLayoutFromKey(svc)
        BY <1>5 DEF PreservedKey
    <2> QED BY <1>1, <2>1, RotateFolds, FoldedInv
<1> QED BY <1>2, <1>3, <1>4, <1>5

LEMMA FocusInv ==
    ASSUME RouteInv, FocusOfKeys \/ FocusOfDocument
    PROVE  RouteInv'
<1> DEFINE n == clock + 1
<1>1. clock \in Nat /\ n \in Nat /\ clock' = n /\ Sound(svc, n) /\ preserved' = preserved
    BY LaterSound DEF RouteInv, FocusOfKeys, FocusOfDocument, Happens
<1>2. CASE FocusOfKeys
    <2> DEFINE t == Transition(svc, "focus")
    <2>1. Folded(t, n)
        BY <1>1, TransitionFolds DEF Sound
    <2>2. PICK on \in BOOLEAN : svc' = [t EXCEPT !.passthrough = on]
        BY <1>2 DEF FocusOfKeys
    <2> HIDE DEF t
    <2>3. Folded(svc', n)
        BY <2>1, <2>2 DEF Folded, Service
    <2> QED BY <1>1, <2>3, FoldedInv
<1>3. CASE FocusOfDocument
    <2>1. PICK off \in BOOLEAN : svc' = Transition([svc EXCEPT !.disabled = off], "focus")
        BY <1>3 DEF FocusOfDocument
    <2> DEFINE t == [svc EXCEPT !.disabled = off]
    <2>2. t \in Service /\ t.comp <= n /\ t.last <= n /\ t.reading <= n
        BY <1>1 DEF Sound, Service
    <2> HIDE DEF t
    <2>3. Folded(Transition(t, "focus"), n)
        BY <1>1, <2>2, TransitionFolds
    <2>4. Folded(svc', n)
        BY <2>1, <2>3 DEF t
    <2> QED BY <1>1, <2>4, FoldedInv
<1> QED BY <1>2, <1>3

LEMMA NextInv ==
    ASSUME KeyRouteAssumption, HanjaMakesNoText, RouteInv, [Next]_vars
    PROVE  RouteInv'
<1>1. CASE UNCHANGED vars
    BY <1>1 DEF RouteInv, vars, StruckAtOnceEnds
<1>2. ASSUME NEW k \in Strokes, Press(k) PROVE RouteInv'
    BY <1>2, PressInv
<1>3. ASSUME NEW k \in Letters, Release(k) \/ LoseRelease(k) PROVE RouteInv'
    BY <1>3, ReleaseInv, LoseReleaseInv
<1>4. ASSUME NEW sc \in Shortcuts, PreservedKey(sc) PROVE RouteInv'
    BY <1>4, PreservedKeyInv
<1>5. CASE FocusOfKeys \/ FocusOfDocument
    BY <1>5, FocusInv
<1> QED BY <1>1, <1>2, <1>3, <1>4, <1>5 DEF Next

(* Whatever letters, shortcuts and layouts there are: OnTestKeyDown claims  *)
(* every key that OnKeyDown takes, nothing struck later reaches the         *)
(* application before the composed syllable, and the keys of a struck       *)
(* syllable are counted (text_service.c, chord.c).                          *)
THEOREM KeysAlwaysKeepTheirWay ==
    ASSUME KeyRouteAssumption, HanjaMakesNoText
    PROVE  Spec => []KeysKeepTheirWay
<1>1. Init => RouteInv
    BY InitInv
<1>2. RouteInv /\ [Next]_vars => RouteInv'
    BY NextInv
<1>3. RouteInv => KeysKeepTheirWay
    <2>1. RouteInv => NothingOvertakes
        BY DEF RouteInv, Sound, NothingOvertakes
    <2>2. RouteInv => TestForeseesDown
        BY Foresees DEF RouteInv, Sound, TestForeseesDown
    <2> QED BY <2>1, <2>2 DEF KeysKeepTheirWay, RouteInv
<1> QED BY <1>1, <1>2, <1>3, PTL DEF Spec

------------------------------------------------------------------------------
(* THE CODE INPUT *)

\* The digits of the one who may type into the input are those that are shown.
CodeTypeOK ==
    /\ program \in Programs /\ focusTid \in Threads /\ win \in {"none", "hidden", "shown"} /\ wlActive \in BOOLEAN
    /\ hex \in Seq(Digits) /\ Len(hex) <= MaxDigits
    /\ typed \in [Threads -> Seq(Digits)]

ShownIsTyped == IsVisible /\ ownerTid \in {"none", focusTid} => hex = typed[focusTid]

CodeInv == CodeTypeOK /\ ShownIsTyped /\ WritesWhatWasTyped

LEMMA InitCode ==
    ASSUME CodeInputAssumption
    PROVE  CodeInit => CodeInv
<1> SUFFICES ASSUME CodeInit PROVE CodeInv
    OBVIOUS
<1>1. CodeTypeOK
    <2>1. wlActive \in BOOLEAN
        BY DEF CodeInit
    <2> QED BY <2>1, EmptySeq DEF CodeInit, CodeTypeOK, CodeInputAssumption
<1>2. ShownIsTyped
    BY DEF CodeInit, ShownIsTyped, IsVisible
<1>3. WritesWhatWasTyped
    BY DEF CodeInit, WritesWhatWasTyped
<1> QED BY <1>1, <1>2, <1>3 DEF CodeInv

\* A pair of units is the character it was made of.
LEMMA DivMod ==
    ASSUME NEW n \in Nat
    PROVE  n \div 1024 \in Nat /\ n % 1024 \in Nat /\ n = 1024 * (n \div 1024) + (n % 1024)
BY SMT

LEMMA UnitsDecode ==
    ASSUME NEW cp \in Nat
    PROVE  Units(cp) # <<>> /\ Decoded(Units(cp)) = cp
<1>1. CASE cp <= 65535
    BY <1>1, SMT DEF Units, Decoded
<1>2. CASE cp > 65535
    <2> DEFINE n == cp - 65536
               q == n \div 1024
               r == n % 1024
    <2>1. n \in Nat
        BY <1>2, SMT
    <2>2. q \in Nat /\ r \in Nat /\ n = 1024 * q + r
        BY <2>1, DivMod
    <2>3. Units(cp) = <<55296 + q, 56320 + r>>
        BY <1>2, SMT DEF Units
    <2> HIDE DEF q, r
    <2>4. Decoded(Units(cp)) = 65536 + ((55296 + q) - 55296) * 1024 + (56320 + r) - 56320 /\ Units(cp) # <<>>
        BY <2>3, SMT DEF Decoded
    <2> QED BY <1>2, <2>2, <2>4, SMT
<1> QED BY <1>1, <1>2, SMT

LEMMA MaxIsNat == MaxCodepoint \in Nat
BY SMT DEF MaxCodepoint

LEMMA CodepointRange ==
    ASSUME NEW ds, CurCodepoint(ds) # 0
    PROVE  /\ CurCodepoint(ds) = Value(ds) /\ Len(ds) >= 2
           /\ Value(ds) \in 32 .. MaxCodepoint /\ ~Surrogate(Value(ds))
BY SMT DEF CurCodepoint

LEMMA FollowType ==
    ASSUME CodeInputAssumption, NEW ds \in Seq(Digits), NEW k \in AllKeys
    PROVE  Follow(ds, k) \in Seq(Digits)
<1>1. k.kind = "digit" => k.digit \in Digits
    BY DEF AllKeys
<1> QED BY <1>1 DEF Follow, Front

LEMMA HideInv == 
    ASSUME CodeInv, Hide
    PROVE  /\ hex' = <<>> /\ ~wlActive' /\ wlActive' \in BOOLEAN /\ win' # "shown" /\ win' \in {"none", "hidden", "shown"}
BY DEF Hide, CodeInv, CodeTypeOK

LEMMA KeyInv ==
    ASSUME CodeInputAssumption, CodeInv, NEW t \in Threads, NEW k \in AllKeys, Key(t, k)
    PROVE  CodeInv'
<1> USE DEF Key
<1>1. typed[t] \in Seq(Digits) /\ typed' = [typed EXCEPT ![t] = Follow(typed[t], k)]
      /\ Follow(typed[t], k) \in Seq(Digits) /\ t = focusTid /\ typed'[t] = Follow(typed[t], k)
    BY FollowType DEF CodeInv, CodeTypeOK
<1>2. ~Refused(t) => hex = typed[t]
    BY DEF CodeInv, ShownIsTyped, Refused
<1>3. /\ hex' \in Seq(Digits) /\ Len(hex') <= MaxDigits /\ win' \in {"none", "hidden", "shown"}
      /\ wlActive' \in BOOLEAN
      /\ ~Refused(t) => (IsVisible' => hex' = Follow(hex, k))
    <2> USE DEF CodeInv, CodeTypeOK, CodeInputAssumption
    <2>1. CASE Refused(t) \/ ~IsVisible
        <3>1. UNCHANGED <<hex, wlActive, win>>
            BY <2>1 DEF HandleKey
        <3> QED BY <2>1, <3>1 DEF IsVisible
    <2>2. CASE ~Refused(t) /\ IsVisible /\ k.kind \in {"enter", "esc"}
        <3>1. Hide
            BY <2>2 DEF HandleKey
        <3>2. hex' = <<>> /\ ~IsVisible' /\ wlActive' \in BOOLEAN /\ win' \in {"none", "hidden", "shown"}
            BY <3>1, HideInv DEF IsVisible
        <3>3. <<>> \in Seq(Digits) /\ Len(<<>>) = 0
            BY EmptySeq
        <3> QED BY <3>2, <3>3
    <2>3. CASE ~Refused(t) /\ IsVisible /\ k.kind = "back"
        <3>1. /\ hex' = IF hex = <<>> THEN hex ELSE Front(hex)
              /\ UNCHANGED <<wlActive, win>>
            BY <2>3 DEF HandleKey
        <3>2. hex # <<>> => Front(hex) \in Seq(Digits) /\ Len(Front(hex)) <= MaxDigits
            BY DEF Front
        <3> QED BY <2>3, <3>1, <3>2 DEF Follow
    <2>4. CASE ~Refused(t) /\ IsVisible /\ k.kind \notin {"enter", "esc", "back"}
        <3>1. /\ hex' = IF k.kind = "digit" /\ Len(hex) < MaxDigits THEN Append(hex, k.digit) ELSE hex
              /\ UNCHANGED <<wlActive, win>>
            BY <2>4 DEF HandleKey
        <3>2. k.kind = "digit" => k.digit \in Digits
            BY DEF AllKeys
        <3> QED BY <2>4, <3>1, <3>2 DEF Follow
    <2> QED BY <2>1, <2>2, <2>3, <2>4
<1>4. CodeTypeOK'
    BY <1>1, <1>3 DEF CodeInv, CodeTypeOK
<1>5. ShownIsTyped'
    BY <1>1, <1>2, <1>3 DEF ShownIsTyped, Refused
<1>6. WritesWhatWasTyped'
    <2> SUFFICES ASSUME k.kind = "enter", Given(t, k) # 0
                 PROVE  /\ Decoded(Units(Given(t, k))) = Value(typed'[t])
                        /\ Len(typed'[t]) \in 2 .. MaxDigits
                        /\ Decoded(Units(Given(t, k))) \in 32 .. MaxCodepoint
                        /\ ~Surrogate(Decoded(Units(Given(t, k))))
        BY DEF WritesWhatWasTyped
    <2>1. ~Refused(t) /\ Given(t, k) = CurCodepoint(hex)
        BY DEF Given
    <2>2. typed'[t] = hex
        BY <1>1, <1>2, <2>1 DEF Follow
    <2>3. Given(t, k) = Value(hex) /\ Value(hex) \in 32 .. MaxCodepoint /\ ~Surrogate(Value(hex)) /\ Len(hex) >= 2
        BY <2>1, CodepointRange
    <2>4. Decoded(Units(Given(t, k))) = Given(t, k)
        BY <2>3, MaxIsNat, UnitsDecode
    <2> QED BY <2>2, <2>3, <2>4 DEF CodeInv, CodeTypeOK, CodeInputAssumption
<1> QED BY <1>4, <1>5, <1>6 DEF CodeInv

LEMMA OpenInv ==
    ASSUME CodeInputAssumption, CodeInv, NEW t \in Threads, Open(t)
    PROVE  CodeInv'
<1> USE DEF Open, CodeInv, CodeTypeOK, CodeInputAssumption
<1>0. <<>> \in Seq(Digits) /\ Len(<<>>) = 0
    BY EmptySeq
<1>1. typed' \in [Threads -> Seq(Digits)] /\ focusTid' = focusTid /\ focusTid = t
      /\ typed'[t] = IF IsVisible /\ ~Detour /\ ~Answer THEN typed[t] ELSE <<>>
    BY <1>0
<1>2. WritesWhatWasTyped'
    BY DEF WritesWhatWasTyped
<1>3. CASE ~Detour /\ CodeInput_Show(t)
    <2>1. CASE Answer
        <3>1. CodeTypeOK'
            <4>1. wlActive' = FALSE /\ hex' = <<>> /\ win' = "shown"
                BY <1>3, <2>1 DEF CodeInput_Show
            <4>2. wlActive' \in BOOLEAN /\ program' = program
                BY <4>1
            <4> QED BY <1>0, <1>1, <4>1, <4>2
        <3>2. ShownIsTyped'
            BY <1>1, <1>3, <2>1 DEF CodeInput_Show, ShownIsTyped
        <3> QED BY <1>2, <3>1, <3>2
    <2>2. CASE ~Answer
        <3>1. CodeTypeOK'
            BY <1>1, <1>3, <2>2 DEF CodeInput_Show
        <3>2. ShownIsTyped'
            BY <1>1, <1>3, <2>2 DEF CodeInput_Show, ShownIsTyped, IsVisible
        <3> QED BY <1>2, <3>1, <3>2
    <2> QED BY <2>1, <2>2
<1>4. CASE ShowFails /\ UNCHANGED <<win, ownerTid, lastAnswer, drawn>>
    <2>1. CodeTypeOK'
        <3>1. wlActive' = FALSE /\ hex' = <<>> /\ win' = win
            BY <1>4 DEF ShowFails
        <3>2. wlActive' \in BOOLEAN /\ program' = program
            BY <3>1
        <3> QED BY <1>0, <1>1, <3>1, <3>2
    <2>2. ShownIsTyped'
        BY <1>4 DEF ShowFails, ShownIsTyped, IsVisible
    <2> QED BY <1>2, <2>1, <2>2
<1>5. CASE (Detour \/ (win = "none" /\ Answer)) /\ WindowLess(t) /\ UNCHANGED <<win, ownerTid, lastAnswer>>
    <2>1. hex' = <<>> /\ \E draws \in {FALSE, program.helper} : wlActive' = draws
        BY <1>5 DEF WindowLess
    <2>a. program.helper \in BOOLEAN
        OBVIOUS
    <2>b. wlActive' \in BOOLEAN
        BY <2>1, <2>a
    <2>2. CodeTypeOK'
        BY <1>0, <1>1, <1>5, <2>1, <2>b
    <2>3. ShownIsTyped'
        BY <1>1, <1>5, <2>1 DEF ShownIsTyped
    <2> QED BY <1>2, <2>2, <2>3
<1> QED BY <1>3, <1>4, <1>5

LEMMA FocusThreadInv ==
    ASSUME CodeInputAssumption, CodeInv, NEW t \in Threads, FocusThread(t)
    PROVE  CodeInv'
<1>1. hex' = <<>> /\ ~IsVisible' /\ wlActive' \in BOOLEAN /\ win' \in {"none", "hidden", "shown"}
    BY HideInv DEF FocusThread, IsVisible
<1>2. <<>> \in Seq(Digits) /\ Len(<<>>) = 0
    BY EmptySeq
<1> QED BY <1>1, <1>2 DEF FocusThread, CodeInv, CodeTypeOK, ShownIsTyped, WritesWhatWasTyped, CodeInputAssumption

LEMMA ServiceInv ==
    ASSUME CodeInputAssumption, CodeInv, NEW t \in Threads, Activate(t) \/ Deactivate(t)
    PROVE  CodeInv'
<1>1. <<>> \in Seq(Digits) /\ Len(<<>>) = 0
    BY EmptySeq
<1>2. CASE Activate(t)
    BY <1>2 DEF Activate, CodeInv, CodeTypeOK, ShownIsTyped, WritesWhatWasTyped, IsVisible
<1>3. CASE Deactivate(t)
    <2>1. /\ wlActive' = FALSE /\ hex' = <<>> /\ win' = "none" /\ last' = [key |-> "none"]
          /\ UNCHANGED <<focusTid, typed, ownerTid>>
        BY <1>3 DEF Deactivate
    <2>a. wlActive' \in BOOLEAN /\ program' = program
        BY <1>3, <2>1 DEF Deactivate
    <2>2. CodeTypeOK'
        BY <1>1, <2>1, <2>a DEF CodeInv, CodeTypeOK, CodeInputAssumption
    <2>3. ShownIsTyped'
        BY <2>1 DEF ShownIsTyped, IsVisible
    <2>4. WritesWhatWasTyped'
        BY <2>1 DEF WritesWhatWasTyped
    <2> QED BY <2>2, <2>3, <2>4 DEF CodeInv
<1> QED BY <1>2, <1>3

LEMMA CodeStep == CodeInputAssumption /\ CodeInv /\ [CodeNext]_codeVars => CodeInv'
<1> SUFFICES ASSUME CodeInputAssumption, CodeInv, [CodeNext]_codeVars PROVE CodeInv'
    OBVIOUS
<1>1. CASE UNCHANGED codeVars
    BY <1>1 DEF codeVars, CodeInv, CodeTypeOK, ShownIsTyped, WritesWhatWasTyped, IsVisible
<1>2. ASSUME NEW t \in Threads, FocusThread(t) PROVE CodeInv'
    BY <1>2, FocusThreadInv
<1>3. ASSUME NEW t \in Threads, Activate(t) \/ Deactivate(t) PROVE CodeInv'
    BY <1>3, ServiceInv
<1>4. ASSUME NEW t \in Threads, Open(t) PROVE CodeInv'
    BY <1>4, OpenInv
<1>5. ASSUME NEW t \in Threads, NEW k \in AllKeys, Key(t, k) PROVE CodeInv'
    BY <1>5, KeyInv
<1> QED BY <1>1, <1>2, <1>3, <1>4, <1>5 DEF CodeNext

(* Enter writes the character whose number the thread typed since it opened   *)
(* the input, whichever threads press keys, come and go (code_input.c).        *)
THEOREM WhatIsTypedIsWritten ==
    ASSUME CodeInputAssumption PROVE CodeSpec => []WritesWhatWasTyped
<1>1. CodeInit => CodeInv
    BY InitCode
<1>2. CodeInv /\ [CodeNext]_codeVars => CodeInv'
    BY CodeStep
<1>3. CodeInv => WritesWhatWasTyped
    BY DEF CodeInv
<1> QED BY <1>1, <1>2, <1>3, PTL DEF CodeSpec

------------------------------------------------------------------------------
(* EDIT CONTROLS *)

EditTypeOK ==
    /\ control \in Controls /\ ctlText \in Seq(Widths)
    /\ ctlSel \in [from : 0 .. Len(ctlText), to : 0 .. Len(ctlText)]
    /\ "did" \in DOMAIN result

EditInv == EditTypeOK /\ OnlyWhatWasChecked

------------------------------------------------------------------------------
(* Positions grow with the letters *)

LEMMA WideGrows ==
    ASSUME NEW t, NEW i \in Nat, NEW j \in Nat, i <= j
    PROVE  Wide(t, i) \in Nat /\ Wide(t, j) \in Nat /\ Wide(t, i) <= Wide(t, j)
<1> DEFINE W(n) == {m \in 1 .. n : t[m] = "w"}
<1>1. IsFiniteSet(1 .. j)
    BY FS_Interval
<1>2. W(i) \subseteq W(j) /\ W(j) \subseteq 1 .. j
    OBVIOUS
<1>3. IsFiniteSet(W(j))
    BY <1>1, <1>2, FS_Subset
<1>4. IsFiniteSet(W(i)) /\ Cardinality(W(i)) <= Cardinality(W(j))
    BY <1>2, <1>3, FS_Subset
<1>5. Cardinality(W(i)) \in Nat /\ Cardinality(W(j)) \in Nat
    BY <1>3, <1>4, FS_CardinalityType
<1> QED BY <1>4, <1>5 DEF Wide

LEMMA Product ==
    ASSUME NEW a \in Nat, NEW x \in Nat, NEW y \in Nat, x <= y
    PROVE  a * x \in Nat /\ a * y \in Nat /\ a * x <= a * y
BY SMT

LEMMA PosGrows ==
    ASSUME EditControlAssumption, control \in Controls, NEW t, NEW i \in Nat, NEW j \in Nat, i <= j
    PROVE  Pos(t, i) \in Nat /\ Pos(t, j) \in Nat /\ Pos(t, j) - Pos(t, i) \in Nat /\ Pos(t, j) - Pos(t, i) >= j - i
<1>1. control.bytes \in Nat \ {0}
    BY DEF EditControlAssumption
<1> DEFINE a == control.bytes - 1
<1>2. a \in Nat
    BY <1>1
<1>3. a * Wide(t, i) \in Nat /\ a * Wide(t, j) \in Nat /\ a * Wide(t, i) <= a * Wide(t, j)
    BY <1>2, WideGrows, Product
<1> QED BY <1>2, <1>3 DEF Pos

LEMMA PosStart == ASSUME NEW t, control.bytes \in Nat PROVE Pos(t, 0) = 0
<1>1. {j \in 1 .. 0 : t[j] = "w"} = {}
    OBVIOUS
<1>2. Wide(t, 0) = 0
    BY <1>1, FS_EmptySet DEF Wide
<1> QED BY <1>2 DEF Pos

\* Every position has its letter.
LEMMA EdgeType ==
    ASSUME EditControlAssumption, EditTypeOK, NEW p \in Nat
    PROVE  Edge(p) \in 0 .. Len(ctlText)
<1> DEFINE S == {i \in 0 .. Len(ctlText) : i < Len(ctlText) => Pos(ctlText, i + 1) > p}
<1>0. Len(ctlText) \in Nat /\ control \in Controls /\ control.bytes \in Nat
    BY DEF EditTypeOK, EditControlAssumption
<1>1. Len(ctlText) \in S /\ S \subseteq Nat
    BY <1>0
<1>2. PICK i \in S : \A j \in S : i <= j
    BY <1>1, LeastOf
<1>3. Pos(ctlText, i) <= p
    <2>1. CASE i = 0
        BY <2>1, <1>0, PosStart
    <2>2. CASE i # 0
        <3>1. i - 1 \in 0 .. Len(ctlText) /\ i - 1 \notin S /\ i - 1 < Len(ctlText) /\ (i - 1) + 1 = i
            <4>1. i \in Nat /\ i <= Len(ctlText)
                BY <1>0, <1>2
            <4>2. i - 1 \in 0 .. Len(ctlText) /\ i - 1 < Len(ctlText) /\ (i - 1) + 1 = i /\ ~(i <= i - 1)
                BY <1>0, <2>2, <4>1
            <4> QED BY <1>2, <4>2
        <3>2. ~(Pos(ctlText, i) > p)
            BY <3>1
        <3>3. Pos(ctlText, i) \in Nat
            BY <1>0, <1>2, PosGrows
        <3> QED BY <3>2, <3>3
    <2> QED BY <2>1, <2>2
<1>4. \E k \in 0 .. Len(ctlText) : Pos(ctlText, k) <= p /\ (k < Len(ctlText) => Pos(ctlText, k + 1) > p)
    BY <1>2, <1>3
<1> QED BY <1>4 DEF Edge

\* The position of a letter is that of no other.
LEMMA EdgeOfPos ==
    ASSUME EditControlAssumption, EditTypeOK, NEW i \in 0 .. Len(ctlText)
    PROVE  Edge(Pos(ctlText, i)) = i
<1> DEFINE p == Pos(ctlText, i)
           Is(k) == Pos(ctlText, k) <= p /\ (k < Len(ctlText) => Pos(ctlText, k + 1) > p)
<1>0. Len(ctlText) \in Nat /\ control \in Controls /\ i \in Nat
    BY DEF EditTypeOK
<1>1. Is(i)
    <2>1. p \in Nat
        BY <1>0, PosGrows
    <2>2. i < Len(ctlText) => Pos(ctlText, i + 1) \in Nat /\ Pos(ctlText, i + 1) - p >= 1
        BY <1>0, PosGrows
    <2> QED BY <2>1, <2>2
<1>2. ASSUME NEW k \in 0 .. Len(ctlText), Is(k) PROVE k = i
    <2>1. CASE k < i
        <3>1. k + 1 \in Nat /\ k + 1 <= i /\ k < Len(ctlText)
            BY <2>1, <1>0
        <3>2. Pos(ctlText, k + 1) \in Nat /\ p \in Nat /\ p - Pos(ctlText, k + 1) >= i - (k + 1)
            BY <3>1, <1>0, PosGrows
        <3> QED BY <3>1, <3>2, <1>0, <1>2
    <2>2. CASE k > i
        <3>1. Pos(ctlText, k) \in Nat /\ p \in Nat /\ Pos(ctlText, k) - p >= k - i
            BY <2>2, <1>0, PosGrows
        <3> QED BY <3>1, <2>2, <1>0, <1>2
    <2> QED BY <2>1, <2>2, <1>0
<1> HIDE DEF Is
<1>3. Edge(p) = CHOOSE k \in 0 .. Len(ctlText) : Is(k)
    BY DEF Edge, Is
<1> QED BY <1>1, <1>2, <1>3

------------------------------------------------------------------------------
(* What is read *)

LEMMA ReadsWholeOrNothing ==
    ASSUME EditControlAssumption, EditTypeOK, ReadsExactly,
           NEW s \in [from : 0 .. Len(ctlText), to : 0 .. Len(ctlText)]
    PROVE  ReadSelFromCtl(s) \in {<<>>, SubSeq(ctlText, s.from + 1, s.to)}
<1> DEFINE there == SubSeq(ctlText, s.from + 1, s.to)
<1>0. /\ Len(ctlText) \in Nat /\ control \in Controls /\ s.from \in Nat /\ s.to \in Nat
      /\ s.from <= Len(ctlText) /\ s.to <= Len(ctlText) /\ MaxLen \in Nat /\ ctlText \in Seq(Widths)
      /\ control.bytes \in Nat
    BY DEF EditTypeOK, EditControlAssumption
<1>1. ReadSelViaScintilla(s) \in {<<>>, there} /\ ReadSelViaRichEdit(s) \in {<<>>, there}
    BY DEF ReadSelViaScintilla, ReadSelViaRichEdit
<1>2. CASE Pos(ctlText, Len(ctlText)) = Len(ctlText)
    <2>1. Pos(ctlText, s.from) = s.from /\ Pos(ctlText, s.to) = s.to
        <3> SUFFICES ASSUME NEW i \in 0 .. Len(ctlText) PROVE Pos(ctlText, i) = i
            BY <1>0
        <3>1. Pos(ctlText, 0) = 0
            BY <1>0, PosStart
        <3>2. Pos(ctlText, i) \in Nat /\ Pos(ctlText, i) - Pos(ctlText, 0) >= i - 0
            BY <1>0, PosGrows
        <3>3. Pos(ctlText, Len(ctlText)) - Pos(ctlText, i) >= Len(ctlText) - i
            BY <1>0, PosGrows
        <3> QED BY <1>0, <1>2, <3>1, <3>2, <3>3
    <2>2. ReadSelViaEdit(s) \in {<<>>, there}
        BY <2>1 DEF ReadSelViaEdit
    <2> QED BY <1>1, <2>2 DEF ReadSelFromCtl
<1>3. CASE Pos(ctlText, Len(ctlText)) # Len(ctlText)
    <2>1. control.class = "scintilla" \/ control.ex
        BY <1>3 DEF ReadsExactly
    <2>2. ReadSelViaScintilla(s) = <<>> /\ ReadSelViaRichEdit(s) = <<>> => ReadSelViaEdit(s) = <<>>
        <3> SUFFICES ASSUME ReadSelViaScintilla(s) = <<>>, ReadSelViaRichEdit(s) = <<>>
                     PROVE  ReadSelViaEdit(s) = <<>>
            OBVIOUS
        <3>1. CASE s.to <= s.from
            <4>1. /\ Pos(ctlText, s.to) \in Nat /\ Pos(ctlText, s.from) \in Nat
                  /\ Pos(ctlText, s.to) <= Pos(ctlText, s.from)
                BY <1>0, <3>1, PosGrows
            <4>2. SubSeq(ctlText, Pos(ctlText, s.from) + 1, Pos(ctlText, s.to)) = <<>>
                BY <4>1, <1>0, SubSeqEmpty
            <4> QED BY <4>2 DEF ReadSelViaEdit
        <3>2. CASE s.to > s.from
            <4>1. /\ Pos(ctlText, s.to) \in Nat /\ Pos(ctlText, s.from) \in Nat
                  /\ Pos(ctlText, s.to) - Pos(ctlText, s.from) >= s.to - s.from
                BY <1>0, <3>2, PosGrows
            <4>2. Len(there) = s.to - s.from
                BY <1>0, <3>2, SubSeqProperties
            <4>3. there # <<>>
                <5> HIDE DEF there
                <5> QED BY <4>2, <1>0, <3>2, EmptySeq
            <4>4. ~(Pos(ctlText, s.to) - Pos(ctlText, s.from) <= MaxLen)
                BY <2>1, <4>1, <4>3, <1>0 DEF ReadSelViaScintilla, ReadSelViaRichEdit
            <4> QED BY <4>4 DEF ReadSelViaEdit
        <3> QED BY <3>1, <3>2, <1>0
    <2> QED BY <1>1, <2>2 DEF ReadSelFromCtl
<1> QED BY <1>2, <1>3

------------------------------------------------------------------------------
(* The steps *)

LEMMA InitEdit == ASSUME EditControlAssumption PROVE EditInit => EditInv
BY DEF EditInit, EditControlAssumption, EditInv, EditTypeOK, OnlyWhatWasChecked

\* What is said of a selection, of a text that is not touched.
LEMMA SelectInv ==
    ASSUME EditControlAssumption, EditInv, NEW word \in Strings, EditCtl_SelectWordBeforeCaret(word)
    PROVE  EditInv'
<1> DEFINE caret == Pos(ctlText, ctlSel.to)
           span == Len(word) * (IF 1 \in Matches(word, caret) THEN 1 ELSE 2)
<1>0. /\ EditTypeOK /\ ctlSel.to \in 0 .. Len(ctlText) /\ Len(ctlText) \in Nat /\ caret \in Nat
      /\ Len(word) \in Nat /\ word \in Seq(Widths) /\ ctlText \in Seq(Widths)
    <2>1. EditTypeOK /\ ctlSel.to \in 0 .. Len(ctlText) /\ Len(ctlText) \in Nat /\ control \in Controls
        BY DEF EditInv, EditTypeOK
    <2>2. caret \in Nat
        BY <2>1, PosGrows
    <2>3. word \in Seq(Widths)
        BY DEF EditControlAssumption
    <2> QED BY <2>1, <2>2, <2>3 DEF EditTypeOK
<1>1. /\ UNCHANGED <<control, ctlText>>
      /\ ctlSel' = IF Matches(word, caret) = {} THEN CtlSetSel(caret, caret)
                ELSE CtlSetSel(caret - span, caret)
      /\ result' = [did |-> "select", word |-> word, was |-> ctlText, caret |-> caret,
                    ok |-> Matches(word, caret) # {}]
    BY DEF EditCtl_SelectWordBeforeCaret, Answered
<1>2. Edge(caret) = ctlSel.to
    BY <1>0, EdgeOfPos
<1>3. /\ ctlSel' \in [from : 0 .. Len(ctlText), to : 0 .. Len(ctlText)] /\ ctlSel'.to = ctlSel.to
      /\ Matches(word, caret) = {} => SubSeq(ctlText, ctlSel'.from + 1, ctlSel'.to) = <<>>
      /\ ReadsExactly /\ Matches(word, caret) # {} => SubSeq(ctlText, ctlSel'.from + 1, ctlSel'.to) = word
    <2>1. CASE Matches(word, caret) = {}
        <3>1. ctlSel' = [from |-> ctlSel.to, to |-> ctlSel.to]
            BY <1>1, <1>2, <2>1 DEF CtlSetSel
        <3>2. SubSeq(ctlText, ctlSel.to + 1, ctlSel.to) = <<>>
            BY <1>0, SubSeqEmpty
        <3> QED BY <1>0, <2>1, <3>1, <3>2
    <2>2. CASE Matches(word, caret) # {}
        <3>1. /\ span \in Nat /\ span <= caret
              /\ ReadSelFromCtl(CtlSetSel(caret - span, caret)) = word
            BY <1>0, <2>2 DEF Matches
        <3> HIDE DEF span, caret
        <3>2. ctlSel' = CtlSetSel(caret - span, caret)
            BY <1>1, <2>2
        <3>3. ctlSel' = [from |-> Edge(caret - span), to |-> ctlSel.to]
            BY <1>2, <3>2 DEF CtlSetSel
        <3>4. caret - span \in Nat
            BY <1>0, <3>1
        <3>5. Edge(caret - span) \in 0 .. Len(ctlText)
            BY <1>0, <3>4, EdgeType
        <3>6. ctlSel' \in [from : 0 .. Len(ctlText), to : 0 .. Len(ctlText)] /\ ctlSel'.to = ctlSel.to
            BY <1>0, <3>3, <3>5
        <3>7. ReadsExactly => word \in {<<>>, SubSeq(ctlText, ctlSel'.from + 1, ctlSel'.to)}
            BY <1>0, <3>1, <3>2, <3>6, ReadsWholeOrNothing
        <3>8. word = <<>> => SubSeq(ctlText, ctlSel'.from + 1, ctlSel'.to) = <<>>
            <4> SUFFICES ASSUME word = <<>>
                         PROVE  SubSeq(ctlText, ctlSel'.from + 1, ctlSel'.to) = <<>>
                OBVIOUS
            <4>1. span = 0
                BY EmptySeq DEF span
            <4>2. ctlSel'.from = ctlSel.to /\ ctlSel'.to = ctlSel.to
                BY <1>0, <1>2, <3>3, <4>1
            <4> QED BY <1>0, <4>2, SubSeqEmpty
        <3> QED BY <2>2, <3>6, <3>7, <3>8
    <2> QED BY <2>1, <2>2
<1>4. EditTypeOK'
    BY <1>1, <1>3 DEF EditInv, EditTypeOK
<1>5. Pos(ctlText, ctlSel.to)' = caret
    BY <1>1, <1>3 DEF Pos, Wide
<1>6. /\ CtlSelected' = SubSeq(ctlText, ctlSel'.from + 1, ctlSel'.to) /\ ReadsExactly' = ReadsExactly
    BY <1>1 DEF CtlSelected, ReadsExactly, Pos, Wide
<1> HIDE DEF caret, span
<1>7. OnlyWhatWasChecked'
    BY <1>1, <1>3, <1>5, <1>6 DEF OnlyWhatWasChecked
<1> QED BY <1>4, <1>7 DEF EditInv

LEMMA ReadInv ==
    ASSUME EditControlAssumption, EditInv, EditCtl_ReadSelection
    PROVE  EditInv'
<1>1. /\ UNCHANGED <<control, ctlText, ctlSel>>
      /\ result'.did = "read" /\ result'.word = ReadSelFromCtl(ctlSel) /\ "did" \in DOMAIN result'
    BY DEF EditCtl_ReadSelection, Answered
<1>2. EditTypeOK'
    BY <1>1 DEF EditInv, EditTypeOK
<1>3. ReadsExactly => ReadSelFromCtl(ctlSel) \in {<<>>, CtlSelected}
    BY ReadsWholeOrNothing DEF EditInv, EditTypeOK, CtlSelected
<1>4. ReadsExactly' = ReadsExactly /\ CtlSelected' = CtlSelected
    BY <1>1 DEF ReadsExactly, CtlSelected, Pos, Wide
<1> QED BY <1>1, <1>2, <1>3, <1>4 DEF EditInv, OnlyWhatWasChecked

\* The user's and the collapsed selection: nothing was asked.
LEMMA QuietInv ==
    ASSUME EditInv, EditCtl_CollapseSelectionToEnd \/ UserSelects
    PROVE  EditInv'
<1>1. UNCHANGED <<control, ctlText>> /\ result' = [result EXCEPT !.did = "nothing"]
    BY DEF EditCtl_CollapseSelectionToEnd, UserSelects
<1>2. ctlSel' \in [from : 0 .. Len(ctlText), to : 0 .. Len(ctlText)]
    <2>1. CASE EditCtl_CollapseSelectionToEnd
        BY <2>1 DEF EditCtl_CollapseSelectionToEnd, EditInv, EditTypeOK
    <2>2. CASE UserSelects
        BY <2>2 DEF UserSelects
    <2> QED BY <2>1, <2>2
<1>3. result'.did \notin {"select", "read", "replace"}
    BY <1>1
<1> QED BY <1>1, <1>2, <1>3 DEF EditInv, EditTypeOK, OnlyWhatWasChecked

\* Text that was taken moves the caret, so a failure is one that left all as it was.
LEMMA ReplaceInv ==
    ASSUME EditControlAssumption, EditInv, NEW put \in Strings, EditCtl_ReplaceSelection(put)
    PROVE  EditInv'
<1>0. /\ EditTypeOK /\ control \in Controls /\ ctlText \in Seq(Widths) /\ Len(ctlText) \in Nat
      /\ ctlSel.from \in 0 .. Len(ctlText) /\ ctlSel.to \in 0 .. Len(ctlText)
      /\ put \in Seq(Widths) /\ put # <<>>
    BY DEF EditInv, EditTypeOK, EditControlAssumption
<1>1. /\ control' = control /\ "did" \in DOMAIN result'
      /\ result'.did = "replace" /\ result'.was = ctlText
      /\ result'.ok = ~EditVerdict_Decide(ReadSelSnap(ctlText, ctlSel), ReadSelSnap(ctlText', ctlSel'), put)
    BY DEF EditCtl_ReplaceSelection, Answered
<1>2. CASE UNCHANGED <<ctlText, ctlSel>>
    BY <1>0, <1>1, <1>2 DEF EditInv, EditTypeOK, OnlyWhatWasChecked
<1>3. ASSUME NEW took \in Took(put),
             ctlText' = (SubSeq(ctlText, 1, ctlSel.from) \o took) \o SubSeq(ctlText, ctlSel.to + 1, Len(ctlText)),
             ctlSel' = [from |-> Len(SubSeq(ctlText, 1, ctlSel.from) \o took),
                     to |-> Len(SubSeq(ctlText, 1, ctlSel.from) \o took)]
      PROVE  EditInv'
    <2> DEFINE kept == SubSeq(ctlText, 1, ctlSel.from)
               head == kept \o took
               rest == SubSeq(ctlText, ctlSel.to + 1, Len(ctlText))
    <2>1. took \in Seq(Widths) /\ Len(took) >= 1
        <3>1. Head(put) \in Widths /\ Len(put) >= 1
            BY <1>0, HeadTailProperties, EmptySeq
        <3>2. took = put \/ took = <<Head(put)>>
            BY DEF Took
        <3>3. <<Head(put)>> \in Seq(Widths) /\ Len(<<Head(put)>>) = 1
            BY <3>1
        <3>4. CASE took = put
            BY <1>0, <3>1, <3>4
        <3>5. CASE took = <<Head(put)>>
            BY <3>3, <3>5
        <3> QED BY <3>2, <3>4, <3>5
    <2>2. kept \in Seq(Widths) /\ Len(kept) = ctlSel.from /\ \A j \in 1 .. ctlSel.from : kept[j] = ctlText[j]
        BY <1>0, SubSeqProperties
    <2>3. rest \in Seq(Widths)
        <3>1. \A j \in ctlSel.to + 1 .. Len(ctlText) : ctlText[j] \in Widths
            BY <1>0
        <3> QED BY <1>0, <3>1, SubSeqProperties
    <2> HIDE DEF kept, rest
    <2>4. /\ head \in Seq(Widths) /\ Len(head) = ctlSel.from + Len(took)
          /\ \A j \in 1 .. ctlSel.from : head[j] = ctlText[j]
        <3>1. head \in Seq(Widths) /\ Len(head) = Len(kept) + Len(took)
            BY <2>1, <2>2, ConcatProperties
        <3>2. \A j \in 1 .. Len(kept) + Len(took) :
                 head[j] = IF j <= Len(kept) THEN kept[j] ELSE took[j - Len(kept)]
            BY <2>1, <2>2, ConcatProperties
        <3> QED BY <1>0, <2>1, <2>2, <3>1, <3>2
    <2>5. /\ ctlText' = head \o rest /\ ctlSel' = [from |-> Len(head), to |-> Len(head)]
        BY <1>3 DEF kept, rest
    <2> HIDE DEF head
    <2>6. /\ ctlText' \in Seq(Widths) /\ Len(head) <= Len(ctlText') /\ Len(head) \in Nat
          /\ \A j \in 1 .. ctlSel.from : ctlText'[j] = ctlText[j]
        <3>1. head \o rest \in Seq(Widths) /\ Len(head \o rest) = Len(head) + Len(rest)
            BY <2>3, <2>4, ConcatProperties
        <3>2. Len(head) \in Nat /\ Len(rest) \in Nat
            BY <2>3, <2>4, LenProperties
        <3>3. \A j \in 1 .. Len(head) + Len(rest) :
                 (head \o rest)[j] = IF j <= Len(head) THEN head[j] ELSE rest[j - Len(head)]
            BY <2>3, <2>4, ConcatProperties
        <3>4. \A j \in 1 .. ctlSel.from : j \in 1 .. Len(head) + Len(rest) /\ j <= Len(head)
            BY <1>0, <2>1, <2>4, <3>2
        <3>5. \A j \in 1 .. ctlSel.from : (head \o rest)[j] = ctlText[j]
            BY <2>4, <3>3, <3>4
        <3>6. \A j \in 1 .. ctlSel.from : ctlText'[j] = ctlText[j]
            BY <2>5, <3>5
        <3>7. ctlText' \in Seq(Widths) /\ Len(ctlText') = Len(head) + Len(rest)
            BY <2>5, <3>1
        <3> QED BY <3>2, <3>6, <3>7
    <2>7. EditTypeOK'
        BY <1>0, <1>1, <2>5, <2>6 DEF EditTypeOK
    <2>8. Wide(ctlText', ctlSel.from) = Wide(ctlText, ctlSel.from)
        <3>1. {j \in 1 .. ctlSel.from : ctlText'[j] = "w"} = {j \in 1 .. ctlSel.from : ctlText[j] = "w"}
            BY <2>6
        <3> QED BY <3>1 DEF Wide
    <2>9. Pos(ctlText', ctlSel.from) = Pos(ctlText, ctlSel.from)
        BY <2>8 DEF Pos
    <2>10. Pos(ctlText', Len(head)) - Pos(ctlText', ctlSel.from) >= 1
           /\ Pos(ctlText', Len(head)) \in Nat /\ Pos(ctlText', ctlSel.from) \in Nat
        <3>1. ctlSel.from \in Nat /\ ctlSel.from <= Len(head) /\ Len(head) - ctlSel.from >= 1
            BY <1>0, <2>1, <2>4
        <3> QED BY <1>0, <2>6, <3>1, PosGrows
    <2>11. Pos(ctlText', Len(head)) # Pos(ctlText, ctlSel.from)
        BY <2>9, <2>10
    <2>12. ~EditVerdict_Decide(ReadSelSnap(ctlText, ctlSel), ReadSelSnap(ctlText', ctlSel'), put)
        BY <2>5, <2>11 DEF EditVerdict_Decide, ReadSelSnap
    <2>13. OnlyWhatWasChecked'
        BY <1>1, <2>12 DEF OnlyWhatWasChecked
    <2> QED BY <2>7, <2>13 DEF EditInv
<1>4. \/ UNCHANGED <<ctlText, ctlSel>>
      \/ \E took \in Took(put) :
            /\ ctlText' = (SubSeq(ctlText, 1, ctlSel.from) \o took) \o SubSeq(ctlText, ctlSel.to + 1, Len(ctlText))
            /\ ctlSel' = [from |-> Len(SubSeq(ctlText, 1, ctlSel.from) \o took),
                       to |-> Len(SubSeq(ctlText, 1, ctlSel.from) \o took)]
    BY DEF EditCtl_ReplaceSelection
<1> QED BY <1>2, <1>3, <1>4

LEMMA EditStep == ASSUME EditControlAssumption PROVE EditInv /\ [EditNext]_editVars => EditInv'
<1> SUFFICES ASSUME EditInv, [EditNext]_editVars PROVE EditInv'
    OBVIOUS
<1>1. CASE UNCHANGED editVars
    BY <1>1 DEF editVars, EditInv, EditTypeOK, OnlyWhatWasChecked, ReadsExactly, CtlSelected, Pos, Wide
<1>2. CASE EditCtl_ReadSelection
    BY <1>2, ReadInv
<1>3. CASE EditCtl_CollapseSelectionToEnd \/ UserSelects
    BY <1>3, QuietInv
<1>4. ASSUME NEW word \in Strings, EditCtl_SelectWordBeforeCaret(word) PROVE EditInv'
    BY <1>4, SelectInv
<1>5. ASSUME NEW word \in Strings, EditCtl_ReplaceSelection(word) PROVE EditInv'
    BY <1>5, ReplaceInv
<1> QED BY <1>1, <1>2, <1>3, <1>4, <1>5 DEF EditNext

(* For any controls, texts and words: a word that is said to be selected is   *)
(* the one before the caret, in a control that copies its selection itself or *)
(* whose positions count the letters of its text; when none is said to be,    *)
(* nothing is selected and the caret stays; and a replacement that is called  *)
(* a failure left the text as it was (edit_session.c).                        *)
THEOREM OnlyTheCheckedWord ==
    ASSUME EditControlAssumption PROVE EditSpec => []OnlyWhatWasChecked
<1>1. EditInit => EditInv
    BY InitEdit
<1>2. EditInv /\ [EditNext]_editVars => EditInv'
    BY EditStep
<1>3. EditInv => OnlyWhatWasChecked
    BY DEF EditInv
<1> QED BY <1>1, <1>2, <1>3, PTL DEF EditSpec

------------------------------------------------------------------------------
(* HANJA CONVERSION *)

Cands == Seq(Seq(Chars)) \ {<<>>}

TextsOK ==
    /\ text \in [Docs -> Seq(Chars)] /\ sel \in [Docs -> [from : Nat, to : Nat]]
    /\ \A d \in Docs : sel[d].from <= sel[d].to /\ sel[d].to <= Len(text[d])

ChoiceOK(c) ==
    c \in [pic : Docs \cup {NoDoc}, hwnd : Docs \cup {NoDoc}, word : Seq(Chars), fromSelection : BOOLEAN]

CycleOK(y) ==
    y.active => /\ {"cands", "idx", "hwnd", "applied"} \subseteq DOMAIN y
                /\ y.cands \in Cands /\ y.idx \in Nat
                /\ Len(y.applied) \in Nat /\ y.hwnd \in Docs \cup {NoDoc}

HanjaTypeOK ==
    /\ kind \in [Docs -> Kinds] /\ focus \in Docs /\ TextsOK
    /\ held \in Seq(Keys) /\ inline \in BOOLEAN
    /\ list.by # "nobody" => list.cands \in Cands /\ list.len \in Nat
    /\ ChoiceOK(cand)
    /\ CycleOK(cycle)

\* A composition of ours is right before the caret.
InlineAtCaret ==
    inline => /\ Len(held) = 1 /\ sel[focus].from = sel[focus].to
              /\ EndsWith(Before(focus), held)

\* The original is where the choice will look for it.
Stands ==
    IF list.fromSelection \/ list.len = 0 THEN Selected(focus) = list.original
    ELSE /\ sel[focus].from = sel[focus].to
         /\ list.len = Len(list.original) /\ EndsWith(Before(focus), list.original)

\* Our own list belongs to the focused document, and the choice will go by what was kept.
OwnListFits ==
    list.by = "own" =>
        /\ list.doc = focus /\ cand.pic = focus /\ cand.hwnd = FocusEditWindow
        /\ cand.fromSelection = list.fromSelection
        /\ list.fromSelection \/ list.len # 0 => list.original = cand.word
        /\ kind[focus] \in Reporting => Stands

HanjaInv == HanjaTypeOK /\ InlineAtCaret /\ OwnListFits

------------------------------------------------------------------------------
(* Texts *)

LEMMA PutKeeps ==
    ASSUME TextsOK, NEW d \in Docs, NEW from \in Nat, NEW to \in Nat, NEW str \in Seq(Chars),
           from <= Len(text[d]), to <= Len(text[d]), Put(d, from, to, str)
    PROVE  TextsOK' /\ \A e \in Docs : e # d => text'[e] = text[e] /\ sel'[e] = sel[e]
<1> DEFINE t == text[d]
           head == SubSeq(t, 1, from)
           tail == SubSeq(t, to + 1, Len(t))
           all == (head \o str) \o tail
<1>0. t \in Seq(Chars) /\ Len(t) \in Nat /\ \A i \in 1 .. Len(t) : t[i] \in Chars
    BY DEF TextsOK
<1>1. head \in Seq(Chars) /\ Len(head) = from
    BY <1>0, SubSeqProperties
<1>2. tail \in Seq(Chars)
    BY <1>0, SubSeqProperties
<1>3. text' = [text EXCEPT ![d] = all] /\ sel' = [sel EXCEPT ![d] = Caret(from + Len(str))]
    BY DEF Put
<1> HIDE DEF head, tail
<1>4. all \in Seq(Chars) /\ Len(all) = from + Len(str) + Len(tail) /\ Len(tail) \in Nat /\ Len(str) \in Nat
    <2>1. head \o str \in Seq(Chars) /\ Len(head \o str) = from + Len(str)
        BY <1>1, ConcatProperties
    <2> QED BY <1>2, <2>1, ConcatProperties
<1> HIDE DEF all
<1>5. text' \in [Docs -> Seq(Chars)] /\ text'[d] = all /\ \A e \in Docs : e # d => text'[e] = text[e]
    BY <1>3, <1>4 DEF TextsOK
<1>6. /\ sel' \in [Docs -> [from : Nat, to : Nat]]
      /\ sel'[d].from = from + Len(str) /\ sel'[d].to = from + Len(str)
      /\ \A e \in Docs : e # d => sel'[e] = sel[e]
    <2>1. Caret(from + Len(str)) \in [from : Nat, to : Nat]
        BY <1>4 DEF Caret
    <2> QED BY <1>3, <1>4, <2>1 DEF TextsOK, Caret
<1>7. \A e \in Docs : sel'[e].from <= sel'[e].to /\ sel'[e].to <= Len(text'[e])
    <2> SUFFICES ASSUME NEW e \in Docs
                 PROVE  sel'[e].from <= sel'[e].to /\ sel'[e].to <= Len(text'[e])
        OBVIOUS
    <2>1. CASE e = d
        BY <2>1, <1>4, <1>5, <1>6
    <2>2. CASE e # d
        BY <2>2, <1>5, <1>6 DEF TextsOK
    <2> QED BY <2>1, <2>2
<1> QED BY <1>5, <1>6, <1>7 DEF TextsOK

\* What is put in place of a word replaces it.
LEMMA PutReplaces ==
    ASSUME TextsOK, NEW d \in Docs, NEW from \in Nat, NEW to \in Nat, NEW str,
           from <= to, to <= Len(text[d]), Put(d, from, to, str)
    PROVE  ReplacedIn(d, SubSeq(text[d], from + 1, to), str)
<1> DEFINE word == SubSeq(text[d], from + 1, to)
<1>0. text[d] \in Seq(Chars) /\ Len(text[d]) \in Nat /\ \A i \in 1 .. Len(text[d]) : text[d][i] \in Chars
    BY DEF TextsOK
<1>1. Len(word) = to - from
    BY <1>0, SubSeqProperties
<1>2. text'[d] = SubSeq(text[d], 1, from) \o str \o SubSeq(text[d], to + 1, Len(text[d]))
    BY DEF Put, TextsOK
<1> HIDE DEF word
<1>3. from \in 0 .. Len(text[d]) - Len(word) /\ from + Len(word) = to
    BY <1>0, <1>1
<1> QED BY <1>2, <1>3 DEF ReplacedIn, word

\* The word before a place, in the text.
LEMMA EndsInText ==
    ASSUME NEW s \in Seq(Chars), NEW n \in 0 .. Len(s), NEW word \in Seq(Chars),
           EndsWith(SubSeq(s, 1, n), word)
    PROVE  Len(word) <= n /\ SubSeq(s, (n - Len(word)) + 1, n) = word
<1> DEFINE k == Len(word)
           b == SubSeq(s, 1, n)
           w == SubSeq(s, (n - k) + 1, n)
<1>0. n \in Nat /\ n <= Len(s) /\ Len(s) \in Nat /\ k \in Nat /\ \A i \in 1 .. Len(s) : s[i] \in Chars
    OBVIOUS
<1>1. b \in Seq(Chars) /\ Len(b) = n /\ \A i \in 1 .. n : b[i] = s[i]
    BY <1>0, SubSeqProperties
<1> HIDE DEF b
<1>2. k <= n /\ SubSeq(b, n - k + 1, n) = word
    BY <1>1 DEF EndsWith, b
<1>3. w \in Seq(Chars) /\ Len(w) = k /\ \A i \in 1 .. k : w[i] = s[n - k + i]
    <2>1. \A i \in (n - k) + 1 .. n : s[i] \in Chars
        BY <1>0, <1>2
    <2> QED BY <1>0, <1>2, <2>1, SubSeqProperties
<1>4. \A i \in 1 .. k : word[i] = b[n - k + i]
    <2>1. \A i \in (n - k) + 1 .. n : b[i] \in Chars
        BY <1>0, <1>1, <1>2
    <2>2. n \in Int /\ (n - k) + 1 \in Int /\ n - ((n - k) + 1) + 1 = k
        BY <1>0
    <2>3. \A i \in 1 .. k : SubSeq(b, (n - k) + 1, n)[i] = b[((n - k) + 1) + i - 1]
        BY <2>1, <2>2, SubSeqProperties
    <2>4. \A i \in 1 .. k : ((n - k) + 1) + i - 1 = n - k + i
        BY <1>0
    <2> QED BY <1>2, <2>3, <2>4
<1> HIDE DEF w
<1>5. \A i \in 1 .. k : word[i] = w[i]
    <2> SUFFICES ASSUME NEW i \in 1 .. k PROVE word[i] = w[i]
        OBVIOUS
    <2>1. n - k + i \in 1 .. n
        BY <1>0, <1>2
    <2> QED BY <1>1, <1>3, <1>4, <2>1
<1> QED BY <1>0, <1>2, <1>3, <1>5, SeqEqual DEF w

\* Every text that ends with the word that was typed.
LEMMA EndsWithTyped ==
    ASSUME NEW s \in Seq(Chars), NEW n \in 0 .. Len(s), NEW str \in Seq(Chars), NEW tail \in Seq(Chars)
    PROVE  EndsWith(SubSeq((SubSeq(s, 1, n) \o str) \o tail, 1, n + Len(str)), str)
<1> DEFINE head == SubSeq(s, 1, n)
           placed == head \o str
           all == placed \o tail
           k == Len(str)
           b == SubSeq(all, 1, n + k)
<1>0. n \in Nat /\ k \in Nat /\ n <= Len(s) /\ Len(tail) \in Nat /\ \A i \in 1 .. Len(s) : s[i] \in Chars
    OBVIOUS
<1>1. head \in Seq(Chars) /\ Len(head) = n
    BY <1>0, SubSeqProperties
<1> HIDE DEF head
<1>2. /\ placed \in Seq(Chars) /\ Len(placed) = n + k
      /\ \A i \in 1 .. n + k : placed[i] = IF i <= n THEN head[i] ELSE str[i - n]
    BY <1>1, ConcatProperties
<1> HIDE DEF placed
<1>3. /\ all \in Seq(Chars) /\ Len(all) = n + k + Len(tail)
      /\ \A i \in 1 .. n + k + Len(tail) : all[i] = IF i <= n + k THEN placed[i] ELSE tail[i - (n + k)]
    <2>1. all \in Seq(Chars) /\ Len(all) = Len(placed) + Len(tail)
        BY <1>2, ConcatProperties
    <2>2. \A i \in 1 .. Len(placed) + Len(tail) :
              all[i] = IF i <= Len(placed) THEN placed[i] ELSE tail[i - Len(placed)]
        BY <1>2, ConcatProperties
    <2> QED BY <1>2, <2>1, <2>2
<1> HIDE DEF all
<1>4. b \in Seq(Chars) /\ Len(b) = n + k /\ \A i \in 1 .. n + k : b[i] = all[i]
    <2>1. \A i \in 1 .. n + k : all[i] \in Chars
        BY <1>0, <1>3
    <2>2. n + k \in Int /\ (1 <= n + k => (n + k) - 1 + 1 = n + k) /\ (~(1 <= n + k) => n + k = 0)
        BY <1>0
    <2> QED BY <1>0, <2>1, <2>2, SubSeqProperties
<1> HIDE DEF b
<1>5. \A i \in 1 .. k : b[n + i] = str[i]
    <2> SUFFICES ASSUME NEW i \in 1 .. k PROVE b[n + i] = str[i]
        OBVIOUS
    <2>1. n + i \in 1 .. n + k /\ n + i \in 1 .. n + k + Len(tail) /\ ~(n + i <= n) /\ (n + i) - n = i
        BY <1>0
    <2> QED BY <1>2, <1>3, <1>4, <2>1
<1> DEFINE w == SubSeq(b, Len(b) - Len(str) + 1, Len(b))
<1>6. w \in Seq(Chars) /\ Len(w) = k /\ \A i \in 1 .. k : w[i] = b[n + i]
    <2>1. Len(b) - Len(str) + 1 = n + 1 /\ Len(b) = n + k
        BY <1>0, <1>4
    <2>2. \A i \in n + 1 .. n + k : b[i] \in Chars
        BY <1>0, <1>4
    <2>3. w = SubSeq(b, n + 1, n + k)
        BY <2>1
    <2> HIDE DEF w
    <2>4. /\ SubSeq(b, n + 1, n + k) \in Seq(Chars) /\ Len(SubSeq(b, n + 1, n + k)) = k
          /\ \A i \in 1 .. k : SubSeq(b, n + 1, n + k)[i] = b[n + 1 + i - 1]
        <3>1. n + 1 \in Int /\ n + k \in Int /\ (n + k) - (n + 1) + 1 = k
              /\ (n + 1 <= n + k \/ k = 0)
            BY <1>0
        <3>2. /\ SubSeq(b, n + 1, n + k) \in Seq(Chars)
              /\ Len(SubSeq(b, n + 1, n + k)) = IF n + 1 <= n + k THEN (n + k) - (n + 1) + 1 ELSE 0
              /\ \A i \in 1 .. (n + k) - (n + 1) + 1 : SubSeq(b, n + 1, n + k)[i] = b[n + 1 + i - 1]
            BY <2>2, <3>1, SubSeqProperties
        <3>3. k = 0 => ~(n + 1 <= n + k)
            BY <1>0
        <3> HIDE DEF k
        <3> QED BY <3>1, <3>2, <3>3
    <2>5. \A i \in 1 .. k : n + 1 + i - 1 = n + i
        BY <1>0
    <2> QED BY <2>3, <2>4, <2>5
<1> HIDE DEF w
<1>7. w = str
    <2>1. \A i \in 1 .. Len(w) : w[i] = str[i]
        BY <1>5, <1>6
    <2> QED BY <1>6, <2>1, SeqEqual
<1>8. EndsWith(b, str)
    BY <1>0, <1>4, <1>7 DEF EndsWith, w
<1> QED BY <1>8 DEF b, all, placed, head

------------------------------------------------------------------------------
(* What is asked for *)

LEMMA BeforeType ==
    ASSUME TextsOK, NEW d \in Docs
    PROVE  Before(d) \in Seq(Chars) /\ Len(Before(d)) = sel[d].from
<1>1. text[d] \in Seq(Chars) /\ sel[d].from \in Nat /\ sel[d].from <= Len(text[d]) /\ Len(text[d]) \in Nat
    BY DEF TextsOK
<1>2. \A i \in 1 .. sel[d].from : text[d][i] \in Chars
    BY <1>1
<1> QED BY <1>1, <1>2, SubSeqProperties DEF Before

\* The longest word is one of them.
LEMMA LongestIsWord ==
    ASSUME HanjaAssumption, TextsOK, NEW d \in Docs, WordsBefore(d) # {}
    PROVE  LongestBefore(d) \in WordsBefore(d)
<1> DEFINE n == Len(Before(d))
           S == {n - Len(w) : w \in WordsBefore(d)}
<1>1. n \in Nat
    BY BeforeType
<1>2. \A w \in WordsBefore(d) : Len(w) \in Nat /\ Len(w) <= n
    BY DEF WordsBefore, EndsWith, HanjaAssumption
<1> HIDE DEF n
<1>3. S \subseteq Nat /\ S # {}
    BY <1>1, <1>2
<1>4. PICK x \in S : \A y \in S : x <= y
    BY <1>3, LeastOf
<1>5. PICK w \in WordsBefore(d) : x = n - Len(w)
    BY <1>4
<1>6. \A v \in WordsBefore(d) : Len(v) <= Len(w)
    <2> SUFFICES ASSUME NEW v \in WordsBefore(d) PROVE Len(v) <= Len(w)
        OBVIOUS
    <2>1. n - Len(w) <= n - Len(v)
        BY <1>4, <1>5
    <2> QED BY <2>1, <1>1, <1>2
<1> QED BY <1>5, <1>6 DEF LongestBefore

\* What is asked for is a word, and it is where the choice will look for it.
LEMMA AskedStands ==
    ASSUME HanjaAssumption, HanjaInv, NEW ask \in Asked
    PROVE  /\ ask.word \in Seq(Chars) /\ ask.len \in Nat /\ ask.fromSelection \in BOOLEAN
           /\ ask.fromSelection => ask.word = Selected(focus)
           /\ (~ask.fromSelection /\ ask.len # 0)
                  => /\ sel[focus].from = sel[focus].to /\ ask.len = Len(ask.word)
                     /\ EndsWith(Before(focus), ask.word)
<1> USE DEF HanjaInv, HanjaTypeOK
<1>1. CASE held # <<>>
    <2>1. /\ ask.word = held /\ ~ask.fromSelection /\ ask.fromSelection \in BOOLEAN
          /\ ask.len = IF inline THEN 1 ELSE 0
        <3>1. ask = [word |-> held, fromSelection |-> FALSE, len |-> IF inline THEN 1 ELSE 0]
            BY <1>1 DEF Asked, HanjaTxn_Mode
        <3>2. FALSE \in BOOLEAN /\ TRUE \in BOOLEAN
            OBVIOUS
        <3> QED BY <3>1, <3>2, <1>1
    <2>2. held \in Seq(Chars)
        BY DEF HanjaAssumption
    <2>3. CASE inline
        <3>1. ask.len = 1 /\ Len(held) = 1 /\ sel[focus].from = sel[focus].to
              /\ EndsWith(Before(focus), held)
            BY <2>1, <2>3 DEF InlineAtCaret
        <3> QED BY <2>1, <2>2, <3>1
    <2>4. CASE ~inline
        BY <2>1, <2>2, <2>4
    <2> QED BY <2>3, <2>4
<1>2. CASE held = <<>> /\ Selected(focus) # <<>>
    <2>1. /\ ask.word = Selected(focus) /\ ask.len = 0
          /\ ask.fromSelection /\ ask.fromSelection \in BOOLEAN
        <3>1. ask = [word |-> Selected(focus), len |-> 0, fromSelection |-> TRUE]
            BY <1>2 DEF Asked
        <3>2. FALSE \in BOOLEAN /\ TRUE \in BOOLEAN
            OBVIOUS
        <3> QED BY <3>1, <3>2, <1>2
    <2>2. Selected(focus) \in Seq(Chars)
        <3>1. /\ text[focus] \in Seq(Chars) /\ sel[focus].from \in Nat /\ sel[focus].to \in Nat
              /\ sel[focus].to <= Len(text[focus]) /\ Len(text[focus]) \in Nat
            BY DEF TextsOK
        <3>2. \A i \in sel[focus].from + 1 .. sel[focus].to : text[focus][i] \in Chars
            BY <3>1
        <3> QED BY <3>1, <3>2, SubSeqProperties DEF Selected
    <2> QED BY <2>1, <2>2
<1>3. CASE held = <<>> /\ Selected(focus) = <<>>
    <2>1. WordsBefore(focus) # {} /\ ask.word = LongestBefore(focus)
          /\ ask.len = Len(ask.word) /\ ~ask.fromSelection /\ ask.fromSelection \in BOOLEAN
        <3>1. ask = [word |-> LongestBefore(focus), len |-> Len(LongestBefore(focus)), fromSelection |-> FALSE]
                 /\ WordsBefore(focus) # {}
            BY <1>3 DEF Asked
        <3>2. FALSE \in BOOLEAN /\ TRUE \in BOOLEAN
            OBVIOUS
        <3> QED BY <3>1, <3>2, <1>3
    <2>2. ask.word \in WordsBefore(focus)
        BY <2>1, LongestIsWord
    <2>3. ask.word \in Seq(Chars) /\ ask.word # <<>> /\ EndsWith(Before(focus), ask.word)
        BY <2>2 DEF WordsBefore, HanjaAssumption
    <2>4. Len(ask.word) \in Nat /\ Len(ask.word) # 0
        BY <2>3, EmptySeq
    <2>5. sel[focus].from = sel[focus].to
        <3>1. /\ text[focus] \in Seq(Chars) /\ sel[focus].from \in Nat /\ sel[focus].to \in Nat
              /\ sel[focus].from <= sel[focus].to
              /\ sel[focus].to <= Len(text[focus]) /\ Len(text[focus]) \in Nat
            BY DEF TextsOK
        <3>2. \A i \in sel[focus].from + 1 .. sel[focus].to : text[focus][i] \in Chars
            BY <3>1
        <3>3. Len(Selected(focus)) = IF sel[focus].from + 1 <= sel[focus].to
                                     THEN sel[focus].to - (sel[focus].from + 1) + 1 ELSE 0
            BY <3>1, <3>2, SubSeqProperties DEF Selected
        <3>4. Len(Selected(focus)) = 0
            BY <1>3, EmptySeq
        <3> QED BY <3>1, <3>3, <3>4
    <2> QED BY <2>1, <2>3, <2>4, <2>5
<1> QED BY <1>1, <1>2, <1>3

------------------------------------------------------------------------------
(* What is put into a text *)

LEMMA InsertKeeps ==
    ASSUME TextsOK, NEW d \in Docs, NEW str \in Seq(Chars), Insert(d, str)
    PROVE  TextsOK' /\ \A e \in Docs : e # d => text'[e] = text[e] /\ sel'[e] = sel[e]
<1>1. /\ sel[d].from \in Nat /\ sel[d].to \in Nat
      /\ sel[d].from <= Len(text[d]) /\ sel[d].to <= Len(text[d])
    BY DEF TextsOK
<1> QED BY <1>1, PutKeeps DEF Insert

LEMMA CommitKeeps ==
    ASSUME TextsOK, focus \in Docs, NEW str \in Seq(Chars), CommitText(str)
    PROVE  TextsOK' /\ \A e \in Docs : e # focus => text'[e] = text[e] /\ sel'[e] = sel[e]
<1>1. CASE Untouched
    BY <1>1 DEF Untouched, TextsOK
<1>2. CASE Insert(focus, str)
    BY <1>2, InsertKeeps
<1> QED BY <1>1, <1>2 DEF CommitText

LEMMA RequestKeeps ==
    ASSUME TextsOK, NEW d \in Docs, NEW n \in Nat, NEW str \in Seq(Chars),
           RequestReplaceSessionString(d, n, str)
    PROVE  TextsOK' /\ \A e \in Docs : e # d => text'[e] = text[e] /\ sel'[e] = sel[e]
<1>1. CASE Untouched
    BY <1>1 DEF Untouched, TextsOK
<1>2. CASE ~Untouched
    <2> DEFINE from == IF sel[d].from > n THEN sel[d].from - n ELSE 0
    <2>1. Put(d, from, sel[d].to, str)
        BY <1>2 DEF RequestReplaceSessionString
    <2>2. /\ sel[d].from \in Nat /\ sel[d].to \in Nat /\ Len(text[d]) \in Nat
          /\ sel[d].from <= Len(text[d]) /\ sel[d].to <= Len(text[d])
        BY DEF TextsOK
    <2>3. from \in Nat /\ from <= Len(text[d])
        BY <2>2
    <2> HIDE DEF from
    <2> QED BY <2>1, <2>2, <2>3, PutKeeps
<1> QED BY <1>1, <1>2

\* A word before the caret, as an EDIT window selects it.
LEMMA SelectKeeps ==
    ASSUME TextsOK, NEW d \in Docs, NEW str \in Seq(Chars), NEW word \in Seq(Chars),
           SelectWordBeforeCaret(d, word),
           Put(d, sel[d].from - Len(word), sel[d].from, str)
    PROVE  /\ TextsOK' /\ \A e \in Docs : e # d => text'[e] = text[e] /\ sel'[e] = sel[e]
           /\ ReplacedIn(d, word, str)
<1>1. /\ sel[d].from \in Nat /\ Len(text[d]) \in Nat /\ sel[d].from <= Len(text[d])
      /\ text[d] \in Seq(Chars) /\ Len(word) \in Nat
    BY DEF TextsOK
<1>2. Len(word) <= sel[d].from /\ SubSeq(text[d], (sel[d].from - Len(word)) + 1, sel[d].from) = word
    <2>1. EndsWith(SubSeq(text[d], 1, sel[d].from), word)
        BY DEF SelectWordBeforeCaret, Before
    <2>2. sel[d].from \in 0 .. Len(text[d])
        BY <1>1
    <2> QED BY <1>1, <2>1, <2>2, EndsInText
<1> DEFINE from == sel[d].from - Len(word)
<1>3. from \in Nat /\ from <= sel[d].from /\ from <= Len(text[d])
    BY <1>1, <1>2
<1>4. Put(d, from, sel[d].from, str) /\ SubSeq(text[d], from + 1, sel[d].from) = word
    BY <1>2
<1> HIDE DEF from
<1>5. TextsOK' /\ \A e \in Docs : e # d => text'[e] = text[e] /\ sel'[e] = sel[e]
    BY <1>1, <1>3, <1>4, PutKeeps
<1>6. ReplacedIn(d, SubSeq(text[d], from + 1, sel[d].from), str)
    BY <1>1, <1>3, <1>4, PutReplaces
<1> QED BY <1>4, <1>5, <1>6

LEMMA AppliedKeeps ==
    ASSUME TextsOK, focus \in Docs, NEW c, ChoiceOK(c), NEW str \in Seq(Chars), NEW len \in Nat,
           c.pic \in Docs, Applied(c, str, len)
    PROVE  TextsOK' /\ \A e \in Docs \ {focus, c.pic, c.hwnd} : text'[e] = text[e]
<1>0. c.hwnd # NoDoc => c.hwnd \in Docs
    BY DEF ChoiceOK
<1>1. CASE Untouched
    BY <1>1 DEF Untouched, TextsOK
<1>2. CASE CommitText(str)
    BY <1>2, CommitKeeps
<1>3. CASE c.hwnd # NoDoc /\ Insert(c.hwnd, str)
    BY <1>0, <1>3, InsertKeeps
<1>4. CASE /\ c.hwnd # NoDoc /\ SelectWordBeforeCaret(c.hwnd, c.word)
           /\ Put(c.hwnd, sel[c.hwnd].from - Len(c.word), sel[c.hwnd].from, str)
    <2>1. c.word \in Seq(Chars)
        BY DEF ChoiceOK
    <2> QED BY <1>0, <1>4, <2>1, SelectKeeps
<1>5. CASE RequestReplaceSessionString(c.pic, len, str)
    BY <1>5, RequestKeeps
<1> QED BY <1>1, <1>2, <1>3, <1>4, <1>5 DEF Applied

------------------------------------------------------------------------------
(* The invariant *)

LEMMA CandOf ==
    ASSUME HanjaAssumption, NEW cs \in Cands, NEW i \in 1 .. Len(cs)
    PROVE  cs[i] \in Seq(Chars)
BY DEF Cands

LEMMA Released == ASSUME ChoiceOK(cand) PROVE ChoiceOK([cand EXCEPT !.pic = NoDoc])
BY DEF ChoiceOK

LEMMA NotComposed == ASSUME InlineAtCaret, held = <<>>, inline \in BOOLEAN PROVE ~inline
<1>1. Len(held) # 1
    BY EmptySeq
<1> QED BY <1>1 DEF InlineAtCaret

LEMMA NotHeldEnds ==
    ASSUME HanjaInv, NotHeld
    PROVE  /\ held' \in Seq(Keys) /\ inline' = FALSE
           /\ ~inline => held' = held
           /\ inline => held' = <<>>
<1>1. CASE inline
    <2>1. held # <<>>
        BY <1>1, NotComposed DEF HanjaInv, HanjaTypeOK
    <2>2. HanjaTxn_Mode = "commit_then_replace"
        BY <1>1, <2>1 DEF HanjaTxn_Mode
    <2>3. held' = <<>> /\ inline' = FALSE
        BY <2>2 DEF NotHeld, ResetComposed
    <2> QED BY <1>1, <2>3, EmptySeq
<1>2. CASE ~inline
    <2>1. HanjaTxn_Mode # "commit_then_replace"
        BY <1>2 DEF HanjaTxn_Mode
    <2>2. held' = held /\ inline' = inline
        BY <2>1 DEF NotHeld
    <2> QED BY <1>2, <2>2 DEF HanjaInv, HanjaTypeOK
<1> QED BY <1>1, <1>2

\* A step after which nothing of ours is in the document and no list of ours is open.
LEMMA Ended ==
    ASSUME HanjaTypeOK', inline' = FALSE, list'.by # "own"
    PROVE  HanjaInv'
BY DEF HanjaInv, InlineAtCaret, OwnListFits

LEMMA InitHanja == ASSUME HanjaAssumption PROVE HanjaInit => HanjaInv
<1> SUFFICES ASSUME HanjaInit PROVE HanjaInv
    OBVIOUS
<1>1. <<>> \in Seq(Chars) /\ <<>> \in Seq(Keys) /\ Len(<<>>) = 0
    BY EmptySeq
<1>2. TextsOK
    <2>1. Caret(0) \in [from : Nat, to : Nat] /\ Caret(0).from = 0 /\ Caret(0).to = 0
        BY DEF Caret
    <2> QED BY <1>1, <2>1 DEF HanjaInit, TextsOK
<1>3. ChoiceOK(cand)
    <2>1. FALSE \in BOOLEAN
        OBVIOUS
    <2> QED BY <1>1, <2>1 DEF HanjaInit, NoCand, ChoiceOK
<1>4. list.by = "nobody" /\ ~cycle.active /\ inline = FALSE
    BY DEF HanjaInit, NoList, NoCycle
<1>5. kind \in [Docs -> Kinds] /\ focus \in Docs /\ held \in Seq(Keys)
    BY <1>1 DEF HanjaInit
<1> QED BY <1>2, <1>3, <1>4, <1>5 DEF HanjaInv, HanjaTypeOK, CycleOK, InlineAtCaret, OwnListFits

\* The choice that is kept with a list.
Kept(ask) == [pic |-> focus, hwnd |-> FocusEditWindow, word |-> ask.word,
              fromSelection |-> ask.fromSelection]

LEMMA KeptOK ==
    ASSUME HanjaAssumption, HanjaInv, NEW ask \in Asked
    PROVE  /\ ChoiceOK(Kept(ask)) /\ ChoiceOK([Kept(ask) EXCEPT !.pic = NoDoc])
           /\ Kept(ask).pic = focus /\ Kept(ask).hwnd = FocusEditWindow
           /\ Kept(ask).word = ask.word /\ Kept(ask).fromSelection = ask.fromSelection
           /\ FocusEditWindow \in Docs \cup {NoDoc}
<1>1. ask.word \in Seq(Chars) /\ ask.fromSelection \in BOOLEAN
    BY AskedStands
<1>2. focus \in Docs
    BY DEF HanjaInv, HanjaTypeOK
<1>3. FocusEditWindow \in Docs \cup {NoDoc}
    BY <1>2 DEF FocusEditWindow
<1> QED BY <1>1, <1>2, <1>3 DEF Kept, ChoiceOK

LEMMA FoundCands ==
    ASSUME HanjaAssumption, NEW w, Found(w)
    PROVE  Dict[w] \in Cands /\ Len(Dict[w]) \in Nat /\ 1 \in 1 .. Len(Dict[w]) /\ Dict[w][1] \in Seq(Chars)
<1>1. Dict[w] \in Seq(Seq(Chars)) /\ Dict[w] # <<>>
    BY DEF Found, HanjaAssumption
<1>2. Len(Dict[w]) \in Nat \ {0}
    BY <1>1, EmptySeq
<1> QED BY <1>1, <1>2 DEF Cands

LEMMA OwnWindowInv ==
    ASSUME HanjaAssumption, HanjaInv, NEW ask \in Asked, Found(ask.word), OwnWindow(ask, Kept(ask)),
           UNCHANGED <<setting, focus, acts>>
    PROVE  HanjaInv'
<1>1. /\ list' = Shown("own", ask) /\ cand' = Kept(ask) /\ UNCHANGED <<text, sel, cycle, kind, focus>>
    BY DEF OwnWindow, Untouched, setting
<1>2. held' \in Seq(Keys) /\ inline' = FALSE
    BY NotHeldEnds DEF OwnWindow
<1>3. /\ list'.by = "own" /\ list'.doc = focus /\ list'.cands = Dict[ask.word] /\ list'.len = ask.len
      /\ list'.fromSelection = ask.fromSelection
      /\ list'.original = IF ask.len = 0 /\ ~ask.fromSelection THEN Selected(focus) ELSE ask.word
    BY <1>1 DEF Shown
<1>4. HanjaTypeOK'
    <2>1. TextsOK'
        BY <1>1 DEF HanjaInv, HanjaTypeOK, TextsOK
    <2>2. ChoiceOK(cand)'
        <3>1. ChoiceOK(cand')
            BY <1>1, KeptOK
        <3> QED BY <3>1 DEF ChoiceOK
    <2>3. list'.cands \in Cands /\ list'.len \in Nat
        BY <1>3, AskedStands, FoundCands
    <2> QED BY <1>1, <1>2, <2>1, <2>2, <2>3 DEF HanjaInv, HanjaTypeOK, Cands
<1>5. FocusEditWindow' = FocusEditWindow /\ Selected(focus)' = Selected(focus)
      /\ Before(focus)' = Before(focus)
    BY <1>1 DEF FocusEditWindow, Selected, Before
<1>6. /\ ask.fromSelection \in BOOLEAN /\ ask.len \in Nat
      /\ ask.fromSelection => ask.word = Selected(focus)
      /\ (~ask.fromSelection /\ ask.len # 0)
              => /\ sel[focus].from = sel[focus].to /\ ask.len = Len(ask.word)
                 /\ EndsWith(Before(focus), ask.word)
    BY AskedStands
<1>7. Stands'
    <2>1. CASE ask.fromSelection
        BY <1>1, <1>3, <1>5, <1>6, <2>1 DEF Stands
    <2>2. CASE ~ask.fromSelection /\ ask.len = 0
        BY <1>1, <1>3, <1>5, <1>6, <2>2 DEF Stands
    <2>3. CASE ~ask.fromSelection /\ ask.len # 0
        <3>1. EndsWith(Before(focus)', list'.original)
            BY <1>3, <1>5, <1>6, <2>3
        <3>2. EndsWith(Before(focus), list.original)'
            BY <3>1 DEF EndsWith
        <3> QED BY <1>1, <1>3, <1>6, <2>3, <3>2 DEF Stands
    <2> QED BY <1>6, <2>1, <2>2, <2>3
<1>8. OwnListFits'
    <2>1. cand'.pic = focus /\ cand'.hwnd = FocusEditWindow
          /\ cand'.word = ask.word /\ cand'.fromSelection = ask.fromSelection
        BY <1>1, KeptOK
    <2>2. list'.fromSelection \/ list'.len # 0 => list'.original = cand'.word
        BY <1>3, <1>6, <2>1
    <2> QED BY <1>1, <1>3, <1>5, <1>7, <2>1, <2>2 DEF OwnListFits
<1>9. InlineAtCaret'
    BY <1>2 DEF InlineAtCaret
<1> QED BY <1>4, <1>8, <1>9 DEF HanjaInv

LEMMA HelperWindowInv ==
    ASSUME HanjaAssumption, HanjaInv, NEW ask \in Asked, Found(ask.word), HelperWindow(ask, Kept(ask)),
           UNCHANGED <<setting, focus, acts>>
    PROVE  HanjaInv'
<1>1. /\ list' = Shown("helper", ask) /\ cand' = [Kept(ask) EXCEPT !.pic = NoDoc]
      /\ UNCHANGED <<text, sel, cycle, kind, focus>>
    BY DEF HelperWindow, Untouched, setting
<1>2. held' \in Seq(Keys) /\ inline' = FALSE
    BY NotHeldEnds DEF HelperWindow
<1>3. list'.by = "helper" /\ list'.cands = Dict[ask.word] /\ list'.len = ask.len
    BY <1>1 DEF Shown
<1>4. HanjaTypeOK'
    <2>1. TextsOK'
        BY <1>1 DEF HanjaInv, HanjaTypeOK, TextsOK
    <2>2. ChoiceOK(cand)'
        <3>1. ChoiceOK(cand')
            BY <1>1, KeptOK
        <3> QED BY <3>1 DEF ChoiceOK
    <2>3. list'.cands \in Cands /\ list'.len \in Nat
        BY <1>3, AskedStands, FoundCands
    <2> QED BY <1>1, <1>2, <2>1, <2>2, <2>3 DEF HanjaInv, HanjaTypeOK, Cands
<1> QED BY <1>2, <1>3, <1>4, Ended

LEMMA NothingShownInv ==
    ASSUME HanjaAssumption, HanjaInv, NEW ask \in Asked, NothingShown(Kept(ask)),
           UNCHANGED <<setting, focus, acts>>
    PROVE  HanjaInv'
<1>1. /\ list' = NoList /\ cand' = [Kept(ask) EXCEPT !.pic = NoDoc]
      /\ UNCHANGED <<text, sel, cycle, kind, focus>>
    BY DEF NothingShown, LetReference, Untouched, setting
<1>2. held' \in Seq(Keys) /\ inline' = FALSE
    BY NotHeldEnds DEF NothingShown
<1>3. list'.by = "nobody"
    BY <1>1 DEF NoList
<1>4. HanjaTypeOK'
    <2>1. TextsOK'
        BY <1>1 DEF HanjaInv, HanjaTypeOK, TextsOK
    <2>2. ChoiceOK(cand)'
        <3>1. ChoiceOK(cand')
            BY <1>1, KeptOK
        <3> QED BY <3>1 DEF ChoiceOK
    <2> QED BY <1>1, <1>2, <1>3, <2>1, <2>2 DEF HanjaInv, HanjaTypeOK, Cands
<1> QED BY <1>2, <1>3, <1>4, Ended

\* A choice that is made: what was composed is gone, and so is the list.
LEMMA ChoiceInv ==
    ASSUME HanjaAssumption, HanjaInv, NEW c, ChoiceOK(c), c.pic \in Docs, NEW str \in Seq(Chars),
           NEW len \in Nat, ApplyHanjaChoice(c, str, len), list' = NoList, ChoiceOK(cand'),
           UNCHANGED <<setting, focus>>, CycleOK(cycle')
    PROVE  HanjaInv'
<1>1. TextsOK'
    BY AppliedKeeps DEF ApplyHanjaChoice, HanjaInv, HanjaTypeOK
<1>2. held' = <<>> /\ inline' = FALSE /\ list'.by = "nobody"
    BY DEF ApplyHanjaChoice, ResetComposed, NoList
<1>3. held' \in Seq(Keys)
    BY <1>2, EmptySeq
<1>4. HanjaTypeOK'
    <2>1. ChoiceOK(cand)' /\ CycleOK(cycle)'
        BY DEF ChoiceOK, CycleOK, Cands
    <2>2. kind' \in [Docs -> Kinds] /\ focus' \in Docs
        BY DEF setting, HanjaInv, HanjaTypeOK
    <2> QED BY <1>1, <1>2, <1>3, <2>1, <2>2 DEF HanjaTypeOK, Cands
<1> QED BY <1>2, <1>4, Ended

LEMMA StartCycleInv ==
    ASSUME HanjaAssumption, HanjaInv, NEW ask \in Asked, Found(ask.word), StartCycle(ask, Kept(ask)),
           UNCHANGED <<setting, focus, acts>>
    PROVE  HanjaInv'
<1>1. /\ ApplyHanjaChoice(Kept(ask), Dict[ask.word][1], ask.len) /\ list' = NoList
      /\ cand' = [Kept(ask) EXCEPT !.pic = NoDoc]
      /\ cycle' = [active |-> TRUE, cands |-> Dict[ask.word], idx |-> 1, hwnd |-> Kept(ask).hwnd,
                   applied |-> Dict[ask.word][1]]
    BY DEF StartCycle
<1>2. ChoiceOK(Kept(ask)) /\ ChoiceOK(cand') /\ Kept(ask).pic \in Docs /\ Kept(ask).hwnd \in Docs \cup {NoDoc}
    BY <1>1, KeptOK DEF HanjaInv, HanjaTypeOK
<1>3. ask.len \in Nat
    BY AskedStands
<1>4. Dict[ask.word] \in Cands /\ Dict[ask.word][1] \in Seq(Chars)
    BY FoundCands
<1>5. CycleOK(cycle')
    BY <1>1, <1>2, <1>4 DEF CycleOK
<1> QED BY <1>1, <1>2, <1>3, <1>4, <1>5, ChoiceInv

LEMMA NextOfCycleInv ==
    ASSUME HanjaAssumption, HanjaInv, cycle.active, NextOfCycle, UNCHANGED <<setting, focus, acts>>
    PROVE  HanjaInv'
<1> DEFINE i == (cycle.idx % Len(cycle.cands)) + 1
           c == [cand EXCEPT !.pic = focus, !.hwnd = cycle.hwnd, !.fromSelection = FALSE]
<1>1. /\ ApplyHanjaChoice(c, cycle.cands[i], Len(cycle.applied)) /\ list' = NoList
      /\ cycle' = [cycle EXCEPT !.idx = i, !.applied = cycle.cands[i]]
      /\ cand' = [c EXCEPT !.pic = NoDoc]
    BY DEF NextOfCycle
<1>2. /\ cycle.cands \in Cands /\ cycle.idx \in Nat /\ Len(cycle.applied) \in Nat
      /\ cycle.hwnd \in Docs \cup {NoDoc} /\ focus \in Docs /\ ChoiceOK(cand)
    BY DEF HanjaInv, HanjaTypeOK, CycleOK
<1>3. i \in 1 .. Len(cycle.cands)
    <2>1. Len(cycle.cands) \in Nat \ {0}
        BY <1>2, EmptySeq DEF Cands
    <2> QED BY <1>2, <2>1
<1>4. cycle.cands[i] \in Seq(Chars)
    BY <1>2, <1>3, CandOf
<1> HIDE DEF i
<1>5. ChoiceOK(c) /\ c.pic \in Docs /\ ChoiceOK([c EXCEPT !.pic = NoDoc])
    BY <1>2 DEF ChoiceOK
<1>6. CycleOK(cycle')
    <2>1. {"cands", "idx", "hwnd", "applied"} \subseteq DOMAIN cycle
        BY DEF HanjaInv, HanjaTypeOK, CycleOK
    <2>2. /\ DOMAIN cycle' = DOMAIN cycle /\ cycle'.cands = cycle.cands /\ cycle'.hwnd = cycle.hwnd
          /\ cycle'.idx = i /\ cycle'.applied = cycle.cands[i]
        BY <1>1, <2>1
    <2>3. i \in Nat /\ Len(cycle.cands[i]) \in Nat
        BY <1>3, <1>4
    <2> QED BY <1>2, <2>1, <2>2, <2>3 DEF CycleOK
<1> HIDE DEF c
<1> QED BY <1>1, <1>2, <1>4, <1>5, <1>6, ChoiceInv

LEMMA HexCodeInv ==
    ASSUME HanjaAssumption, HanjaInv, HexCode, UNCHANGED <<setting, focus, acts>>
    PROVE  HanjaInv'
<1>1. /\ HexDigits(Before(focus)) \in Nat /\ held = <<>> /\ list' = NoList
      /\ RequestReplaceSessionString(focus, HexDigits(Before(focus)), <<"U">>)
      /\ UNCHANGED <<held, inline, cand, refs, cycle, kind, focus>>
    BY DEF HexCode, IsHexCode, setting
<1>2. <<"U">> \in Seq(Chars)
    BY DEF HanjaAssumption
<1>3. TextsOK'
    BY <1>1, <1>2, RequestKeeps DEF HanjaInv, HanjaTypeOK
<1>4. inline = FALSE /\ list'.by = "nobody"
    BY <1>1, NotComposed DEF HanjaInv, HanjaTypeOK, NoList
<1>5. HanjaTypeOK'
    BY <1>1, <1>3, <1>4 DEF HanjaInv, HanjaTypeOK, ChoiceOK, CycleOK, Cands
<1> QED BY <1>1, <1>4, <1>5, Ended

LEMMA HanjaKeyInv == ASSUME HanjaAssumption, HanjaInv, HanjaKey PROVE HanjaInv'
<1>1. UNCHANGED <<setting, focus, acts>>
    BY DEF HanjaKey
<1>2. CASE cycle.active
    BY <1>1, <1>2, NextOfCycleInv DEF HanjaKey
<1>3. CASE ~cycle.active
    <2>1. Convert
        BY <1>3 DEF HanjaKey
    <2>2. CASE HexCode
        BY <1>1, <2>2, HexCodeInv
    <2>3. ASSUME NEW ask \in Asked, Found(ask.word), Show(ask) PROVE HanjaInv'
        <3>1. \/ OwnWindow(ask, Kept(ask)) \/ HelperWindow(ask, Kept(ask))
              \/ StartCycle(ask, Kept(ask)) \/ NothingShown(Kept(ask))
            BY <2>3 DEF Show, UwpCandFallback, Kept
        <3>2. CASE OwnWindow(ask, Kept(ask))
            BY <1>1, <2>3, <3>2, OwnWindowInv
        <3>3. CASE HelperWindow(ask, Kept(ask))
            BY <1>1, <2>3, <3>3, HelperWindowInv
        <3>4. CASE StartCycle(ask, Kept(ask))
            BY <1>1, <2>3, <3>4, StartCycleInv
        <3>5. CASE NothingShown(Kept(ask))
            BY <1>1, <2>3, <3>5, NothingShownInv
        <3> QED BY <3>1, <3>2, <3>3, <3>4, <3>5
    <2>4. CASE NoAnswer
        <3>1. list' = NoList /\ UNCHANGED <<text, sel, cand, refs, cycle, kind, focus>>
            BY <1>1, <2>4 DEF NoAnswer, Untouched, setting
        <3>2. held' \in Seq(Keys) /\ inline' = FALSE
            BY <2>4, NotHeldEnds DEF NoAnswer
        <3>3. TextsOK' /\ list'.by = "nobody"
            BY <3>1 DEF HanjaInv, HanjaTypeOK, TextsOK, NoList
        <3>4. HanjaTypeOK'
            BY <3>1, <3>2, <3>3 DEF HanjaInv, HanjaTypeOK, ChoiceOK, CycleOK, Cands
        <3> QED BY <3>2, <3>3, <3>4, Ended
    <2> QED BY <2>1, <2>2, <2>3, <2>4 DEF Convert
<1> QED BY <1>2, <1>3

LEMMA PickInv == ASSUME HanjaAssumption, HanjaInv, PickOwn \/ PickHelper PROVE HanjaInv'
<1>1. CASE PickOwn
    <2>1. PICK i \in 1 .. Len(list.cands) : ApplyHanjaChoice(cand, list.cands[i], list.len)
        BY <1>1 DEF PickOwn
    <2>2. /\ list.by = "own" /\ list' = NoList /\ cand' = [cand EXCEPT !.pic = NoDoc]
          /\ UNCHANGED <<setting, focus, cycle, acts>>
        BY <1>1 DEF PickOwn, ReleaseCand
    <2>3. /\ list.cands \in Cands /\ list.len \in Nat /\ ChoiceOK(cand) /\ cand.pic \in Docs
          /\ CycleOK(cycle')
        BY <2>2 DEF HanjaInv, HanjaTypeOK, OwnListFits
    <2>4. list.cands[i] \in Seq(Chars) /\ ChoiceOK(cand')
        BY <2>2, <2>3, CandOf, Released
    <2> QED BY <2>1, <2>2, <2>3, <2>4, ChoiceInv
<1>2. CASE PickHelper
    <2> DEFINE c == [cand EXCEPT !.pic = focus]
    <2>1. PICK i \in 1 .. Len(list.cands) : ApplyHanjaChoice(c, list.cands[i], list.len)
        BY <1>2 DEF PickHelper
    <2>2. list.by = "helper" /\ list' = NoList /\ UNCHANGED <<setting, focus, cand, refs, cycle, acts>>
        BY <1>2 DEF PickHelper
    <2>3. /\ list.cands \in Cands /\ list.len \in Nat /\ ChoiceOK(cand) /\ focus \in Docs
          /\ CycleOK(cycle') /\ ChoiceOK(cand')
        BY <2>2 DEF HanjaInv, HanjaTypeOK
    <2>4. list.cands[i] \in Seq(Chars)
        BY <2>3, CandOf
    <2>5. ChoiceOK(c) /\ c.pic \in Docs
        BY <2>3 DEF ChoiceOK
    <2> HIDE DEF c
    <2> QED BY <2>1, <2>2, <2>3, <2>4, <2>5, ChoiceInv
<1> QED BY <1>1, <1>2

LEMMA DismissedOK ==
    ASSUME HanjaTypeOK, Dismissed
    PROVE  list' = NoList /\ list'.by = "nobody" /\ ChoiceOK(cand')
<1>1. cand' = cand \/ cand' = [cand EXCEPT !.pic = NoDoc]
    BY DEF Dismissed, ReleaseCand
<1> QED BY <1>1, Released DEF Dismissed, HanjaTypeOK, NoList

LEMMA EscapeInv == ASSUME HanjaAssumption, HanjaInv, Escape PROVE HanjaInv'
<1>1. list'.by = "nobody" /\ ChoiceOK(cand') /\ UNCHANGED <<setting, text, sel, focus, held, inline, cycle, acts>>
    BY DismissedOK DEF Escape, HanjaInv
<1>2. TextsOK'
    BY <1>1 DEF HanjaInv, HanjaTypeOK, TextsOK
<1>3. ChoiceOK(cand)' /\ CycleOK(cycle)'
    BY <1>1 DEF ChoiceOK, CycleOK, Cands, HanjaInv, HanjaTypeOK
<1>4. HanjaTypeOK'
    BY <1>1, <1>2, <1>3 DEF HanjaInv, HanjaTypeOK, setting
<1>5. InlineAtCaret'
    BY <1>1 DEF HanjaInv, InlineAtCaret, EndsWith, Before
<1>6. OwnListFits'
    BY <1>1 DEF OwnListFits
<1> QED BY <1>4, <1>5, <1>6 DEF HanjaInv

LEMMA ClickInv == ASSUME HanjaAssumption, HanjaInv, Click PROVE HanjaInv'
<1>1. /\ UNCHANGED <<setting, text, focus, cycle, kind>>
      /\ \E a, b \in 0 .. Len(text[focus]) :
            a <= b /\ sel' = [sel EXCEPT ![focus] = [from |-> a, to |-> b]]
    BY DEF Click, setting
<1>2. held' \in Seq(Keys) /\ inline' = FALSE
    <2>1. <<>> \in Seq(Keys)
        BY EmptySeq
    <2>2. IF inline THEN ResetComposed ELSE UNCHANGED <<held, inline>>
        BY DEF Click
    <2> QED BY <2>1, <2>2 DEF ResetComposed, HanjaInv, HanjaTypeOK
<1>3. TextsOK'
    <2>1. PICK a, b \in 0 .. Len(text[focus]) :
            a <= b /\ sel' = [sel EXCEPT ![focus] = [from |-> a, to |-> b]]
        BY <1>1
    <2>2. /\ focus \in Docs /\ TextsOK /\ text[focus] \in Seq(Chars) /\ Len(text[focus]) \in Nat
        BY DEF HanjaInv, HanjaTypeOK, TextsOK
    <2>3. [from |-> a, to |-> b] \in [from : Nat, to : Nat]
        BY <2>2
    <2>4. \A d \in Docs : sel'[d].from <= sel'[d].to /\ sel'[d].to <= Len(text[d])
        BY <2>1, <2>2 DEF TextsOK
    <2> QED BY <1>1, <2>1, <2>2, <2>3, <2>4 DEF TextsOK
<1>4. \/ list' = NoList /\ list'.by = "nobody" /\ ChoiceOK(cand')
      \/ UNCHANGED <<list, cand>> /\ (list.by = "own" => kind[focus] \notin Reporting)
    <2>1. CASE kind[focus] \in Reporting /\ list.by = "own"
        <3>1. Dismissed
            BY <2>1 DEF Click, LightDismiss
        <3> QED BY <3>1, DismissedOK DEF HanjaInv
    <2>2. CASE ~(kind[focus] \in Reporting /\ list.by = "own")
        BY <2>2 DEF Click, LightDismiss
    <2> QED BY <2>1, <2>2
<1>5. HanjaTypeOK'
    <2>1. ChoiceOK(cand)' /\ CycleOK(cycle)'
        BY <1>1, <1>4 DEF ChoiceOK, CycleOK, Cands, HanjaInv, HanjaTypeOK
    <2> QED BY <1>1, <1>2, <1>3, <1>4, <2>1 DEF HanjaInv, HanjaTypeOK, Cands
<1>6. OwnListFits'
    <2>1. CASE list'.by = "nobody"
        BY <2>1 DEF OwnListFits
    <2>2. CASE UNCHANGED <<list, cand>> /\ (list.by = "own" => kind[focus] \notin Reporting)
        BY <1>1, <2>2 DEF HanjaInv, OwnListFits, FocusEditWindow
    <2> QED BY <1>4, <2>1, <2>2
<1>7. InlineAtCaret'
    BY <1>2 DEF InlineAtCaret
<1> QED BY <1>5, <1>6, <1>7 DEF HanjaInv

\* A step of the other keys: texts aside, all that is kept is the choice of the helper.
LEMMA OtherKey ==
    ASSUME HanjaInv, TextsOK', held' \in Seq(Keys), inline' \in BOOLEAN, list'.by # "own",
           list' = NoList \/ list' = list, cycle' = NoCycle \/ cycle' = cycle,
           UNCHANGED <<setting, focus, cand>>
    PROVE  HanjaTypeOK' /\ OwnListFits'
<1>1. kind' = kind /\ focus' = focus /\ kind \in [Docs -> Kinds] /\ focus \in Docs
    BY DEF setting, HanjaInv, HanjaTypeOK
<1>2. ChoiceOK(cand)'
    BY DEF ChoiceOK, HanjaInv, HanjaTypeOK
<1>3. CycleOK(cycle)'
    BY DEF CycleOK, NoCycle, Cands, HanjaInv, HanjaTypeOK
<1>4. list'.by # "nobody" => list'.cands \in Cands /\ list'.len \in Nat
    BY DEF NoList, HanjaInv, HanjaTypeOK
<1>5. HanjaTypeOK'
    BY <1>1, <1>2, <1>3, <1>4 DEF HanjaTypeOK, Cands
<1>6. OwnListFits'
    BY DEF OwnListFits
<1> QED BY <1>5, <1>6

LEMMA OneKey ==
    ASSUME HanjaAssumption, NEW k \in Keys
    PROVE  <<k>> \in Seq(Keys) /\ <<k>> \in Seq(Chars) /\ Len(<<k>>) = 1
BY DEF HanjaAssumption

LEMMA ComposeInv == ASSUME HanjaAssumption, HanjaInv, Compose PROVE HanjaInv'
<1>1. PICK k \in Keys :
        /\ held' = <<k>>
        /\ \/ inline' = FALSE /\ Untouched
           \/ kind[focus] = "native" /\ inline' = TRUE /\ Insert(focus, <<k>>)
    BY DEF Compose
<1>2. list' = NoList /\ list'.by = "nobody" /\ cycle' = NoCycle /\ UNCHANGED <<setting, focus, cand, refs>>
    BY DEF Compose, NoList
<1>3. <<k>> \in Seq(Keys) /\ <<k>> \in Seq(Chars) /\ Len(<<k>>) = 1
    BY OneKey
<1>4. focus \in Docs /\ TextsOK
    BY DEF HanjaInv, HanjaTypeOK
<1>5. CASE inline' = FALSE /\ Untouched
    <2>1. TextsOK'
        BY <1>4, <1>5 DEF Untouched, TextsOK
    <2>2. HanjaTypeOK'
        BY <1>1, <1>2, <1>3, <1>5, <2>1, OtherKey
    <2> QED BY <1>2, <1>5, <2>2, Ended
<1>6. CASE inline' = TRUE /\ Insert(focus, <<k>>)
    <2>1. TextsOK'
        BY <1>3, <1>4, <1>6, InsertKeeps
    <2>2. HanjaTypeOK' /\ OwnListFits'
        BY <1>1, <1>2, <1>3, <1>6, <2>1, OtherKey
    <2> DEFINE t == text[focus]
               n == sel[focus].from
               tail == SubSeq(t, sel[focus].to + 1, Len(t))
    <2>3. /\ t \in Seq(Chars) /\ n \in 0 .. Len(t) /\ sel[focus].to \in Nat /\ Len(t) \in Nat
          /\ \A i \in 1 .. Len(t) : t[i] \in Chars
        BY <1>4 DEF TextsOK
    <2>4. tail \in Seq(Chars)
        <3>1. \A i \in sel[focus].to + 1 .. Len(t) : t[i] \in Chars
            BY <2>3
        <3> QED BY <2>3, <3>1, SubSeqProperties
    <2>5. /\ text'[focus] = (SubSeq(t, 1, n) \o <<k>>) \o tail
          /\ sel'[focus] = Caret(n + Len(<<k>>))
        BY <1>4, <1>6 DEF Insert, Put, TextsOK
    <2> HIDE DEF tail, t, n
    <2>6. EndsWith(SubSeq((SubSeq(t, 1, n) \o <<k>>) \o tail, 1, n + Len(<<k>>)), <<k>>)
        BY <1>3, <2>3, <2>4, EndsWithTyped
    <2>7. sel'[focus].from = n + Len(<<k>>) /\ sel'[focus].to = n + Len(<<k>>)
        BY <2>5 DEF Caret
    <2>8. Before(focus)' = SubSeq((SubSeq(t, 1, n) \o <<k>>) \o tail, 1, n + Len(<<k>>)) /\ focus' = focus
        BY <1>2, <2>5, <2>7 DEF Before
    <2>9. EndsWith(Before(focus)', held')
        BY <1>1, <2>6, <2>8
    <2>10. EndsWith(Before(focus), held)'
        BY <2>9 DEF EndsWith
    <2>11. InlineAtCaret'
        BY <1>1, <1>2, <1>3, <2>7, <2>10 DEF InlineAtCaret
    <2> QED BY <2>2, <2>11 DEF HanjaInv
<1> QED BY <1>1, <1>5, <1>6

LEMMA BoundaryInv == ASSUME HanjaAssumption, HanjaInv, Boundary PROVE HanjaInv'
<1>1. /\ list' = NoList /\ list'.by = "nobody" /\ cycle' = NoCycle /\ UNCHANGED <<setting, focus, cand, refs>>
      /\ held' = <<>> /\ inline' = FALSE
      /\ IF inline THEN Untouched ELSE CommitText(held)
    BY DEF Boundary, ResetComposed, NoList
<1>2. focus \in Docs /\ TextsOK /\ held \in Seq(Chars) /\ <<>> \in Seq(Keys)
    BY EmptySeq DEF HanjaInv, HanjaTypeOK, HanjaAssumption
<1>3. TextsOK'
    <2>1. CASE Untouched
        BY <1>2, <2>1 DEF Untouched, TextsOK
    <2>2. CASE CommitText(held)
        BY <1>2, <2>2, CommitKeeps
    <2> QED BY <1>1, <2>1, <2>2
<1>4. HanjaTypeOK'
    BY <1>1, <1>2, <1>3, OtherKey
<1> QED BY <1>1, <1>4, Ended

LEMMA KeyOfTheApplicationInv ==
    ASSUME HanjaAssumption, HanjaInv, KeyOfTheApplication
    PROVE  HanjaInv'
<1>1. PICK k \in Keys : Insert(focus, <<k>>)
    BY DEF KeyOfTheApplication
<1>2. /\ list.by = "nobody" /\ list' = list /\ cycle' = cycle /\ held = <<>>
      /\ UNCHANGED <<setting, focus, held, inline, cand, refs>>
    BY DEF KeyOfTheApplication
<1>3. inline' = FALSE
    BY <1>2, NotComposed DEF HanjaInv, HanjaTypeOK
<1>4. TextsOK'
    BY <1>1, OneKey, InsertKeeps DEF HanjaInv, HanjaTypeOK
<1>5. held' \in Seq(Keys)
    BY <1>2 DEF HanjaInv, HanjaTypeOK
<1>6. HanjaTypeOK'
    BY <1>2, <1>3, <1>4, <1>5, OtherKey
<1> QED BY <1>2, <1>3, <1>6, Ended

LEMMA FocusToInv ==
    ASSUME HanjaAssumption, HanjaInv, NEW d \in Docs, FocusTo(d)
    PROVE  HanjaInv'
<1>1. /\ focus' = d /\ Dismissed /\ UNCHANGED <<setting, cycle>> /\ held' = <<>> /\ inline' = FALSE
      /\ IF held # <<>> /\ ~inline THEN CommitText(held) ELSE Untouched
    BY DEF FocusTo, ResetComposed
<1>2. focus \in Docs /\ TextsOK /\ held \in Seq(Chars) /\ <<>> \in Seq(Keys)
    BY EmptySeq DEF HanjaInv, HanjaTypeOK, HanjaAssumption
<1>3. TextsOK'
    <2>1. CASE Untouched
        BY <1>2, <2>1 DEF Untouched, TextsOK
    <2>2. CASE CommitText(held)
        BY <1>2, <2>2, CommitKeeps
    <2> QED BY <1>1, <2>1, <2>2
<1>4. list'.by = "nobody" /\ ChoiceOK(cand')
    BY <1>1, DismissedOK DEF HanjaInv
<1>5. ChoiceOK(cand)' /\ CycleOK(cycle)'
    BY <1>1, <1>4 DEF ChoiceOK, CycleOK, Cands, HanjaInv, HanjaTypeOK
<1>6. kind' = kind /\ kind \in [Docs -> Kinds]
    BY <1>1 DEF setting, HanjaInv, HanjaTypeOK
<1>7. HanjaTypeOK'
    BY <1>1, <1>2, <1>3, <1>4, <1>5, <1>6 DEF HanjaTypeOK
<1> QED BY <1>1, <1>4, <1>7, Ended

\* A step that changes nothing.
LEMMA Stutters == ASSUME HanjaInv, UNCHANGED hanjaVars PROVE HanjaInv'
<1>1. UNCHANGED <<kind, text, sel, focus, held, inline, list, cand, cycle>>
    BY DEF hanjaVars
<1>2. TextsOK'
    BY <1>1 DEF HanjaInv, HanjaTypeOK, TextsOK
<1>3. ChoiceOK(cand)' /\ CycleOK(cycle)'
    BY <1>1 DEF ChoiceOK, CycleOK, Cands, HanjaInv, HanjaTypeOK
<1>4. HanjaTypeOK'
    BY <1>1, <1>2, <1>3 DEF HanjaInv, HanjaTypeOK, Cands
<1>5. InlineAtCaret'
    BY <1>1 DEF HanjaInv, InlineAtCaret, EndsWith, Before
<1>6. OwnListFits'
    BY <1>1 DEF HanjaInv, OwnListFits, Stands, EndsWith, Before, Selected, FocusEditWindow
<1> QED BY <1>4, <1>5, <1>6 DEF HanjaInv

LEMMA NextHanja == ASSUME HanjaAssumption, HanjaInv, [HanjaNext]_hanjaVars PROVE HanjaInv'
<1>1. CASE HanjaKey
    BY <1>1, HanjaKeyInv
<1>2. CASE PickOwn \/ PickHelper
    BY <1>2, PickInv
<1>3. CASE Escape
    BY <1>3, EscapeInv
<1>4. CASE Click
    BY <1>4, ClickInv
<1>5. CASE Compose
    BY <1>5, ComposeInv
<1>6. CASE Boundary
    BY <1>6, BoundaryInv
<1>7. CASE KeyOfTheApplication
    BY <1>7, KeyOfTheApplicationInv
<1>8. ASSUME NEW d \in Docs, FocusTo(d) PROVE HanjaInv'
    BY <1>8, FocusToInv
<1>9. CASE UNCHANGED hanjaVars
    BY <1>9, Stutters
<1> QED BY <1>1, <1>2, <1>3, <1>4, <1>5, <1>6, <1>7, <1>8, <1>9 DEF HanjaNext

------------------------------------------------------------------------------
(* The properties *)

LEMMA InsertReplaces ==
    ASSUME TextsOK, NEW d \in Docs, NEW str, Insert(d, str)
    PROVE  ReplacedIn(d, Selected(d), str) /\ \A e \in Docs : e # d => text'[e] = text[e]
<1>1. /\ sel[d].from \in Nat /\ sel[d].to \in Nat
      /\ sel[d].from <= sel[d].to /\ sel[d].to <= Len(text[d])
    BY DEF TextsOK
<1>2. ReplacedIn(d, SubSeq(text[d], sel[d].from + 1, sel[d].to), str)
    BY <1>1, PutReplaces DEF Insert
<1>3. \A e \in Docs : e # d => text'[e] = text[e]
    BY DEF Insert, Put, TextsOK
<1> QED BY <1>2, <1>3 DEF Selected

\* So many characters before the caret, when they are the word.
LEMMA RequestReplaces ==
    ASSUME TextsOK, NEW d \in Docs, NEW str, NEW word \in Seq(Chars),
           sel[d].from = sel[d].to, EndsWith(Before(d), word),
           RequestReplaceSessionString(d, Len(word), str)
    PROVE  ReplacedIn(d, word, str) \/ Untouched
<1>1. /\ sel[d].from \in Nat /\ sel[d].to \in Nat /\ Len(text[d]) \in Nat
      /\ sel[d].to <= Len(text[d]) /\ text[d] \in Seq(Chars) /\ Len(word) \in Nat
    BY DEF TextsOK
<1>2. /\ Len(word) <= sel[d].from
      /\ SubSeq(text[d], (sel[d].from - Len(word)) + 1, sel[d].from) = word
    <2>1. EndsWith(SubSeq(text[d], 1, sel[d].from), word)
        BY DEF Before
    <2>2. sel[d].from \in 0 .. Len(text[d])
        BY <1>1
    <2> QED BY <1>1, <2>1, <2>2, EndsInText
<1> DEFINE from == sel[d].from - Len(word)
<1>3. from \in Nat /\ from <= sel[d].to
    BY <1>1, <1>2
<1>4. (IF sel[d].from > Len(word) THEN sel[d].from - Len(word) ELSE 0) = from
    BY <1>1, <1>2
<1>5. SubSeq(text[d], from + 1, sel[d].to) = word
    BY <1>2
<1>6. Put(d, from, sel[d].to, str) \/ Untouched
    BY <1>4 DEF RequestReplaceSessionString
<1> HIDE DEF from
<1>7. CASE Put(d, from, sel[d].to, str)
    <2>1. ReplacedIn(d, SubSeq(text[d], from + 1, sel[d].to), str)
        BY <1>1, <1>3, <1>7, PutReplaces
    <2> QED BY <1>5, <2>1
<1> QED BY <1>6, <1>7

\* With our list open only a choice from it changes a text and keeps the focus.
LEMMA OnlyPicks ==
    ASSUME HanjaInv, [HanjaNext]_hanjaVars, list.by = "own", focus' = focus, text' # text
    PROVE  PickOwn
<1>1. CASE Escape
    BY <1>1 DEF Escape
<1>2. CASE Click
    BY <1>2 DEF Click
<1>3. ~HanjaKey /\ ~Compose /\ ~Boundary /\ ~KeyOfTheApplication /\ ~PickHelper
    BY DEF HanjaKey, Compose, Boundary, KeyOfTheApplication, PickHelper
<1>4. ASSUME NEW d \in Docs, FocusTo(d) PROVE FALSE
    BY <1>4 DEF FocusTo
<1>5. CASE UNCHANGED hanjaVars
    BY <1>5 DEF hanjaVars
<1> QED BY <1>1, <1>2, <1>3, <1>4, <1>5 DEF HanjaNext

\* What is chosen is put in place of the original, where it is known to stand.
LEMMA ChosenReplaces ==
    ASSUME HanjaAssumption, HanjaInv, list.by = "own", NEW str \in Seq(Chars),
           Applied(cand, str, list.len),
           kind[focus] \in Reporting \/ (kind[focus] = "edit" /\ list.fromSelection)
    PROVE  (ReplacedIn(focus, list.original, str) /\ \A e \in Docs : e # focus => text'[e] = text[e])
           \/ Untouched
<1> SUFFICES ASSUME ~Untouched
             PROVE  /\ ReplacedIn(focus, list.original, str)
                    /\ \A e \in Docs : e # focus => text'[e] = text[e]
    OBVIOUS
<1>1. /\ focus \in Docs /\ focus # NoDoc /\ TextsOK /\ ChoiceOK(cand) /\ list.len \in Nat
      /\ cand.word \in Seq(Chars) /\ cand.fromSelection \in BOOLEAN
    BY DEF HanjaInv, HanjaTypeOK, HanjaAssumption, ChoiceOK
<1>2. /\ cand.pic = focus /\ cand.hwnd = FocusEditWindow
      /\ cand.fromSelection = list.fromSelection
      /\ list.fromSelection \/ list.len # 0 => list.original = cand.word
      /\ kind[focus] \in Reporting => Stands
    BY DEF HanjaInv, OwnListFits
<1>3. cand.hwnd = NoDoc \/ cand.hwnd = focus
    BY <1>2 DEF FocusEditWindow
<1>4. ASSUME CommitText(str), Selected(focus) = list.original
      PROVE  /\ ReplacedIn(focus, list.original, str)
             /\ \A e \in Docs : e # focus => text'[e] = text[e]
    BY <1>1, <1>4, InsertReplaces DEF CommitText
<1>5. CASE cand.fromSelection /\ cand.hwnd # NoDoc
    <2>1. Insert(focus, str) /\ Selected(focus) = cand.word
        BY <1>3, <1>5 DEF Applied, SelectionStillValid
    <2> QED BY <1>1, <1>2, <1>5, <2>1, InsertReplaces
<1>6. CASE cand.fromSelection /\ cand.hwnd = NoDoc
    <2>1. kind[focus] # "edit"
        BY <1>1, <1>2, <1>6 DEF FocusEditWindow
    <2>2. Selected(focus) = list.original
        BY <1>2, <1>6, <2>1 DEF Stands
    <2> QED BY <1>4, <1>6, <2>2 DEF Applied
<1>7. CASE ~cand.fromSelection /\ list.len = 0
    <2>1. Selected(focus) = list.original
        BY <1>2, <1>7 DEF Stands
    <2> QED BY <1>1, <1>4, <1>7, <2>1 DEF Applied
<1>8. CASE ~cand.fromSelection /\ list.len # 0
    <2>1. /\ sel[focus].from = sel[focus].to /\ list.len = Len(list.original)
          /\ EndsWith(Before(focus), list.original) /\ list.original = cand.word
        BY <1>2, <1>8 DEF Stands
    <2>2. list.len > 0
        BY <1>1, <1>8
    <2>3. CASE cand.hwnd # NoDoc /\ SelectWordBeforeCaret(cand.hwnd, cand.word)
        <3>1. cand.hwnd = focus /\ SelectWordBeforeCaret(focus, cand.word)
              /\ Put(focus, sel[focus].from - Len(cand.word), sel[focus].from, str)
            BY <1>3, <1>8, <2>2, <2>3 DEF Applied
        <3> QED BY <1>1, <2>1, <3>1, SelectKeeps
    <2>4. CASE ~(cand.hwnd # NoDoc /\ SelectWordBeforeCaret(cand.hwnd, cand.word))
        <3>1. RequestReplaceSessionString(focus, Len(cand.word), str)
            BY <1>2, <1>8, <2>1, <2>2, <2>4 DEF Applied
        <3>2. ReplacedIn(focus, cand.word, str)
            BY <1>1, <2>1, <3>1, RequestReplaces
        <3>3. \A e \in Docs : e # focus => text'[e] = text[e]
            BY <1>1, <3>1, RequestKeeps
        <3> QED BY <2>1, <3>2, <3>3
    <2> QED BY <2>3, <2>4
<1> QED BY <1>1, <1>5, <1>6, <1>7, <1>8

LEMMA PickReplaces ==
    ASSUME HanjaAssumption, HanjaInv, [HanjaNext]_hanjaVars
    PROVE  OnlyTheOriginalIsReplaced
<1> SUFFICES ASSUME NEW d \in Docs, list.by = "own", text'[d] # text[d], list' = NoList, focus' = focus,
                    kind[d] \in Reporting \/ (kind[d] = "edit" /\ list.fromSelection)
             PROVE  /\ d = list.doc
                    /\ \E i \in 1 .. Len(list.cands) : ReplacedIn(d, list.original, list.cands[i])
    BY DEF OnlyTheOriginalIsReplaced
<1>1. PickOwn
    BY OnlyPicks
<1>2. PICK i \in 1 .. Len(list.cands) : Applied(cand, list.cands[i], list.len)
    BY <1>1 DEF PickOwn, ApplyHanjaChoice
<1>3. list.cands \in Cands /\ list.doc = focus /\ cand.pic \in Docs /\ list.len \in Nat /\ focus \in Docs
    BY DEF HanjaInv, HanjaTypeOK, OwnListFits
<1>4. list.cands[i] \in Seq(Chars)
    BY <1>3, CandOf
<1>5. d = focus
    <2>1. \A e \in Docs : e # focus => text'[e] = text[e]
        <3>1. cand.pic = focus /\ cand.hwnd \in {focus, NoDoc} /\ NoDoc \notin Docs /\ ChoiceOK(cand) /\ TextsOK
            BY DEF HanjaInv, HanjaTypeOK, OwnListFits, FocusEditWindow, HanjaAssumption
        <3>2. \A e \in Docs \ {focus, cand.pic, cand.hwnd} : text'[e] = text[e]
            BY <1>2, <1>3, <1>4, <3>1, AppliedKeeps
        <3> QED BY <3>1, <3>2
    <2> QED BY <2>1
<1>6. ReplacedIn(focus, list.original, list.cands[i])
    BY <1>2, <1>4, <1>5, ChosenReplaces DEF Untouched
<1> QED BY <1>3, <1>5, <1>6

LEMMA SplitText ==
    ASSUME NEW s \in Seq(Chars), NEW n \in 0 .. Len(s)
    PROVE  (SubSeq(s, 1, n) \o <<>>) \o SubSeq(s, n + 1, Len(s)) = s
<1> DEFINE head == SubSeq(s, 1, n)
           tail == SubSeq(s, n + 1, Len(s))
<1>0. n \in Nat /\ n <= Len(s) /\ Len(s) \in Nat /\ \A i \in 1 .. Len(s) : s[i] \in Chars
    OBVIOUS
<1>1. head \in Seq(Chars) /\ Len(head) = n /\ \A i \in 1 .. n : head[i] = s[i]
    BY <1>0, SubSeqProperties
<1>2. tail \in Seq(Chars) /\ Len(tail) = Len(s) - n /\ \A i \in 1 .. Len(s) - n : tail[i] = s[n + i]
    <2>1. \A i \in n + 1 .. Len(s) : s[i] \in Chars
        BY <1>0
    <2>2. /\ tail \in Seq(Chars)
          /\ Len(tail) = IF n + 1 <= Len(s) THEN Len(s) - (n + 1) + 1 ELSE 0
          /\ \A i \in 1 .. Len(s) - (n + 1) + 1 : tail[i] = s[n + 1 + i - 1]
        BY <1>0, <2>1, SubSeqProperties
    <2>3. \A i \in 1 .. Len(s) - n : n + 1 + i - 1 = n + i
        BY <1>0
    <2> HIDE DEF tail
    <2>4. Len(s) - (n + 1) + 1 = Len(s) - n /\ (~(n + 1 <= Len(s)) => Len(s) - n = 0)
        BY <1>0
    <2> QED BY <2>2, <2>3, <2>4
<1> HIDE DEF head, tail
<1>3. head \o <<>> = head
    BY <1>1, ConcatEmptySeq
<1>4. /\ head \o tail \in Seq(Chars) /\ Len(head \o tail) = Len(s)
      /\ \A i \in 1 .. Len(s) : (head \o tail)[i] = s[i]
    <2>1. /\ head \o tail \in Seq(Chars) /\ Len(head \o tail) = Len(head) + Len(tail)
          /\ \A i \in 1 .. Len(head) + Len(tail) :
                (head \o tail)[i] = IF i <= Len(head) THEN head[i] ELSE tail[i - Len(head)]
        BY <1>1, <1>2, ConcatProperties
    <2>2. Len(head) + Len(tail) = Len(s)
        BY <1>0, <1>1, <1>2
    <2>3. ASSUME NEW i \in 1 .. Len(s) PROVE (head \o tail)[i] = s[i]
        <3>1. CASE i <= n
            BY <1>0, <1>1, <2>1, <2>2, <3>1
        <3>2. CASE ~(i <= n)
            <4>1. i - n \in 1 .. Len(s) - n /\ n + (i - n) = i
                BY <1>0, <3>2
            <4>2. tail[i - n] = s[n + (i - n)]
                BY <1>2, <4>1
            <4> QED BY <1>1, <2>1, <2>2, <3>2, <4>1, <4>2
        <3> QED BY <3>1, <3>2
    <2> QED BY <2>1, <2>2, <2>3
<1>5. head \o tail = s
    BY <1>4, SeqEqual
<1> QED BY <1>3, <1>5 DEF head, tail

\* Only our window and the helper's bring candidates up, and they touch no text.
LEMMA AskingShows ==
    ASSUME HanjaInv, [HanjaNext]_hanjaVars, list'.by # "nobody", list' # list
    PROVE  Untouched /\ NotHeld /\ focus' = focus
<1>1. list' # NoList
    BY DEF NoList
<1>2. ~PickOwn /\ ~PickHelper /\ ~Compose /\ ~Boundary /\ ~KeyOfTheApplication /\ ~UNCHANGED hanjaVars
    BY <1>1 DEF PickOwn, PickHelper, Compose, Boundary, KeyOfTheApplication, hanjaVars
<1>3. ~Escape /\ ~Click /\ ~\E d \in Docs : FocusTo(d)
    BY <1>1 DEF Escape, Click, FocusTo, Dismissed, LightDismiss
<1>4. HanjaKey
    BY <1>2, <1>3 DEF HanjaNext
<1>5. ~NextOfCycle /\ ~HexCode /\ ~NoAnswer
    BY <1>1 DEF NextOfCycle, HexCode, NoAnswer
<1>6. \E ask \in Asked : Show(ask)
    BY <1>4, <1>5 DEF HanjaKey, Convert
<1>7. \E a \in Asked : \E c : OwnWindow(a, c) \/ HelperWindow(a, c)
    BY <1>1, <1>6 DEF Show, UwpCandFallback, StartCycle, NothingShown
<1> QED BY <1>4, <1>7 DEF OwnWindow, HelperWindow, HanjaKey

LEMMA AskingKeeps ==
    ASSUME HanjaAssumption, HanjaInv, [HanjaNext]_hanjaVars
    PROVE  AskingChangesNothing
<1> SUFFICES ASSUME NEW d \in Docs, list'.by # "nobody", list' # list
             PROVE  Whole(d)' = Whole(d) /\ sel' = sel
    BY DEF AskingChangesNothing
<1>1. UNCHANGED <<text, sel, focus>>
    BY AskingShows DEF Untouched
<1>2. inline' = FALSE /\ (~inline => held' = held) /\ (inline => held' = <<>>)
    BY AskingShows, NotHeldEnds
<1>3. CASE d # focus
    BY <1>1, <1>3 DEF Whole
<1>4. CASE d = focus /\ ~inline
    BY <1>1, <1>2, <1>4 DEF Whole
<1>5. CASE d = focus /\ inline
    <2>1. text[d] \in Seq(Chars) /\ sel[d].from \in 0 .. Len(text[d])
        BY DEF HanjaInv, HanjaTypeOK, TextsOK
    <2>2. Whole(d)' = (SubSeq(text[d], 1, sel[d].from) \o <<>>)
                         \o SubSeq(text[d], sel[d].from + 1, Len(text[d]))
        BY <1>1, <1>2, <1>5 DEF Whole
    <2>3. Whole(d) = text[d]
        BY <1>5 DEF Whole
    <2> QED BY <1>1, <2>1, <2>2, <2>3, SplitText
<1> QED BY <1>1, <1>3, <1>4, <1>5

(* A late choice puts a candidate in place of the text that was looked up and *)
(* nothing else; asking for the candidates changes no document                *)
(* (ApplyHanjaChoice, HanjaTxn_Mode).                                          *)
THEOREM ChoiceReplacesTheOriginal ==
    ASSUME HanjaAssumption
    PROVE  HanjaSpec => ConversionIsExact
<1>1. HanjaInit => HanjaInv
    BY InitHanja
<1>2. HanjaInv /\ [HanjaNext]_hanjaVars => HanjaInv'
    BY NextHanja
<1>3. HanjaInv /\ [HanjaNext]_hanjaVars => [OnlyTheOriginalIsReplaced /\ AskingChangesNothing]_hanjaVars
    BY PickReplaces, AskingKeeps
<1> QED BY <1>1, <1>2, <1>3, PTL DEF HanjaSpec, ConversionIsExact

------------------------------------------------------------------------------
(* THE INLINE COMPOSITION *)

\* What a session works on, when n syllables have begun.
Session(n) ==
    [comp : Ctxs \cup {NoCtx}, shown : Seq(1..n), updated : BOOLEAN, demerits : Nat,
     demoted : BOOLEAN, docs : [Ctxs -> Seq(1..n)], left : [Ctxs -> Nat], held : 0..n,
     crashed : BOOLEAN, ok : BOOLEAN]

\* Session s with t added to its document c.
Grown(s, c, t) == [s.docs EXCEPT ![c] = @ \o t]

-----------------------------------------------------------------------------
LEMMA DrawnType ==
    ASSUME NEW n \in Nat, NEW u \in 0..n
    PROVE  Drawn(u) \in Seq(1..n)
<1>1. CASE u = 0
    BY <1>1 DEF Drawn
<1>2. CASE u # 0
    BY <1>2 DEF Drawn
<1> QED BY <1>1, <1>2

\* A document to which nothing is added.
LEMMA GrownType ==
    ASSUME NEW n \in Nat, NEW s \in Session(n), NEW c \in Ctxs, NEW t \in Seq(1..n)
    PROVE  Grown(s, c, t) \in [Ctxs -> Seq(1..n)] /\ Grown(s, c, <<>>) = s.docs
<1>1. s.docs \in [Ctxs -> Seq(1..n)]
    BY DEF Session
<1>2. s.docs[c] \o t \in Seq(1..n) /\ s.docs[c] \o <<>> = s.docs[c]
    BY <1>1, ConcatProperties, ConcatEmptySeq
<1> QED BY <1>1, <1>2 DEF Grown

\* ForgetComposition leaves the text where it is, in the document.
LEMMA Forgotten ==
    ASSUME NEW n \in Nat, NEW s \in Session(n), s.comp # NoCtx, NEW t, t = ForgetComposition(s)
    PROVE  /\ t \in Session(n) /\ t.comp = NoCtx /\ t.shown = <<>> /\ t.docs = Grown(s, s.comp, s.shown)
           /\ t.held = s.held /\ t.demoted = s.demoted /\ t.crashed = s.crashed /\ t.ok = s.ok
           /\ t.left = s.left /\ t.demerits = s.demerits
<1>1. s.comp \in Ctxs /\ s.shown \in Seq(1..n)
    BY DEF Session
<1>2. Grown(s, s.comp, s.shown) \in [Ctxs -> Seq(1..n)]
    BY <1>1, GrownType
<1>3. t = [s EXCEPT !.comp = NoCtx, !.shown = <<>>, !.updated = FALSE,
                    !.docs = Grown(s, s.comp, s.shown)]
    BY DEF ForgetComposition, Grown, Session
<1>4. <<>> \in Seq(1..n)
    BY EmptySeq
<1> QED BY <1>2, <1>3, <1>4 DEF Session

LEMMA Abandoned ==
    ASSUME NEW n \in Nat, NEW s \in Session(n), s.comp # NoCtx, NEW t, t = Abandon(s)
    PROVE  /\ t \in Session(n) /\ t.comp = NoCtx /\ t.shown = <<>> /\ t.docs = Grown(s, s.comp, s.shown)
           /\ t.held = s.held /\ t.demoted = s.demoted /\ t.crashed = s.crashed /\ t.ok = s.ok
<1> DEFINE f == ForgetComposition(s)
<1>1. /\ f \in Session(n) /\ f.comp = NoCtx /\ f.shown = <<>> /\ f.docs = Grown(s, s.comp, s.shown)
      /\ f.held = s.held /\ f.demoted = s.demoted /\ f.crashed = s.crashed /\ f.ok = s.ok
      /\ f.left = s.left
    BY Forgotten
<1>2. s.comp \in Ctxs
    BY DEF Session
<1>3. t = [f EXCEPT !.left[s.comp] = @ + 1]
    BY DEF Abandon
<1> HIDE DEF f
<1>4. [f.left EXCEPT ![s.comp] = @ + 1] \in [Ctxs -> Nat]
    BY <1>1, <1>2 DEF Session
<1> QED BY <1>1, <1>3, <1>4 DEF Session

\* However a composition ends, it is forgotten; its text stays, or is cleared by a cancel.
LEMMA EndedWork ==
    ASSUME NEW n \in Nat, NEW s \in Session(n), s.comp # NoCtx, NEW op, NEW call,
           NEW t, t = EndWork(s, op, call)
    PROVE  /\ t \in Session(n) /\ t.comp = NoCtx /\ t.shown = <<>>
           /\ t.held = s.held /\ t.demoted = s.demoted /\ t.crashed = s.crashed
           /\ \/ t.docs = Grown(s, s.comp, s.shown)
              \/ op = "cancel" /\ t.docs = s.docs
           /\ op = "cancel" /\ call = "none" => t.docs = s.docs
<1> DEFINE clear == op = "cancel" /\ call \notin {"range", "setText"}
           b == IF clear THEN [s EXCEPT !.shown = <<>>] ELSE s
           e == End(b, call)
<1>0. s.comp \in Ctxs
    BY DEF Session
<1>1. /\ b \in Session(n) /\ b.comp = s.comp /\ b.docs = s.docs /\ b.held = s.held /\ b.demoted = s.demoted
      /\ b.crashed = s.crashed /\ b.ok = s.ok /\ b.shown = IF clear THEN <<>> ELSE s.shown
    <2>1. <<>> \in Seq(1..n)
        BY EmptySeq
    <2>2. CASE clear
        BY <2>1, <2>2 DEF Session
    <2>3. CASE ~clear
        BY <2>3
    <2> QED BY <2>2, <2>3
<1> HIDE DEF b
<1>2. Grown(b, b.comp, b.shown) = IF clear THEN s.docs ELSE Grown(s, s.comp, s.shown)
    <2>1. CASE clear
        BY <2>1, <1>0, <1>1, GrownType, EmptySeq
    <2>2. CASE ~clear
        BY <2>2, <1>1 DEF Grown
    <2> QED BY <2>1, <2>2
<1>3. /\ e \in Session(n) /\ e.comp = NoCtx /\ e.shown = <<>> /\ e.docs = Grown(b, b.comp, b.shown)
      /\ e.held = b.held /\ e.demoted = b.demoted /\ e.crashed = b.crashed
    <2>1. CASE call = "end"
        <3>1. PICK a : a = Abandon(b)
            OBVIOUS
        <3>2. /\ a \in Session(n) /\ a.comp = NoCtx /\ a.shown = <<>> /\ a.docs = Grown(b, b.comp, b.shown)
              /\ a.held = b.held /\ a.demoted = b.demoted /\ a.crashed = b.crashed
            BY <1>1, <3>1, Abandoned
        <3>3. e = [a EXCEPT !.ok = FALSE]
            BY <2>1, <3>1 DEF End, Failed
        <3> QED BY <3>2, <3>3 DEF Session
    <2>2. CASE call # "end"
        BY <2>2, <1>1, Forgotten DEF End
    <2> QED BY <2>1, <2>2
<1>4. t = [e EXCEPT !.ok = @ /\ call # "range"]
    BY DEF EndWork, b
<1> HIDE DEF e
<1>5. /\ t \in Session(n) /\ t.comp = NoCtx /\ t.shown = <<>> /\ t.docs = e.docs
      /\ t.held = e.held /\ t.demoted = e.demoted /\ t.crashed = e.crashed
    BY <1>3, <1>4 DEF Session
<1> QED BY <1>1, <1>2, <1>3, <1>5

\* JamoComp_Finalize and JamoComp_Cancel in a key event.
LEMMA EndedInKey ==
    ASSUME NEW n \in Nat, NEW s \in Session(n), s.comp = NoCtx => s.shown = <<>>, NEW op, NEW call,
           NEW t, t = InKey(s, op, call)
    PROVE  /\ t \in Session(n) /\ t.comp = NoCtx /\ t.shown = <<>>
           /\ t.held = s.held /\ t.demoted = s.demoted /\ t.crashed = s.crashed
           /\ s.comp = NoCtx => t.docs = s.docs
           /\ s.comp # NoCtx => \/ t.docs = Grown(s, s.comp, s.shown)
                                \/ op = "cancel" /\ t.docs = s.docs
           /\ op = "cancel" /\ call = "none" => t.docs = s.docs
<1>1. CASE s.comp = NoCtx
    BY <1>1 DEF InKey
<1>2. CASE s.comp # NoCtx /\ call = "request"
    <2>1. t = Abandon(s)
        BY <1>2 DEF InKey
    <2> QED BY <1>2, <2>1, Abandoned
<1>3. CASE s.comp # NoCtx /\ call # "request"
    <2> DEFINE e == EndWork(s, op, call)
    <2>1. /\ e \in Session(n) /\ e.comp = NoCtx /\ e.shown = <<>>
          /\ e.held = s.held /\ e.demoted = s.demoted /\ e.crashed = s.crashed
          /\ \/ e.docs = Grown(s, s.comp, s.shown)
             \/ op = "cancel" /\ e.docs = s.docs
          /\ op = "cancel" /\ call = "none" => e.docs = s.docs
        BY <1>3, EndedWork
    <2>2. t = [e EXCEPT !.ok = TRUE]
        BY <1>3 DEF InKey
    <2> HIDE DEF e
    <2>3. /\ t \in Session(n) /\ t.comp = NoCtx /\ t.shown = <<>> /\ t.docs = e.docs
          /\ t.held = e.held /\ t.demoted = e.demoted /\ t.crashed = e.crashed
        BY <2>1, <2>2 DEF Session
    <2> QED BY <1>3, <2>1, <2>3
<1> QED BY <1>1, <1>2, <1>3

LEMMA TerminatedByHost ==
    ASSUME InlineCompAssumption, NEW n \in Nat, NEW s \in Session(n), s.comp # NoCtx, NEW t, t = Terminated(s)
    PROVE  /\ t \in Session(n) /\ t.comp = NoCtx /\ t.shown = <<>> /\ t.docs = Grown(s, s.comp, s.shown)
           /\ t.held = 0 /\ t.crashed = s.crashed /\ t.ok = s.ok
<1> DEFINE f == ForgetComposition(s)
           d == IF s.updated THEN 0
                ELSE IF s.demerits < DemoteLimit THEN s.demerits + 1 ELSE s.demerits
           given == f.demoted \/ (~s.updated /\ d = DemoteLimit)
<1>1. /\ f \in Session(n) /\ f.comp = NoCtx /\ f.shown = <<>> /\ f.docs = Grown(s, s.comp, s.shown)
      /\ f.crashed = s.crashed /\ f.ok = s.ok
    BY Forgotten
<1>2. d \in Nat
    BY DEF Session, InlineCompAssumption
<1>3. t = [f EXCEPT !.held = 0, !.demerits = d, !.demoted = given]
    BY <1>1 DEF Terminated, Session
<1>4. given \in BOOLEAN
    BY <1>1 DEF Session
<1> HIDE DEF f, d, given
<1>5. <<>> \in Seq(1..n) /\ 0 \in 0..n
    BY EmptySeq
<1>6. t.held = 0 /\ t.demerits = d /\ t.demoted = given /\ t.comp = f.comp /\ t.shown = f.shown
      /\ t.docs = f.docs /\ t.crashed = f.crashed /\ t.ok = f.ok
    BY <1>1, <1>3 DEF Session
<1>7. t \in Session(n)
    BY <1>1, <1>2, <1>3, <1>4, <1>5 DEF Session
<1> QED BY <1>1, <1>6, <1>7

-----------------------------------------------------------------------------
\* There is a composition in the document to write to, or nothing was done.
LEMMA Ensured ==
    ASSUME NEW n \in Nat, NEW s \in Session(n), NEW c \in Ctxs, s.comp \in {NoCtx, c}, s.ok,
           s.comp = NoCtx => s.shown = <<>>, NEW call, NEW e, e = EnsureComposition(s, c, call)
    PROVE  /\ e \in Session(n) /\ e.docs = s.docs /\ e.held = s.held /\ e.demoted = s.demoted
           /\ e.crashed = s.crashed /\ (e.ok => e.comp = c)
           /\ e.comp \in {NoCtx, c} /\ (e.comp = NoCtx \/ s.comp = NoCtx => e.shown = <<>>)
<1> DEFINE refused == call \in {"range", "start"} /\ (s.comp = NoCtx \/ call = "range")
<1>1. CASE refused
    <2>1. e = [s EXCEPT !.ok = FALSE]
        BY <1>1 DEF EnsureComposition, Failed
    <2> QED BY <2>1 DEF Session
<1>2. CASE ~refused /\ s.comp # NoCtx
    <2>1. e = [s EXCEPT !.updated = TRUE, !.demerits = 0]
        BY <1>2 DEF EnsureComposition
    <2>2. e \in Session(n)
        <3>1. [s EXCEPT !.updated = TRUE] \in Session(n)
            BY DEF Session
        <3>2. \A b \in Session(n) : [b EXCEPT !.demerits = 0] \in Session(n)
            BY DEF Session
        <3> QED BY <2>1, <3>1, <3>2 DEF Session
    <2>3. e.comp = s.comp /\ e.docs = s.docs /\ e.held = s.held /\ e.demoted = s.demoted
          /\ e.crashed = s.crashed
        BY <2>1 DEF Session
    <2> QED BY <1>2, <2>2, <2>3
<1>3. CASE ~refused /\ s.comp = NoCtx
    <2>1. e = [s EXCEPT !.comp = c, !.shown = <<>>, !.updated = FALSE]
        BY <1>3 DEF EnsureComposition
    <2>2. <<>> \in Seq(1..n)
        BY EmptySeq
    <2> QED BY <1>3, <2>1, <2>2 DEF Session
<1> QED BY <1>1, <1>2, <1>3

\* What is pushed out of a text, and what stays.
LEMMA FirstAndRest ==
    ASSUME NEW n \in Nat, NEW u \in 1..n, NEW rest \in Seq(1..n)
    PROVE  Head(<<u>> \o rest) = u /\ Tail(<<u>> \o rest) = rest
<1>1. <<u>> \o rest \in Seq(1..n) /\ Len(<<u>> \o rest) = 1 + Len(rest)
      /\ \A i \in 1 .. 1 + Len(rest) : (<<u>> \o rest)[i] = IF i <= 1 THEN u ELSE rest[i - 1]
    BY ConcatProperties
<1>2. Len(rest) \in Nat /\ DOMAIN rest = 1 .. Len(rest)
    BY LenProperties
<1>3. Tail(<<u>> \o rest) = [i \in 1 .. Len(rest) |-> (<<u>> \o rest)[i + 1]]
    BY <1>1, <1>2
<1>4. Tail(<<u>> \o rest) = [i \in 1 .. Len(rest) |-> rest[i]]
    BY <1>1, <1>2, <1>3
<1>5. rest = [i \in 1 .. Len(rest) |-> rest[i]]
    BY <1>2
<1>6. Head(<<u>> \o rest) = u
    BY <1>1, <1>2
<1> QED BY <1>4, <1>5, <1>6

\* The confirmed syllable leaves the composition for the document.
LEMMA Pushed ==
    ASSUME InlineCompAssumption, NEW n \in Nat, NEW s \in Session(n), NEW c \in Ctxs, s.comp = c, s.ok,
           NEW u \in 1..n, NEW rest \in Seq(1..n), Head(s.shown) = u, Tail(s.shown) = rest,
           NEW call, NEW t, t = CommitPrefix(s, call)
    PROVE  /\ t \in Session(n) /\ t.comp = c /\ t.held = s.held /\ t.demoted = s.demoted
           /\ t.crashed = s.crashed
           /\ t.ok => t.docs = Grown(s, c, <<u>>) /\ t.shown = rest
           /\ ~t.ok => t.docs = s.docs
<1>0. c # NoCtx
    BY DEF InlineCompAssumption
<1>1. CASE call = "shift"
    <2>1. t = [s EXCEPT !.ok = FALSE]
        BY <1>0, <1>1 DEF CommitPrefix, Failed
    <2> QED BY <2>1 DEF Session
<1>2. CASE call # "shift"
    <2>2. s.docs \in [Ctxs -> Seq(1..n)]
        BY DEF Session
    <2>3. [s.docs EXCEPT ![c] = Append(@, u)] = Grown(s, c, <<u>>)
        <3>1. s.docs[c] \in Seq(1..n)
            BY <2>2
        <3>2. Append(s.docs[c], u) = s.docs[c] \o <<u>>
            BY <3>1, AppendIsConcat
        <3> QED BY <3>2 DEF Grown
    <2>4. t = [s EXCEPT !.docs = [s.docs EXCEPT ![c] = Append(@, u)], !.shown = rest]
        BY <1>0, <1>2 DEF CommitPrefix, Session
    <2>5. Grown(s, c, <<u>>) \in [Ctxs -> Seq(1..n)]
        <3>1. <<u>> \in Seq(1..n)
            OBVIOUS
        <3> QED BY <3>1, GrownType
    <2>6. t = [s EXCEPT !.docs = Grown(s, c, <<u>>), !.shown = rest]
        BY <2>3, <2>4
    <2> QED BY <2>5, <2>6 DEF Session
<1> QED BY <1>1, <1>2

-----------------------------------------------------------------------------
\* COMP_OP_UPDATE with a text: all of it is in the document and its composition, or the
\* document is as it was.
LEMMA Updated ==
    ASSUME InlineCompAssumption, NEW n \in Nat, NEW s \in Session(n), NEW c \in Ctxs,
           s.comp \in {NoCtx, c}, s.comp = NoCtx => s.shown = <<>>, s.ok, ~s.crashed,
           NEW r \in [commit : 0..n, preedit : 0..n], r.commit # 0 \/ r.preedit # 0, s.held = r.preedit,
           NEW call, NEW t, t = UpdateWork(s, c, r, call)
    PROVE  /\ t \in Session(n) /\ t.comp \in {NoCtx, c} /\ (t.comp = NoCtx => t.shown = <<>>)
           /\ t.ok => \/ /\ t.comp = NoCtx /\ t.held = 0
                         /\ t.docs = Grown(s, c, Drawn(r.commit) \o Drawn(r.preedit))
                      \/ /\ t.comp = c /\ t.held = r.preedit /\ t.held # 0 /\ t.shown = <<t.held>>
                         /\ t.docs = Grown(s, c, Drawn(r.commit)) /\ t.demoted = s.demoted
           /\ ~t.ok => t.docs = s.docs /\ t.held = s.held /\ ~t.crashed
<1>0. c # NoCtx
    BY DEF InlineCompAssumption
<1> DEFINE put == Drawn(r.commit) \o Drawn(r.preedit)
           made == s.comp = NoCtx
           ensured == EnsureComposition(s, c, call)
           set == SetText(ensured, c, put, made, call)
           pushed == CommitPrefix(set, call)
<1>1. /\ Drawn(r.commit) \in Seq(1..n) /\ Drawn(r.preedit) \in Seq(1..n) /\ <<>> \in Seq(1..n)
      /\ put \in Seq(1..n)
    BY DrawnType, ConcatProperties, EmptySeq
<1>2. put # <<>>
    <2>1. Drawn(r.commit) # <<>> \/ Drawn(r.preedit) # <<>>
        BY DEF Drawn
    <2> QED BY <1>1, <2>1, ConcatEqualIffEmpty
<1>3. /\ ensured \in Session(n) /\ ensured.docs = s.docs /\ ensured.held = s.held
      /\ ensured.demoted = s.demoted /\ ensured.crashed = s.crashed /\ (ensured.ok => ensured.comp = c)
      /\ ensured.comp \in {NoCtx, c} /\ (ensured.comp = NoCtx \/ s.comp = NoCtx => ensured.shown = <<>>)
    BY Ensured
<1>4. t = IF ~ensured.ok THEN ensured
          ELSE IF ~set.ok \/ r.commit = 0 THEN set
          ELSE IF pushed.ok /\ r.preedit = 0 /\ ~pushed.crashed THEN ForgetComposition(pushed)
          ELSE pushed
    BY <1>2 DEF UpdateWork
<1>5. \A x : Grown(ensured, c, x) = Grown(s, c, x)
    BY <1>3 DEF Grown
<1>6. ensured.ok =>
        /\ set \in Session(n) /\ set.comp \in {NoCtx, c} /\ (set.comp = NoCtx => set.shown = <<>>)
        /\ set.crashed = FALSE
        /\ set.ok => \/ set.comp = NoCtx /\ set.docs = Grown(s, c, put) /\ set.held = 0
                     \/ /\ set.comp = c /\ set.docs = s.docs /\ set.held = s.held
                        /\ set.shown = put /\ set.demoted = s.demoted
        /\ ~set.ok => set.docs = s.docs /\ set.held = s.held
    <2> SUFFICES ASSUME ensured.ok
                 PROVE  /\ set \in Session(n) /\ set.comp \in {NoCtx, c}
                        /\ set.comp = NoCtx => set.shown = <<>>
                        /\ set.crashed = ensured.crashed
                        /\ set.ok =>
                             \/ set.comp = NoCtx /\ set.docs = Grown(ensured, c, put) /\ set.held = 0
                             \/ /\ set.comp = c /\ set.docs = ensured.docs /\ set.held = ensured.held
                                /\ set.shown = put /\ set.demoted = ensured.demoted
                        /\ ~set.ok => set.docs = ensured.docs /\ set.held = ensured.held
        <3>1. s.crashed = FALSE
            BY DEF Session
        <3> HIDE DEF ensured, set, put
        <3> QED BY <1>3, <1>5, <3>1
    <2>1. /\ made \in BOOLEAN /\ (made => ensured.shown = <<>>)
          /\ ensured \in Session(n) /\ ensured.comp = c /\ put \in Seq(1..n)
        BY <1>1, <1>3
    <2>2. set = SetText(ensured, c, put, made, call)
        OBVIOUS
    <2> HIDE DEF ensured, put, made, set
    <2> DEFINE shows == [ensured EXCEPT !.shown = put]
    <2>3. /\ shows \in Session(n) /\ shows.comp = c /\ shows.docs = ensured.docs
          /\ shows.held = ensured.held /\ shows.demoted = ensured.demoted
          /\ shows.crashed = ensured.crashed /\ shows.ok /\ shows.shown = put
        BY <2>1 DEF Session
    <2> HIDE DEF shows
    <2>4. CASE call = "setText" /\ made
        <3> DEFINE f == ForgetComposition(ensured)
        <3>1. /\ f \in Session(n) /\ f.comp = NoCtx /\ f.shown = <<>> /\ f.docs = Grown(ensured, c, <<>>)
              /\ f.held = ensured.held /\ f.crashed = ensured.crashed
            BY <1>0, <2>1, <2>4, Forgotten
        <3>2. set = [f EXCEPT !.ok = FALSE]
            BY <2>2, <2>4 DEF SetText, Failed
        <3>3. Grown(ensured, c, <<>>) = ensured.docs
            BY <2>1, GrownType, EmptySeq
        <3> HIDE DEF f
        <3> QED BY <3>1, <3>2, <3>3 DEF Session
    <2>5. CASE call = "setText" /\ ~made
        <3>1. set = [ensured EXCEPT !.ok = FALSE]
            BY <2>2, <2>5 DEF SetText, Failed
        <3> QED BY <1>0, <2>1, <3>1 DEF Session
    <2>6. CASE call = "select"
        <3>1. set = [shows EXCEPT !.ok = FALSE]
            BY <2>1, <2>2, <2>6 DEF SetText, Failed, shows
        <3> QED BY <1>0, <2>3, <3>1 DEF Session
    <2>7. CASE call = "terminated"
        <3>1. set = Terminated(shows)
            BY <2>1, <2>2, <2>7 DEF SetText, shows
        <3>2. Grown(shows, c, put) = Grown(ensured, c, put)
            BY <2>3 DEF Grown
        <3>3. /\ set \in Session(n) /\ set.comp = NoCtx /\ set.shown = <<>>
              /\ set.docs = Grown(shows, shows.comp, shows.shown)
              /\ set.held = 0 /\ set.crashed = shows.crashed /\ set.ok = shows.ok
            <4>1. shows.comp # NoCtx
                BY <2>3, <1>0 DEF InlineCompAssumption
            <4>2. n \in Nat /\ shows \in Session(n)
                BY <2>3
            <4> QED BY <1>0, <3>1, <4>1, <4>2, TerminatedByHost
        <3> QED BY <2>3, <3>2, <3>3
    <2>8. CASE call \notin {"setText", "select", "terminated"}
        <3>1. set = shows
            BY <2>1, <2>2, <2>8 DEF SetText, shows
        <3> QED BY <1>0, <2>3, <3>1
    <2> QED BY <2>4, <2>5, <2>6, <2>7, <2>8
<1> HIDE DEF ensured, set
<1>7. CASE ~ensured.ok
    BY <1>3, <1>4, <1>7
<1>8. CASE ensured.ok /\ ~set.ok
    BY <1>4, <1>6, <1>8
<1>9. CASE ensured.ok /\ set.ok /\ r.commit = 0
    <2>1. Drawn(r.commit) = <<>> /\ r.preedit # 0 /\ Drawn(r.preedit) = <<r.preedit>>
        BY <1>9 DEF Drawn
    <2>2. put = <<r.preedit>>
        BY <1>1, <2>1, ConcatEmptySeq
    <2>3. Grown(s, c, Drawn(r.commit)) = s.docs
        BY <1>1, <2>1, GrownType
    <2>4. t = set
        BY <1>4, <1>9
    <2> QED BY <1>6, <1>9, <2>1, <2>2, <2>3, <2>4
<1>10. CASE ensured.ok /\ set.ok /\ r.commit # 0 /\ set.comp = NoCtx
    <2>1. pushed = [set EXCEPT !.crashed = TRUE]
        BY <1>10 DEF CommitPrefix
    <2>2. /\ pushed \in Session(n) /\ pushed.comp = NoCtx /\ pushed.shown = <<>> /\ pushed.held = 0
          /\ pushed.crashed /\ pushed.docs = Grown(s, c, put) /\ pushed.ok = set.ok
        BY <1>0, <1>6, <1>10, <2>1 DEF Session
    <2>3. t = pushed
        BY <1>4, <1>10, <2>2
    <2> HIDE DEF pushed
    <2> QED BY <1>10, <2>2, <2>3
<1>11. CASE ensured.ok /\ set.ok /\ r.commit # 0 /\ set.comp # NoCtx
    <2>1. /\ set \in Session(n) /\ set.comp = c /\ set.docs = s.docs /\ set.held = s.held
          /\ set.shown = put /\ set.demoted = s.demoted /\ set.crashed = FALSE
        BY <1>6, <1>11
    <2>2. put = <<r.commit>> \o Drawn(r.preedit) /\ r.commit \in 1..n /\ Drawn(r.commit) = <<r.commit>>
        BY <1>11 DEF Drawn
    <2>3. Grown(set, c, <<r.commit>>) = Grown(s, c, Drawn(r.commit))
        BY <2>1, <2>2 DEF Grown
    <2> DEFINE rest == Drawn(r.preedit)
    <2>4. /\ pushed \in Session(n) /\ pushed.comp = c /\ pushed.held = s.held
          /\ pushed.demoted = s.demoted /\ pushed.crashed = FALSE
          /\ pushed.ok => pushed.docs = Grown(s, c, Drawn(r.commit)) /\ pushed.shown = rest
          /\ ~pushed.ok => pushed.docs = s.docs
        <3>1. rest \in Seq(1..n) /\ Head(set.shown) = r.commit /\ Tail(set.shown) = rest
            <4>1. rest \in Seq(1..n) /\ r.commit \in 1..n /\ set.shown = <<r.commit>> \o rest
                BY <1>1, <2>1, <2>2
            <4> HIDE DEF rest, set
            <4>2. Head(<<r.commit>> \o rest) = r.commit /\ Tail(<<r.commit>> \o rest) = rest
                BY <4>1, FirstAndRest
            <4> QED BY <4>1, <4>2
        <3>2. /\ pushed \in Session(n) /\ pushed.comp = c /\ pushed.held = set.held
              /\ pushed.demoted = set.demoted /\ pushed.crashed = set.crashed
              /\ pushed.ok => pushed.docs = Grown(set, c, <<r.commit>>) /\ pushed.shown = rest
              /\ ~pushed.ok => pushed.docs = set.docs
            <4>1. pushed = CommitPrefix(set, call)
                OBVIOUS
            <4> HIDE DEF rest, pushed, put
            <4>2. set \in Session(n) /\ set.comp = c /\ set.ok /\ r.commit \in 1..n
                BY <1>11, <2>1, <2>2
            <4>3. InlineCompAssumption /\ n \in Nat /\ c \in Ctxs
                OBVIOUS
            <4> QED BY <3>1, <4>1, <4>2, <4>3, Pushed
        <3> HIDE DEF pushed, rest
        <3> QED BY <2>1, <2>3, <3>2
    <2> HIDE DEF pushed
    <2>5. CASE pushed.ok /\ r.preedit = 0
        <3>1. t = ForgetComposition(pushed)
            BY <1>4, <1>11, <2>4, <2>5
        <3>2. rest = <<>>
            BY <2>5 DEF Drawn
        <3>3. Grown(pushed, c, <<>>) = pushed.docs
            BY <2>4, <1>1, GrownType
        <3>4. /\ t \in Session(n) /\ t.comp = NoCtx /\ t.shown = <<>>
              /\ t.docs = Grown(pushed, pushed.comp, pushed.shown)
              /\ t.held = pushed.held /\ t.ok = pushed.ok
            BY <1>0, <2>4, <3>1, Forgotten
        <3>5. put = Drawn(r.commit)
            BY <1>1, <3>2, ConcatEmptySeq
        <3>6. t.docs = Grown(s, c, put) /\ t.held = 0
            <4> HIDE DEF rest, put
            <4> QED BY <2>4, <2>5, <3>2, <3>3, <3>4, <3>5
        <3> QED BY <2>5, <3>4, <3>6
    <2>6. CASE pushed.ok /\ r.preedit # 0
        <3>1. t = pushed
            BY <1>4, <1>11, <2>6
        <3>2. rest = <<r.preedit>>
            BY <2>6 DEF Drawn
        <3> QED BY <1>0, <2>4, <2>6, <3>1, <3>2
    <2>7. CASE ~pushed.ok
        <3>1. t = pushed
            BY <1>4, <1>11, <2>7
        <3> QED BY <1>0, <2>4, <2>7, <3>1
    <2> QED BY <2>5, <2>6, <2>7
<1> QED BY <1>7, <1>8, <1>9, <1>10, <1>11

\* JamoComp_Apply with a text: what failed left nothing behind.
LEMMA AppliedText ==
    ASSUME InlineCompAssumption, NEW n \in Nat, NEW s \in Session(n), NEW c \in Ctxs,
           s.comp \in {NoCtx, c}, s.comp = NoCtx => s.shown = <<>>, s.ok, ~s.crashed,
           NEW r \in [commit : 0..n, preedit : 0..n], r.commit # 0 \/ r.preedit # 0, s.held = r.preedit,
           NEW call, NEW t, t = JamoComp_Apply(s, c, r, call)
    PROVE  /\ t \in Session(n) /\ (t.comp = NoCtx => t.shown = <<>>)
           /\ t.ok => \/ /\ t.comp = NoCtx /\ t.held = 0
                         /\ t.docs = Grown(s, c, Drawn(r.commit) \o Drawn(r.preedit))
                      \/ /\ t.comp = c /\ t.held = r.preedit /\ t.held # 0 /\ t.shown = <<t.held>>
                         /\ t.docs = Grown(s, c, Drawn(r.commit)) /\ t.demoted = s.demoted
           /\ ~t.ok => t.comp = NoCtx /\ t.docs = s.docs /\ t.held = s.held
<1> DEFINE done == IF call = "request" THEN Failed(s) ELSE UpdateWork(s, c, r, call)
<1>1. /\ done \in Session(n) /\ done.comp \in {NoCtx, c} /\ (done.comp = NoCtx => done.shown = <<>>)
      /\ done.ok => \/ /\ done.comp = NoCtx /\ done.held = 0
                       /\ done.docs = Grown(s, c, Drawn(r.commit) \o Drawn(r.preedit))
                    \/ /\ done.comp = c /\ done.held = r.preedit /\ done.held # 0
                       /\ done.shown = <<done.held>>
                       /\ done.docs = Grown(s, c, Drawn(r.commit)) /\ done.demoted = s.demoted
      /\ ~done.ok => done.docs = s.docs /\ done.held = s.held /\ ~done.crashed
    <2>1. CASE call = "request"
        <3>1. done = [s EXCEPT !.ok = FALSE]
            BY <2>1 DEF Failed
        <3>2. /\ done \in Session(n) /\ done.comp = s.comp /\ done.shown = s.shown /\ ~done.ok
              /\ done.docs = s.docs /\ done.held = s.held /\ done.crashed = s.crashed
            BY <3>1 DEF Session
        <3> QED BY <3>2
    <2>2. CASE call # "request"
        BY <2>2, Updated
    <2> QED BY <2>1, <2>2
<1>2. CASE done.ok
    <2>1. t = done
        BY <1>2 DEF JamoComp_Apply
    <2> HIDE DEF done
    <2> QED BY <1>1, <1>2, <2>1
<1>3. CASE ~done.ok
    <2> DEFINE k == InKey(done, "cancel", "none")
    <2>1. t = [k EXCEPT !.ok = FALSE, !.demerits = DemoteLimit, !.demoted = TRUE]
        BY <1>3 DEF JamoComp_Apply
    <2> HIDE DEF done
    <2>2. /\ k \in Session(n) /\ k.comp = NoCtx /\ k.shown = <<>> /\ k.held = done.held
          /\ k.docs = done.docs
        BY <1>1, EndedInKey
    <2> HIDE DEF k
    <2>3. DemoteLimit \in Nat
        BY DEF InlineCompAssumption
    <2>4. /\ t \in Session(n) /\ t.comp = k.comp /\ t.shown = k.shown /\ t.held = k.held
          /\ t.docs = k.docs /\ ~t.ok
        BY <2>1, <2>2, <2>3 DEF Session
    <2> QED BY <1>1, <1>3, <2>2, <2>4
<1> QED BY <1>2, <1>3

\* JamoComp_Apply without one: the composition is gone, its text with it or not.
LEMMA AppliedNothing ==
    ASSUME InlineCompAssumption, NEW n \in Nat, NEW s \in Session(n), NEW c \in Ctxs,
           s.comp \in {NoCtx, c}, s.comp = NoCtx => s.shown = <<>>, s.ok, s.held = 0,
           NEW r \in [commit : 0..n, preedit : 0..n], r.commit = 0, r.preedit = 0,
           NEW call, NEW t, t = JamoComp_Apply(s, c, r, call)
    PROVE  /\ t \in Session(n) /\ t.comp = NoCtx /\ t.shown = <<>> /\ t.held = 0
           /\ t.docs = s.docs \/ (s.comp = c /\ t.docs = Grown(s, c, s.shown))
<1> DEFINE done == IF call = "request" THEN Failed(s) ELSE UpdateWork(s, c, r, call)
<1>1. /\ done \in Session(n) /\ (done.comp = NoCtx => done.shown = <<>>) /\ done.held = 0
      /\ done.ok => done.comp = NoCtx
      /\ done.docs = s.docs \/ (s.comp = c /\ done.docs = Grown(s, c, s.shown))
    <2>1. CASE call = "request"
        <3>1. done = [s EXCEPT !.ok = FALSE]
            BY <2>1 DEF Failed
        <3>2. /\ done \in Session(n) /\ done.comp = s.comp /\ done.shown = s.shown /\ ~done.ok
              /\ done.docs = s.docs /\ done.held = s.held
            BY <3>1 DEF Session
        <3> QED BY <3>2
    <2>2. CASE call # "request"
        <3>1. Drawn(r.commit) \o Drawn(r.preedit) = <<>>
            <4>1. Drawn(r.commit) = <<>> /\ Drawn(r.preedit) = <<>>
                BY DEF Drawn
            <4> QED BY <4>1, EmptySeq, ConcatEmptySeq
        <3>2. done = EndWork(s, "cancel", call)
            BY <2>2, <3>1 DEF UpdateWork
        <3>3. CASE s.comp = NoCtx
            BY <3>2, <3>3 DEF EndWork
        <3>4. CASE s.comp # NoCtx
            BY <3>2, <3>4, EndedWork
        <3> QED BY <3>3, <3>4
    <2> QED BY <2>1, <2>2
<1>2. CASE done.ok
    <2>1. t = done
        BY <1>2 DEF JamoComp_Apply
    <2> HIDE DEF done
    <2> QED BY <1>1, <1>2, <2>1
<1>3. CASE ~done.ok
    <2> DEFINE k == InKey(done, "cancel", "none")
    <2>1. t = [k EXCEPT !.ok = FALSE, !.demerits = DemoteLimit, !.demoted = TRUE]
        BY <1>3 DEF JamoComp_Apply
    <2> HIDE DEF done
    <2>2. /\ k \in Session(n) /\ k.comp = NoCtx /\ k.shown = <<>> /\ k.held = done.held
          /\ k.docs = done.docs
        BY <1>1, EndedInKey
    <2> HIDE DEF k
    <2>3. DemoteLimit \in Nat
        BY DEF InlineCompAssumption
    <2>4. /\ t \in Session(n) /\ t.comp = k.comp /\ t.shown = k.shown /\ t.held = k.held
          /\ t.docs = k.docs
        BY <2>1, <2>2, <2>3 DEF Session
    <2> QED BY <1>1, <2>2, <2>4
<1> QED BY <1>2, <1>3

-----------------------------------------------------------------------------
\* The text of the documents after a session, when the keys are in document f.
Seen(s, f) ==
    [c \in Ctxs |-> s.docs[c] \o (IF s.comp = c THEN s.shown ELSE <<>>)
                              \o (IF s.comp = NoCtx /\ f = c THEN Drawn(s.held) ELSE <<>>)]

\* The syllable of the automaton is the composition's in document f, if there is one.
Standing(s, f) ==
    /\ s.comp = NoCtx => s.shown = <<>>
    /\ s.comp # NoCtx => /\ s.comp = f /\ f \in InlineCtxs /\ ~s.demoted
                         /\ s.held # 0 /\ s.shown = <<s.held>>

LEMMA SeenStanding ==
    ASSUME InlineCompAssumption, NEW n \in Nat, NEW s \in Session(n), NEW f \in Ctxs, Standing(s, f)
    PROVE  Seen(s, f) = Grown(s, f, Drawn(s.held))
<1>0. NoCtx \notin Ctxs
    BY DEF InlineCompAssumption
<1>1. s.docs \in [Ctxs -> Seq(1..n)] /\ s.held \in 0..n /\ Drawn(s.held) \in Seq(1..n)
    BY DrawnType DEF Session
<1>2. \A x \in Seq(1..n) : x \o <<>> = x
    BY ConcatEmptySeq
<1>3. \A c \in Ctxs : s.docs[c] \in Seq(1..n) /\ s.docs[c] \o Drawn(s.held) \in Seq(1..n)
    BY <1>1, ConcatProperties
<1>4. CASE s.comp = NoCtx
    <2>1. \A c \in Ctxs : Seen(s, f)[c] = IF c = f THEN s.docs[c] \o Drawn(s.held) ELSE s.docs[c]
        BY <1>0, <1>2, <1>3, <1>4 DEF Seen
    <2> QED BY <1>1, <2>1 DEF Seen, Grown
<1>5. CASE s.comp # NoCtx
    <2>1. s.comp = f /\ s.shown = Drawn(s.held)
        BY <1>5 DEF Standing, Drawn
    <2>2. \A c \in Ctxs : Seen(s, f)[c] = IF c = f THEN s.docs[c] \o Drawn(s.held) ELSE s.docs[c]
        BY <1>0, <1>2, <1>3, <2>1 DEF Seen
    <2> QED BY <1>1, <2>2 DEF Seen, Grown
<1> QED BY <1>4, <1>5

\* What has grown grows on.
LEMMA GrownTwice ==
    ASSUME NEW n \in Nat, NEW s \in Session(n), NEW t, NEW c \in Ctxs, NEW x \in Seq(1..n), NEW y \in Seq(1..n),
           t.docs = Grown(s, c, x)
    PROVE  Grown(t, c, y) = Grown(s, c, x \o y)
<1>1. s.docs \in [Ctxs -> Seq(1..n)] /\ s.docs[c] \in Seq(1..n)
    BY DEF Session
<1>2. (s.docs[c] \o x) \o y = s.docs[c] \o (x \o y)
    <2>1. PICK S, b : S = 1..n /\ b = s.docs[c]
        OBVIOUS
    <2>2. x \in Seq(S) /\ y \in Seq(S) /\ b \in Seq(S)
        BY <1>1, <2>1
    <2>3. (b \o x) \o y = b \o (x \o y)
        BY <2>2, ConcatAssociative
    <2> QED BY <2>1, <2>3
<1>3. t.docs = [s.docs EXCEPT ![c] = s.docs[c] \o x]
    BY DEF Grown
<1>4. Grown(t, c, y) = [t.docs EXCEPT ![c] = (s.docs[c] \o x) \o y]
    BY <1>1, <1>3 DEF Grown
<1> QED BY <1>1, <1>2, <1>3, <1>4 DEF Grown

-----------------------------------------------------------------------------
(* A composition that no session waits for is of the document of the keys   *)
(* and shows the syllable of the automaton; while sessions wait, the         *)
(* automaton is empty.                                                       *)
InlineInv ==
    /\ focusCtx \in Ctxs /\ begun \in Nat /\ Here \in Session(begun) /\ queue \in Seq({"finalize"})
    /\ pComp = NoCtx => shown = <<>>
    /\ queue = <<>> => Standing(Here, focusCtx)
    /\ queue # <<>> => syllable = 0

LEMMA MoreBegun ==
    ASSUME NEW m \in Nat, NEW n \in Nat, m <= n, NEW s \in Session(m)
    PROVE  s \in Session(n)
<1>1. 1..m \subseteq 1..n /\ 0..m \subseteq 0..n
    OBVIOUS
<1>2. Seq(1..m) \subseteq Seq(1..n)
    BY <1>1, SeqMonotonic
<1>3. \A d \in [Ctxs -> Seq(1..m)] : d \in [Ctxs -> Seq(1..n)]
    BY <1>2
<1> QED BY <1>1, <1>2, <1>3 DEF Session

\* OutputResultSeq: what the key makes is in the text once, confirmed and composed, or the
\* text is as it was.
LEMMA Output ==
    ASSUME InlineCompAssumption, InlineInv, queue = <<>>, ~crashed, NEW n \in Nat, begun <= n,
           NEW r \in [commit : 0..n, preedit : 0..n], r.commit \in {0, syllable},
           r.commit # 0 \/ r.preedit # 0 \/ syllable # 0,
           NEW call, NEW t, t = OutputResultSeq(r, call)
    PROVE  /\ t \in Session(n) /\ Standing(t, focusCtx)
           /\ \/ Seen(t, focusCtx) = Grown(Here, focusCtx, Drawn(r.commit) \o Drawn(r.preedit))
              \/ Seen(t, focusCtx) = Grown(Here, focusCtx, Drawn(syllable))
<1>0. NoCtx \notin Ctxs /\ focusCtx \in Ctxs /\ Standing(Here, focusCtx)
    BY DEF InlineCompAssumption, InlineInv
<1> DEFINE s == [Here EXCEPT !.held = r.preedit]
           applied == JamoComp_Apply(s, focusCtx, r, call)
           tried == IF Standard THEN applied ELSE Failed(s)
           put == IF r.commit = 0 THEN tried.docs ELSE [tried.docs EXCEPT ![focusCtx] = Append(@, r.commit)]
<1>1. /\ Here \in Session(n) /\ Here.comp = pComp /\ Here.shown = shown /\ Here.held = syllable
      /\ Here.ok /\ Here.docs = docs /\ Here.crashed = crashed /\ Here.demoted = demoted
    BY MoreBegun DEF InlineInv, Here
<1>2. /\ s \in Session(n) /\ s.comp = pComp /\ s.shown = shown /\ s.held = r.preedit /\ s.ok
      /\ s.docs = docs /\ s.crashed = crashed /\ s.demoted = demoted
    BY <1>1 DEF Session
<1>3. Drawn(r.commit) \in Seq(1..n) /\ Drawn(r.preedit) \in Seq(1..n) /\ Drawn(syllable) \in Seq(1..n)
      /\ <<>> \in Seq(1..n)
    BY <1>1, DrawnType, EmptySeq DEF Session
<1>4. /\ pComp \in {NoCtx, focusCtx} /\ (pComp = NoCtx => shown = <<>>)
      /\ pComp # NoCtx => Standard /\ syllable # 0 /\ shown = <<syllable>>
    BY <1>0, <1>1 DEF Standing, Standard
<1>5. \A x : Grown(s, focusCtx, x) = Grown(Here, focusCtx, x)
    BY <1>1, <1>2 DEF Grown
<1>6. t = IF tried.ok THEN tried
          ELSE IF call = "insert" /\ r.commit # 0 THEN [tried EXCEPT !.held = syllable]
          ELSE [tried EXCEPT !.docs = put]
    BY DEF OutputResultSeq
<1> HIDE DEF s
<1>7. CASE r.commit # 0 \/ r.preedit # 0
    <2>1. /\ tried \in Session(n) /\ (tried.comp = NoCtx => tried.shown = <<>>)
          /\ tried.ok => \/ /\ tried.comp = NoCtx /\ tried.held = 0
                            /\ tried.docs = Grown(Here, focusCtx, Drawn(r.commit) \o Drawn(r.preedit))
                         \/ /\ tried.comp = focusCtx /\ tried.held = r.preedit /\ tried.held # 0
                            /\ tried.shown = <<tried.held>> /\ Standard
                            /\ tried.docs = Grown(Here, focusCtx, Drawn(r.commit))
                            /\ tried.demoted = demoted
          /\ ~tried.ok => tried.comp = NoCtx /\ tried.docs = docs /\ tried.held = r.preedit
        <3>1. CASE Standard
            <4>1. /\ applied \in Session(n) /\ (applied.comp = NoCtx => applied.shown = <<>>)
                  /\ applied.ok =>
                       \/ /\ applied.comp = NoCtx /\ applied.held = 0
                          /\ applied.docs = Grown(s, focusCtx, Drawn(r.commit) \o Drawn(r.preedit))
                       \/ /\ applied.comp = focusCtx /\ applied.held = r.preedit /\ applied.held # 0
                          /\ applied.shown = <<applied.held>>
                          /\ applied.docs = Grown(s, focusCtx, Drawn(r.commit)) /\ applied.demoted = s.demoted
                  /\ ~applied.ok => applied.comp = NoCtx /\ applied.docs = s.docs /\ applied.held = s.held
                <5>1. s.comp \in {NoCtx, focusCtx} /\ (s.comp = NoCtx => s.shown = <<>>) /\ ~s.crashed
                    BY <1>2, <1>4
                <5>2. applied = JamoComp_Apply(s, focusCtx, r, call) /\ focusCtx \in Ctxs
                    BY <1>0
                <5> HIDE DEF applied
                <5> QED BY <1>2, <1>7, <5>1, <5>2, AppliedText
            <4>2. tried = applied
                BY <3>1
            <4> HIDE DEF applied, tried
            <4> QED BY <1>2, <1>5, <3>1, <4>1, <4>2
        <3>2. CASE ~Standard
            <4>1. tried = [s EXCEPT !.ok = FALSE]
                BY <3>2 DEF Failed
            <4>2. /\ tried \in Session(n) /\ tried.comp = s.comp /\ tried.shown = s.shown /\ ~tried.ok
                  /\ tried.docs = s.docs /\ tried.held = s.held
                BY <1>2, <4>1 DEF Session
            <4> HIDE DEF tried
            <4> QED BY <1>2, <1>4, <3>2, <4>2
        <3> QED BY <3>1, <3>2
    <2> HIDE DEF tried
    <2>2. CASE tried.ok
        <3>1. t = tried
            BY <1>6, <2>2
        <3>2. Standing(t, focusCtx)
            BY <1>0, <2>1, <2>2, <3>1 DEF Standing, Standard
        <3>3. Seen(t, focusCtx) = Grown(t, focusCtx, Drawn(t.held))
            BY <1>0, <2>1, <3>1, <3>2, SeenStanding
        <3>4. CASE tried.comp = NoCtx
            <4>1. Drawn(t.held) = <<>>
                BY <1>0, <2>1, <2>2, <3>1, <3>4 DEF Drawn
            <4>2. Grown(t, focusCtx, <<>>) = t.docs
                BY <1>0, <1>3, <2>1, <3>1, GrownType
            <4> QED BY <1>0, <2>1, <2>2, <3>1, <3>2, <3>3, <3>4, <4>1, <4>2
        <3>5. CASE tried.comp # NoCtx
            <4>1. t.docs = Grown(Here, focusCtx, Drawn(r.commit)) /\ t.held = r.preedit
                BY <2>1, <2>2, <3>1, <3>5
            <4>2. Grown(t, focusCtx, Drawn(r.preedit)) = Grown(Here, focusCtx, Drawn(r.commit) \o Drawn(r.preedit))
                BY <1>0, <1>1, <1>3, <4>1, GrownTwice
            <4> QED BY <2>1, <3>1, <3>2, <3>3, <4>1, <4>2
        <3> QED BY <2>1, <3>1, <3>2, <3>4, <3>5
    <2>3. CASE ~tried.ok /\ call = "insert" /\ r.commit # 0
        <3>1. t = [tried EXCEPT !.held = syllable]
            BY <1>6, <2>3
        <3>2. /\ t \in Session(n) /\ t.comp = NoCtx /\ t.shown = <<>> /\ t.docs = docs /\ t.held = syllable
            BY <1>1, <2>1, <2>3, <3>1 DEF Session
        <3>3. Standing(t, focusCtx)
            BY <3>2 DEF Standing
        <3>4. Seen(t, focusCtx) = Grown(t, focusCtx, Drawn(syllable))
            BY <1>0, <3>2, <3>3, SeenStanding
        <3>5. Grown(t, focusCtx, Drawn(syllable)) = Grown(Here, focusCtx, Drawn(syllable))
            BY <1>1, <3>2 DEF Grown
        <3> QED BY <3>2, <3>3, <3>4, <3>5
    <2>4. CASE ~tried.ok /\ ~(call = "insert" /\ r.commit # 0)
        <3>1. t = [tried EXCEPT !.docs = put]
            BY <1>6, <2>4
        <3>2. put = Grown(Here, focusCtx, Drawn(r.commit))
            <4>1. CASE r.commit = 0
                BY <1>0, <1>1, <1>3, <2>1, <2>4, <4>1, GrownType DEF Drawn
            <4>2. CASE r.commit # 0
                <5>1. docs[focusCtx] \in Seq(1..n) /\ r.commit \in 1..n
                    BY <1>0, <1>1, <4>2 DEF Session
                <5>2. Append(docs[focusCtx], r.commit) = docs[focusCtx] \o <<r.commit>>
                    BY <5>1, AppendIsConcat
                <5> QED BY <1>1, <2>1, <2>4, <4>2, <5>2 DEF Grown, Drawn
            <4> QED BY <4>1, <4>2
        <3>3. put \in [Ctxs -> Seq(1..n)]
            <4> HIDE DEF put
            <4> QED BY <1>0, <1>1, <1>3, <3>2, GrownType
        <3> HIDE DEF put
        <3>4. /\ t \in Session(n) /\ t.comp = NoCtx /\ t.shown = <<>> /\ t.docs = put /\ t.held = r.preedit
            BY <2>1, <2>4, <3>1, <3>3 DEF Session
        <3>5. Standing(t, focusCtx)
            BY <3>4 DEF Standing
        <3>6. Seen(t, focusCtx) = Grown(t, focusCtx, Drawn(r.preedit))
            BY <1>0, <3>4, <3>5, SeenStanding
        <3>7. Grown(t, focusCtx, Drawn(r.preedit)) = Grown(Here, focusCtx, Drawn(r.commit) \o Drawn(r.preedit))
            BY <1>0, <1>1, <1>3, <3>2, <3>4, GrownTwice
        <3> QED BY <3>4, <3>5, <3>6, <3>7
    <2> QED BY <2>2, <2>3, <2>4
<1>8. CASE r.commit = 0 /\ r.preedit = 0
    <2>1. /\ tried \in Session(n) /\ tried.comp = NoCtx /\ tried.shown = <<>> /\ tried.held = 0
          /\ tried.docs = docs \/ (pComp = focusCtx /\ tried.docs = Grown(Here, focusCtx, shown))
        <3>1. CASE Standard
            <4>1. /\ applied \in Session(n) /\ applied.comp = NoCtx /\ applied.shown = <<>>
                  /\ applied.held = 0
                  /\ applied.docs = s.docs \/ (s.comp = focusCtx /\ applied.docs = Grown(s, focusCtx, s.shown))
                <5>1. s.comp \in {NoCtx, focusCtx} /\ (s.comp = NoCtx => s.shown = <<>>) /\ s.held = 0
                    BY <1>2, <1>4, <1>8
                <5>2. applied = JamoComp_Apply(s, focusCtx, r, call) /\ focusCtx \in Ctxs
                    BY <1>0
                <5> HIDE DEF applied
                <5> QED BY <1>2, <1>8, <5>1, <5>2, AppliedNothing
            <4>2. tried = applied
                BY <3>1
            <4> HIDE DEF applied, tried
            <4> QED BY <1>2, <1>5, <4>1, <4>2
        <3>2. CASE ~Standard
            <4>1. tried = [s EXCEPT !.ok = FALSE]
                BY <3>2 DEF Failed
            <4>2. /\ tried \in Session(n) /\ tried.comp = s.comp /\ tried.shown = s.shown
                  /\ tried.docs = s.docs /\ tried.held = s.held
                BY <1>2, <4>1 DEF Session
            <4> HIDE DEF tried
            <4> QED BY <1>2, <1>4, <1>8, <3>2, <4>2
        <3> QED BY <3>1, <3>2
    <2>2. /\ t \in Session(n) /\ t.comp = NoCtx /\ t.shown = <<>> /\ t.held = 0 /\ t.docs = tried.docs
        <3>1. t = tried \/ t = [tried EXCEPT !.docs = tried.docs]
            BY <1>6, <1>8
        <3> HIDE DEF tried
        <3> QED BY <2>1, <3>1 DEF Session
    <2> HIDE DEF tried
    <2>3. Standing(t, focusCtx)
        BY <2>2 DEF Standing
    <2>4. Drawn(t.held) = <<>>
        BY <2>2 DEF Drawn
    <2>5. Seen(t, focusCtx) = t.docs
        <3>1. Seen(t, focusCtx) = Grown(t, focusCtx, Drawn(t.held))
            BY <1>0, <2>2, <2>3, SeenStanding
        <3> QED BY <1>0, <1>3, <2>2, <2>4, <3>1, GrownType
    <2>6. CASE tried.docs = docs
        <3>1. Drawn(r.commit) \o Drawn(r.preedit) = <<>>
            BY <1>3, <1>8, ConcatEmptySeq DEF Drawn
        <3>2. Grown(Here, focusCtx, <<>>) = docs
            BY <1>0, <1>1, <1>3, GrownType
        <3> QED BY <2>2, <2>3, <2>5, <2>6, <3>1, <3>2
    <2>7. CASE pComp = focusCtx /\ tried.docs = Grown(Here, focusCtx, shown)
        <3>1. shown = Drawn(syllable)
            BY <1>0, <1>4, <2>7 DEF Drawn
        <3> QED BY <2>2, <2>3, <2>5, <2>7, <3>1
    <2> QED BY <2>1, <2>6, <2>7
<1> QED BY <1>7, <1>8

-----------------------------------------------------------------------------
\* A session that leaves no composition and an empty automaton shows the documents.
LEMMA SeenIdle ==
    ASSUME InlineCompAssumption, NEW n \in Nat, NEW s \in Session(n), NEW f \in Ctxs,
           s.comp = NoCtx, s.shown = <<>>, s.held = 0
    PROVE  Standing(s, f) /\ Seen(s, f) = s.docs
<1>1. Standing(s, f)
    BY DEF Standing
<1>2. Seen(s, f) = Grown(s, f, Drawn(s.held))
    BY <1>1, SeenStanding
<1>3. Drawn(s.held) = <<>>
    BY DEF Drawn
<1>4. Grown(s, f, <<>>) = s.docs
    BY GrownType, EmptySeq
<1> QED BY <1>1, <1>2, <1>3, <1>4

\* A composition is seen where it stands, whatever document the keys are in.
LEMMA SeenShown ==
    ASSUME InlineCompAssumption, NEW n \in Nat, NEW s \in Session(n), NEW f, s.comp # NoCtx
    PROVE  Seen(s, f) = Grown(s, s.comp, s.shown)
<1>1. s.docs \in [Ctxs -> Seq(1..n)] /\ s.shown \in Seq(1..n) /\ s.comp \in Ctxs
    BY DEF Session
<1>2. \A x \in Seq(1..n) : x \o <<>> = x
    BY ConcatEmptySeq
<1>3. \A c \in Ctxs : s.docs[c] \in Seq(1..n) /\ s.docs[c] \o s.shown \in Seq(1..n)
    BY <1>1, ConcatProperties
<1>4. \A c \in Ctxs : Seen(s, f)[c] = IF c = s.comp THEN s.docs[c] \o s.shown ELSE s.docs[c]
    BY <1>1, <1>2, <1>3 DEF Seen
<1> QED BY <1>1, <1>4 DEF Seen, Grown

\* What the state holds is what the session left.
LEMMA StateAfter ==
    ASSUME NEW n \in Nat, NEW s \in Session(n), Becomes(s), begun' = n, focusCtx' \in Ctxs,
           queue' \in Seq({"finalize"}), s.comp = NoCtx => s.shown = <<>>,
           queue' = <<>> => Standing(s, focusCtx'), queue' # <<>> => s.held = 0
    PROVE  InlineInv' /\ Text' = Seen(s, focusCtx')
<1>1. Here' = [comp |-> s.comp, shown |-> s.shown, updated |-> s.updated, demerits |-> s.demerits,
               demoted |-> s.demoted, docs |-> s.docs, left |-> s.left, held |-> s.held,
               crashed |-> s.crashed, ok |-> TRUE]
    BY DEF Becomes, Here
<1>2. /\ Here' \in Session(n) /\ Here'.comp = s.comp /\ Here'.shown = s.shown /\ Here'.held = s.held
      /\ Here'.demoted = s.demoted /\ Here'.docs = s.docs
    BY <1>1 DEF Session
<1>3. pComp' = s.comp /\ shown' = s.shown /\ syllable' = s.held /\ docs' = s.docs
    BY DEF Becomes
<1>4. Text' = Seen(s, focusCtx')
    BY <1>3 DEF Text, Seen
<1>5. Standing(Here', focusCtx') <=> Standing(s, focusCtx')
    BY <1>2 DEF Standing
<1>6. InlineInv'
    BY <1>2, <1>3, <1>5 DEF InlineInv
<1> QED BY <1>4, <1>6

LEMMA HereNow ==
    ASSUME InlineInv
    PROVE  /\ Here \in Session(begun) /\ Here.comp = pComp /\ Here.shown = shown /\ Here.held = syllable
           /\ Here.ok /\ Here.docs = docs /\ Here.demoted = demoted /\ Here.crashed = crashed
           /\ Text = Seen(Here, focusCtx) /\ focusCtx \in Ctxs /\ begun \in Nat
BY DEF InlineInv, Here, Text, Seen

\* Between two keys the text ends with the syllable of the automaton.
LEMMA TextNow ==
    ASSUME InlineCompAssumption, InlineInv, queue = <<>>
    PROVE  /\ Text = Grown(Here, focusCtx, Drawn(syllable)) /\ Standing(Here, focusCtx)
           /\ Drawn(syllable) \in Seq(1..begun)
<1>1. Standing(Here, focusCtx)
    BY DEF InlineInv
<1>2. syllable \in 0..begun
    BY HereNow DEF Session
<1>3. Seen(Here, focusCtx) = Grown(Here, focusCtx, Drawn(Here.held))
    BY <1>1, HereNow, SeenStanding
<1> QED BY <1>1, <1>2, <1>3, HereNow, DrawnType

\* The last unit of a text is the one that was put there.
LEMMA FrontOfGrown ==
    ASSUME NEW n \in Nat, NEW x \in Seq(1..n), NEW u \in 1..n
    PROVE  x \o <<u>> # <<>> /\ SubSeq(x \o <<u>>, 1, Len(x \o <<u>>) - 1) = x
<1>1. <<u>> \in Seq(1..n)
    OBVIOUS
<1>2. /\ x \o <<u>> \in Seq(1..n) /\ Len(x \o <<u>>) = Len(x) + 1
      /\ \A i \in 1 .. Len(x) + 1 : (x \o <<u>>)[i] = IF i <= Len(x) THEN x[i] ELSE <<u>>[i - Len(x)]
    BY <1>1, ConcatProperties
<1>3. Len(x) \in Nat /\ DOMAIN x = 1 .. Len(x)
    BY LenProperties
<1> DEFINE y == x \o <<u>>
<1> HIDE DEF y
<1>4. Len(y) - 1 = Len(x) /\ y # <<>>
    BY <1>2, <1>3 DEF y
<1>5. SubSeq(y, 1, Len(x)) = [i \in 1 .. Len(x) |-> y[i]]
    BY <1>3
<1>6. \A i \in 1 .. Len(x) : y[i] = x[i]
    BY <1>2, <1>3 DEF y
<1>7. SubSeq(y, 1, Len(x)) = x
    BY <1>3, <1>5, <1>6
<1> QED BY <1>4, <1>7 DEF y

LEMMA Erases ==
    ASSUME InlineCompAssumption, InlineInv, queue = <<>>, syllable # 0, Text' = docs, TakesBack
    PROVE  TypesOrTakesBack
<1>1. /\ Here \in Session(begun) /\ Here.docs = docs /\ focusCtx \in Ctxs /\ begun \in Nat
      /\ syllable \in 1..begun /\ docs \in [Ctxs -> Seq(1..begun)]
    BY HereNow DEF Session
<1>2. Text = [docs EXCEPT ![focusCtx] = @ \o <<syllable>>]
    BY <1>1, TextNow DEF Grown, Drawn
<1>3. docs[focusCtx] \in Seq(1..begun)
    BY <1>1
<1>4. /\ docs[focusCtx] \o <<syllable>> # <<>>
      /\ SubSeq(docs[focusCtx] \o <<syllable>>, 1, Len(docs[focusCtx] \o <<syllable>>) - 1) = docs[focusCtx]
    BY <1>1, <1>3, FrontOfGrown
<1>5. Text[focusCtx] = docs[focusCtx] \o <<syllable>>
    BY <1>1, <1>2
<1>6. Abstract!Erase(focusCtx, syllable)
    <2>1. Text[focusCtx] # <<>>
        BY <1>4, <1>5
    <2>2. docs = [Text EXCEPT ![focusCtx] = docs[focusCtx]]
        BY <1>1, <1>2
    <2>3. SubSeq(Text[focusCtx], 1, Len(Text[focusCtx]) - 1) = docs[focusCtx]
        BY <1>4, <1>5
    <2>4. Text[focusCtx][Len(Text[focusCtx])] = syllable
        BY <1>1, <1>3, <1>5 DEF Last
    <2> HIDE DEF Text
    <2> QED BY <2>1, <2>2, <2>3, <2>4 DEF Abstract!Erase, Abstract!Front, Abstract!Last
<1> QED BY <1>6 DEF TypesOrTakesBack

LEMMA Types ==
    ASSUME InlineCompAssumption, InlineInv, queue = <<>>, begun + 1 \in Syllables,
           Text' = Grown(Here, focusCtx, Drawn(syllable) \o <<begun + 1>>)
    PROVE  TypesOrTakesBack
<1> DEFINE u == begun + 1
<1>1. /\ Here \in Session(begun) /\ Here.docs = docs /\ focusCtx \in Ctxs /\ begun \in Nat
      /\ docs \in [Ctxs -> Seq(1..begun)]
    BY HereNow DEF Session
<1>2. Text = Grown(Here, focusCtx, Drawn(syllable)) /\ Drawn(syllable) \in Seq(1..begun)
    BY TextNow
<1>3. Text \in [Ctxs -> Seq(1..begun)]
    BY <1>1, <1>2, GrownType
<1>4. \A c \in Ctxs : u \notin Range(Text[c])
    <2>1. \A c \in Ctxs : Range(Text[c]) \in SUBSET (1..begun)
        BY <1>3, RangeOfSeq
    <2>2. u \notin 1..begun
        BY <1>1
    <2> QED BY <2>1, <2>2
<1>5. Text' = [Text EXCEPT ![focusCtx] = Append(@, u)]
    <2>1. /\ docs[focusCtx] \in Seq(1..u) /\ Drawn(syllable) \in Seq(1..u) /\ <<u>> \in Seq(1..u)
          /\ docs[focusCtx] \o Drawn(syllable) \in Seq(1..u) /\ u \in 1..u
        <3>1. Seq(1..begun) \subseteq Seq(1..u)
            <4>1. 1..begun \subseteq 1..u
                BY <1>1
            <4> QED BY <4>1, SeqMonotonic
        <3>2. u \in 1..u
            BY <1>1
        <3> HIDE DEF u
        <3>3. docs[focusCtx] \in Seq(1..u) /\ Drawn(syllable) \in Seq(1..u)
            BY <1>1, <1>2, <3>1
        <3> QED BY <3>2, <3>3, ConcatProperties
    <2> HIDE DEF u
    <2>2. docs[focusCtx] \o (Drawn(syllable) \o <<u>>) = Append(docs[focusCtx] \o Drawn(syllable), u)
        <3>1. PICK S, b, d : S = 1..u /\ b = docs[focusCtx] /\ d = Drawn(syllable)
            OBVIOUS
        <3>2. b \in Seq(S) /\ d \in Seq(S) /\ <<u>> \in Seq(S) /\ b \o d \in Seq(S) /\ u \in S
            BY <2>1, <3>1
        <3>3. (b \o d) \o <<u>> = b \o (d \o <<u>>)
            BY <3>2, ConcatAssociative
        <3>4. Append(b \o d, u) = (b \o d) \o <<u>>
            BY <3>2, AppendIsConcat
        <3> QED BY <3>1, <3>3, <3>4
    <2>3. Text = [docs EXCEPT ![focusCtx] = docs[focusCtx] \o Drawn(syllable)]
        BY <1>1, <1>2 DEF Grown
    <2>4. Text' = [docs EXCEPT ![focusCtx] = docs[focusCtx] \o (Drawn(syllable) \o <<u>>)]
        BY <1>1 DEF Grown, u
    <2> HIDE DEF Text
    <2> QED BY <1>1, <2>2, <2>3, <2>4
<1>6. Abstract!Type(focusCtx, u)
    <2> HIDE DEF Text, u
    <2> QED BY <1>4, <1>5 DEF Abstract!Type, Abstract!Range, Range
<1> QED BY <1>6 DEF TypesOrTakesBack, u

\* One field of a session anew.
LEMMA Reset ==
    ASSUME NEW n \in Nat, NEW s \in Session(n), NEW d \in [Ctxs -> Seq(1..n)]
    PROVE  /\ [s EXCEPT !.held = 0] \in Session(n)
           /\ [s EXCEPT !.demerits = 0] \in Session(n)
           /\ [s EXCEPT !.demoted = FALSE] \in Session(n)
           /\ [s EXCEPT !.docs = d] \in Session(n)
<1>1. [s EXCEPT !.held = 0] \in Session(n)
    <2>1. 0 \in 0..n
        OBVIOUS
    <2> QED BY <2>1 DEF Session
<1>2. [s EXCEPT !.demerits = 0] \in Session(n)
    BY DEF Session
<1>3. [s EXCEPT !.demoted = FALSE] \in Session(n)
    BY DEF Session
<1>4. [s EXCEPT !.docs = d] \in Session(n)
    BY DEF Session
<1> QED BY <1>1, <1>2, <1>3, <1>4

\* ResetComposition.
LEMMA MadeFresh ==
    ASSUME NEW n \in Nat, NEW s \in Session(n), NEW t, t = Fresh(s)
    PROVE  /\ t \in Session(n) /\ t.held = 0 /\ t.comp = s.comp /\ t.shown = s.shown
           /\ t.docs = s.docs
<1>1. t = [[[s EXCEPT !.held = 0] EXCEPT !.demerits = 0] EXCEPT !.demoted = FALSE]
    BY DEF Fresh, Session
<1>2. t \in Session(n)
    <2>1. \A x \in Session(n) : /\ [x EXCEPT !.held = 0] \in Session(n)
                                /\ [x EXCEPT !.demerits = 0] \in Session(n)
                                /\ [x EXCEPT !.demoted = FALSE] \in Session(n)
        <3>1. \A x \in Session(n) : x.docs \in [Ctxs -> Seq(1..n)]
            BY DEF Session
        <3> QED BY <3>1, Reset
    <2>2. [s EXCEPT !.held = 0] \in Session(n)
        BY <2>1
    <2>3. [[s EXCEPT !.held = 0] EXCEPT !.demerits = 0] \in Session(n)
        BY <2>1, <2>2, Zenon
    <2> QED BY <1>1, <2>1, <2>3, Zenon
<1>3. t = [s EXCEPT !.held = 0, !.demerits = 0, !.demoted = FALSE]
    BY DEF Fresh
<1> QED BY <1>2, <1>3 DEF Session

-----------------------------------------------------------------------------
\* The steps.

LEMMA LetterTypes ==
    ASSUME InlineCompAssumption, ~Late, InlineInv, Letter
    PROVE  InlineInv' /\ (TypesOrTakesBack \/ Text' = Text)
<1>1. PICK r \in [commit : {0, syllable}, preedit : {syllable, begun + 1} \cap Syllables], call \in Calls("letter") :
        /\ (syllable = 0 /\ r.commit = 0) \/ (syllable # 0 /\ (r.commit = 0 <=> r.preedit = syllable))
        /\ Becomes(OutputResultSeq(r, call))
        /\ begun' = IF r.preedit > begun THEN r.preedit ELSE begun
    BY DEF Letter
<1> DEFINE n == IF r.preedit > begun THEN r.preedit ELSE begun
<1>2. queue = <<>> /\ ~crashed /\ focusCtx' = focusCtx /\ queue' = queue /\ begun' = n
    BY <1>1 DEF Letter, Ready
<1>3. /\ Here \in Session(begun) /\ begun \in Nat /\ syllable \in 0..begun /\ focusCtx \in Ctxs
      /\ r.preedit \in {syllable, begun + 1} /\ r.preedit \in Syllables /\ r.commit \in {0, syllable}
    BY <1>1, HereNow DEF Session
<1>4. n \in Nat /\ begun <= n /\ r.preedit \in 0..n /\ r.commit \in 0..n /\ r.preedit # 0
    BY <1>3 DEF Syllables, InlineCompAssumption
<1>5. r \in [commit : 0..n, preedit : 0..n]
    <2> HIDE DEF n
    <2> QED BY <1>1, <1>4
<1> HIDE DEF n
<1>6. PICK t : t = OutputResultSeq(r, call)
    OBVIOUS
<1>7. /\ t \in Session(n) /\ Standing(t, focusCtx)
      /\ \/ Seen(t, focusCtx) = Grown(Here, focusCtx, Drawn(r.commit) \o Drawn(r.preedit))
         \/ Seen(t, focusCtx) = Grown(Here, focusCtx, Drawn(syllable))
    BY <1>2, <1>3, <1>4, <1>5, <1>6, Output
<1>8. InlineInv' /\ Text' = Seen(t, focusCtx)
    <2>1. queue' = <<>> /\ queue' \in Seq({"finalize"}) /\ (t.comp = NoCtx => t.shown = <<>>)
        BY <1>2, <1>7 DEF InlineInv, Standing
    <2> QED BY <1>1, <1>2, <1>3, <1>4, <1>6, <1>7, <2>1, StateAfter
<1>9. Text = Grown(Here, focusCtx, Drawn(syllable)) /\ Drawn(syllable) \in Seq(1..begun)
    BY <1>2, TextNow
<1>10. r.commit = 0 => Drawn(r.commit) \o Drawn(r.preedit) = Drawn(r.preedit)
    BY <1>4, DrawnType, ConcatEmptySeq DEF Drawn
<1>11. CASE r.preedit = syllable
    <2>1. r.commit = 0
        BY <1>1, <1>4, <1>11
    <2> QED BY <1>7, <1>8, <1>9, <1>10, <1>11, <2>1
<1>12. CASE r.preedit # syllable
    <2>1. r.preedit = begun + 1 /\ Drawn(r.preedit) = <<begun + 1>> /\ r.commit = syllable
        BY <1>1, <1>3, <1>4, <1>12 DEF Drawn
    <2>2. CASE Seen(t, focusCtx) = Grown(Here, focusCtx, Drawn(r.commit) \o Drawn(r.preedit))
        <3>1. Text' = Grown(Here, focusCtx, Drawn(syllable) \o <<begun + 1>>)
            BY <1>8, <2>1, <2>2
        <3>2. begun + 1 \in Syllables
            BY <1>3, <2>1
        <3> QED BY <1>2, <1>8, <3>1, <3>2, Types
    <2>3. CASE Seen(t, focusCtx) = Grown(Here, focusCtx, Drawn(syllable))
        BY <1>8, <1>9, <2>3
    <2> QED BY <1>7, <2>2, <2>3
<1> QED BY <1>11, <1>12

LEMMA BackspaceErases ==
    ASSUME InlineCompAssumption, ~Late, InlineInv, Backspace
    PROVE  InlineInv' /\ (TypesOrTakesBack \/ Text' = Text)
<1>1. PICK rest \in {0, syllable}, call \in Calls("backspace") :
        Becomes(OutputResultSeq([commit |-> 0, preedit |-> rest], call))
    BY DEF Backspace
<1>2. queue = <<>> /\ ~crashed /\ focusCtx' = focusCtx /\ queue' = queue /\ begun' = begun /\ syllable # 0
    BY DEF Backspace, Ready
<1>3. Here \in Session(begun) /\ begun \in Nat /\ syllable \in 0..begun /\ focusCtx \in Ctxs /\ rest \in 0..begun
      /\ Here.docs = docs
    BY HereNow DEF Session
<1> DEFINE r == [commit |-> 0, preedit |-> rest]
<1>4. r \in [commit : 0..begun, preedit : 0..begun] /\ r.commit = 0 /\ r.preedit = rest
    BY <1>3
<1>5. PICK t : t = OutputResultSeq(r, call)
    OBVIOUS
<1>6. Becomes(t)
    BY <1>1, <1>5
<1> HIDE DEF r
<1>7. /\ t \in Session(begun) /\ Standing(t, focusCtx)
      /\ \/ Seen(t, focusCtx) = Grown(Here, focusCtx, Drawn(r.commit) \o Drawn(r.preedit))
         \/ Seen(t, focusCtx) = Grown(Here, focusCtx, Drawn(syllable))
    <2>1. r.commit \in {0, syllable} /\ begun <= begun
        BY <1>3, <1>4
    <2> QED BY <1>2, <1>3, <1>4, <1>5, <2>1, Output
<1>8. InlineInv' /\ Text' = Seen(t, focusCtx)
    <2>1. queue' = <<>> /\ queue' \in Seq({"finalize"}) /\ (t.comp = NoCtx => t.shown = <<>>)
        BY <1>2, <1>7 DEF InlineInv, Standing
    <2> QED BY <1>2, <1>3, <1>6, <1>7, <2>1, StateAfter
<1>9. Text = Grown(Here, focusCtx, Drawn(syllable))
    BY <1>2, TextNow
<1>10. Drawn(r.commit) \o Drawn(r.preedit) = Drawn(rest)
    BY <1>3, <1>4, DrawnType, ConcatEmptySeq DEF Drawn
<1>11. CASE Seen(t, focusCtx) = Grown(Here, focusCtx, Drawn(syllable)) \/ rest = syllable
    BY <1>7, <1>8, <1>9, <1>10, <1>11
<1>12. CASE Seen(t, focusCtx) # Grown(Here, focusCtx, Drawn(syllable)) /\ rest = 0
    <2>1. Drawn(rest) = <<>>
        BY <1>12 DEF Drawn
    <2>2. Grown(Here, focusCtx, <<>>) = docs
        BY <1>3, EmptySeq, GrownType
    <2>3. Text' = docs
        BY <1>7, <1>8, <1>10, <1>12, <2>1, <2>2
    <2> QED BY <1>2, <1>8, <2>3, Erases DEF TakesBack
<1> QED BY <1>11, <1>12

LEMMA BoundaryKeeps ==
    ASSUME InlineCompAssumption, ~Late, InlineInv, BoundaryKey
    PROVE  InlineInv' /\ (TypesOrTakesBack \/ Text' = Text)
<1>1. PICK call \in Calls("boundary") : BoundaryFlush(call)
    BY DEF BoundaryKey
<1>2. /\ queue = <<>> /\ focusCtx' = focusCtx /\ queue' = queue /\ begun' = begun /\ syllable # 0
      /\ Becomes(FlushKey(call))
    BY <1>1 DEF BoundaryFlush, Ready
<1>3. /\ Here \in Session(begun) /\ begun \in Nat /\ syllable \in 1..begun /\ focusCtx \in Ctxs /\ Here.docs = docs
      /\ Here.comp = pComp /\ Here.shown = shown /\ docs \in [Ctxs -> Seq(1..begun)]
    BY <1>2, HereNow DEF Session
<1>4. /\ Text = Grown(Here, focusCtx, <<syllable>>)
      /\ pComp = NoCtx => shown = <<>>
      /\ pComp # NoCtx => pComp = focusCtx /\ shown = <<syllable>>
    BY <1>2, <1>3, TextNow, HereNow DEF Standing, Drawn
<1>5. PICK t : t = FlushKey(call)
    OBVIOUS
<1>6. /\ t \in Session(begun) /\ t.comp = NoCtx /\ t.shown = <<>> /\ t.held = 0
      /\ t.docs = IF call = "insert" /\ pComp = NoCtx THEN docs ELSE Text
    <2>1. CASE pComp # NoCtx
        <3> DEFINE k == InKey(Here, "finalize", call)
        <3>1. t = [k EXCEPT !.held = 0]
            BY <1>5, <2>1 DEF FlushKey
        <3>2. k \in Session(begun) /\ k.comp = NoCtx /\ k.shown = <<>>
              /\ k.docs = Grown(Here, pComp, shown)
            <4>1. PICK h, m : h = Here /\ m = begun
                OBVIOUS
            <4>2. m \in Nat /\ h \in Session(m) /\ h.comp # NoCtx /\ k = InKey(h, "finalize", call)
                BY <1>3, <2>1, <4>1
            <4> HIDE DEF k
            <4>3. k \in Session(m) /\ k.comp = NoCtx /\ k.shown = <<>> /\ k.docs = Grown(h, h.comp, h.shown)
                BY <4>2, EndedInKey
            <4> QED BY <1>3, <4>1, <4>3
        <3> HIDE DEF k
        <3>3. t \in Session(begun)
            BY <1>3, <3>1, <3>2, Reset
        <3>4. t.comp = k.comp /\ t.shown = k.shown /\ t.held = 0 /\ t.docs = k.docs
            BY <3>1, <3>2 DEF Session
        <3> QED BY <1>4, <2>1, <3>2, <3>3, <3>4
    <2>2. CASE pComp = NoCtx /\ call = "insert"
        <3>1. t = [[Here EXCEPT !.docs = docs] EXCEPT !.held = 0]
            BY <1>3, <1>5, <2>2 DEF FlushKey, Inserted, Here
        <3>2. t \in Session(begun)
            BY <1>3, <3>1, Reset
        <3> QED BY <1>4, <2>2, <3>1, <3>2 DEF Here
    <2>3. CASE pComp = NoCtx /\ call # "insert"
        <3>1. [docs EXCEPT ![focusCtx] = Append(@, syllable)] = Text
            <4>1. docs[focusCtx] \in Seq(1..begun)
                BY <1>3
            <4>2. Append(docs[focusCtx], syllable) = docs[focusCtx] \o <<syllable>>
                BY <1>3, <4>1, AppendIsConcat
            <4> HIDE DEF Text
            <4> QED BY <1>3, <1>4, <4>2 DEF Grown
        <3>2. t = [Here EXCEPT !.docs = [docs EXCEPT ![focusCtx] = Append(@, syllable)], !.held = 0]
            BY <1>5, <2>3 DEF FlushKey, Inserted, Here
        <3>3. Text \in [Ctxs -> Seq(1..begun)]
            <4>1. <<syllable>> \in Seq(1..begun)
                BY <1>3
            <4> QED BY <1>3, <1>4, <4>1, GrownType
        <3>4. t = [[Here EXCEPT !.docs = Text] EXCEPT !.held = 0]
            BY <3>1, <3>2 DEF Here
        <3>5. t \in Session(begun)
            BY <1>3, <3>3, <3>4, Reset
        <3>6. t.comp = pComp /\ t.shown = shown /\ t.held = 0 /\ t.docs = Text
            BY <1>3, <3>4 DEF Here
        <3> QED BY <1>4, <2>3, <3>5, <3>6
    <2> QED BY <2>1, <2>2, <2>3
<1>7. Standing(t, focusCtx) /\ Seen(t, focusCtx) = t.docs
    BY <1>3, <1>6, SeenIdle
<1>8. InlineInv' /\ Text' = Seen(t, focusCtx)
    <2>1. queue' = <<>> /\ queue' \in Seq({"finalize"})
        BY <1>2 DEF InlineInv
    <2> QED BY <1>1, <1>2, <1>3, <1>5, <1>6, <1>7, <2>1, StateAfter
<1>9. CASE call = "insert" /\ pComp = NoCtx
    <2>1. Text' = docs
        BY <1>6, <1>7, <1>8, <1>9
    <2>2. TakesBack
        BY <1>1, <1>9 DEF TakesBack
    <2> QED BY <1>2, <1>8, <2>1, <2>2, Erases
<1>10. CASE ~(call = "insert" /\ pComp = NoCtx)
    BY <1>6, <1>7, <1>8, <1>10
<1> QED BY <1>9, <1>10

LEMMA EscapeErases ==
    ASSUME InlineCompAssumption, ~Late, InlineInv, EscapeKey
    PROVE  InlineInv' /\ (TypesOrTakesBack \/ Text' = Text)
<1>1. PICK call \in Calls("escape") : Becomes(Fresh(InKey(Here, "cancel", call)))
    BY DEF EscapeKey
<1>2. queue = <<>> /\ focusCtx' = focusCtx /\ queue' = queue /\ begun' = begun /\ syllable # 0
    BY DEF EscapeKey, Ready
<1>3. /\ Here \in Session(begun) /\ begun \in Nat /\ syllable \in 1..begun /\ focusCtx \in Ctxs /\ Here.docs = docs
      /\ Here.comp = pComp /\ Here.shown = shown
    BY <1>2, HereNow DEF Session
<1>4. /\ Text = Grown(Here, focusCtx, <<syllable>>)
      /\ pComp = NoCtx => shown = <<>>
      /\ pComp # NoCtx => pComp = focusCtx /\ shown = <<syllable>>
    BY <1>2, <1>3, TextNow, HereNow DEF Standing, Drawn
<1> DEFINE k == InKey(Here, "cancel", call)
<1>5. k \in Session(begun) /\ k.comp = NoCtx /\ k.shown = <<>> /\ (k.docs = Text \/ k.docs = docs)
    <2>1. /\ k \in Session(begun) /\ k.comp = NoCtx /\ k.shown = <<>>
          /\ Here.comp = NoCtx => k.docs = Here.docs
          /\ Here.comp # NoCtx => k.docs = Grown(Here, Here.comp, Here.shown) \/ k.docs = Here.docs
        BY <1>3, <1>4, EndedInKey
    <2> HIDE DEF k, Text
    <2> QED BY <1>3, <1>4, <2>1
<1> HIDE DEF k
<1>6. PICK t : t = Fresh(k)
    OBVIOUS
<1>7. t \in Session(begun) /\ t.comp = NoCtx /\ t.shown = <<>> /\ t.held = 0 /\ t.docs = k.docs
    BY <1>3, <1>5, <1>6, MadeFresh
<1>8. Standing(t, focusCtx) /\ Seen(t, focusCtx) = t.docs
    BY <1>3, <1>7, SeenIdle
<1>9. InlineInv' /\ Text' = Seen(t, focusCtx)
    <2>1. queue' = <<>> /\ queue' \in Seq({"finalize"}) /\ Becomes(t)
        BY <1>1, <1>2, <1>6 DEF InlineInv, k
    <2> QED BY <1>2, <1>3, <1>7, <1>8, <2>1, StateAfter
<1>10. CASE k.docs = Text
    BY <1>7, <1>8, <1>9, <1>10
<1>11. CASE k.docs = docs
    BY <1>2, <1>7, <1>8, <1>9, <1>11, Erases DEF TakesBack
<1> QED BY <1>5, <1>10, <1>11

\* Outside a key event the syllable that is in no composition joins its document first.
LEMMA DeliveredFirst ==
    ASSUME InlineCompAssumption, InlineInv, NEW d, d = Fresh(Delivered)
    PROVE  /\ d \in Session(begun) /\ d.comp = pComp /\ d.shown = shown /\ d.held = 0
           /\ \A f \in Ctxs : Seen(d, f) = Text
<1>1. /\ Here \in Session(begun) /\ begun \in Nat /\ syllable \in 0..begun /\ focusCtx \in Ctxs /\ Here.docs = docs
      /\ Here.comp = pComp /\ Here.shown = shown /\ docs \in [Ctxs -> Seq(1..begun)]
      /\ NoCtx \notin Ctxs /\ (pComp = NoCtx => shown = <<>>)
    BY HereNow DEF Session, InlineCompAssumption, InlineInv
<1>2. CASE syllable # 0 /\ pComp = NoCtx
    <2>1. Text = Grown(Here, focusCtx, <<syllable>>)
        BY <1>2, TextNow DEF InlineInv, Drawn
    <2>2. [docs EXCEPT ![focusCtx] = Append(@, syllable)] = Text
        <3>1. docs[focusCtx] \in Seq(1..begun) /\ syllable \in 1..begun
            BY <1>1, <1>2
        <3>2. Append(docs[focusCtx], syllable) = docs[focusCtx] \o <<syllable>>
            BY <3>1, AppendIsConcat
        <3> HIDE DEF Text
        <3> QED BY <1>1, <2>1, <3>2 DEF Grown
    <2>3. Text \in [Ctxs -> Seq(1..begun)]
        <3>1. <<syllable>> \in Seq(1..begun)
            BY <1>1, <1>2
        <3> QED BY <1>1, <2>1, <3>1, GrownType
    <2>4. Delivered = [Here EXCEPT !.docs = [docs EXCEPT ![focusCtx] = Append(@, syllable)]]
        BY <1>2 DEF Delivered, Here
    <2>5. Delivered = [Here EXCEPT !.docs = Text]
        BY <2>2, <2>4
    <2>6. Delivered \in Session(begun)
        BY <1>1, <2>3, <2>5, Reset
    <2>7. Delivered.comp = pComp /\ Delivered.shown = shown /\ Delivered.docs = Text
        BY <1>1, <2>5 DEF Session
    <2>8. d \in Session(begun) /\ d.comp = pComp /\ d.shown = shown /\ d.held = 0 /\ d.docs = Text
        BY <1>1, <2>6, <2>7, MadeFresh
    <2>9. \A f \in Ctxs : Seen(d, f) = d.docs
        BY <1>1, <1>2, <2>8, SeenIdle
    <2> QED BY <2>8, <2>9
<1>3. CASE ~(syllable # 0 /\ pComp = NoCtx)
    <2>1. d = Fresh(Here)
        BY <1>3 DEF Delivered
    <2>2. d \in Session(begun) /\ d.comp = pComp /\ d.shown = shown /\ d.held = 0 /\ d.docs = docs
        BY <1>1, <2>1, MadeFresh
    <2>4. ASSUME NEW f \in Ctxs PROVE Seen(d, f) = Text
        <3>1. Drawn(0) = <<>>
            BY DEF Drawn
        <3> QED BY <1>3, <2>2, <3>1 DEF Seen, Text
    <2> QED BY <2>2, <2>4
<1> QED BY <1>2, <1>3

\* A composition that is forgotten with its text leaves everything where it is seen.
LEMMA ForgottenStays ==
    ASSUME InlineCompAssumption, NEW n \in Nat, NEW s \in Session(n), s.held = 0 \/ s.comp # NoCtx,
           s.comp = NoCtx => s.shown = <<>>,
           NEW t \in Session(n), t.comp = NoCtx, t.shown = <<>>, t.held = 0,
           t.docs = IF s.comp = NoCtx THEN s.docs ELSE Grown(s, s.comp, s.shown), NEW f \in Ctxs
    PROVE  Standing(t, f) /\ Seen(t, f) = Seen(s, f)
<1>1. Standing(t, f) /\ Seen(t, f) = t.docs
    BY SeenIdle
<1>2. CASE s.comp = NoCtx
    BY <1>1, <1>2, SeenIdle
<1>3. CASE s.comp # NoCtx
    BY <1>1, <1>3, SeenShown
<1> QED BY <1>2, <1>3

\* The queue takes a session.
LEMMA Queued ==
    ASSUME InlineInv
    PROVE  Append(queue, "finalize") \in Seq({"finalize"}) /\ Append(queue, "finalize") # <<>>
BY AppendProperties DEF InlineInv

LEMMA FinalizeKeeps ==
    ASSUME InlineCompAssumption, InlineInv, NEW call, Finalize(Fresh(Delivered), call),
           focusCtx' \in Ctxs, begun' = begun
    PROVE  InlineInv' /\ Text' = Text
<1>0. begun \in Nat /\ queue \in Seq({"finalize"}) /\ (pComp = NoCtx => shown = <<>>)
    BY DEF InlineInv
<1>1. PICK d : d = Fresh(Delivered)
    OBVIOUS
<1>2. /\ d \in Session(begun) /\ d.comp = pComp /\ d.shown = shown /\ d.held = 0
      /\ \A f \in Ctxs : Seen(d, f) = Text
    BY <1>1, DeliveredFirst
<1>3. CASE Becomes(InKey(d, "finalize", call)) /\ UNCHANGED queue
    <2>1. PICK t : t = InKey(d, "finalize", call)
        OBVIOUS
    <2>2. /\ t \in Session(begun) /\ t.comp = NoCtx /\ t.shown = <<>> /\ t.held = 0
          /\ t.docs = IF d.comp = NoCtx THEN d.docs ELSE Grown(d, d.comp, d.shown)
        BY <1>0, <1>2, <2>1, EndedInKey
    <2>3. Standing(t, focusCtx') /\ Seen(t, focusCtx') = Text
        BY <1>0, <1>2, <2>2, ForgottenStays
    <2> QED BY <1>0, <1>3, <2>1, <2>2, <2>3, StateAfter
<1>4. CASE Becomes(d) /\ queue' = Append(queue, "finalize")
    <2>1. queue' \in Seq({"finalize"}) /\ queue' # <<>>
        BY <1>4, Queued
    <2> QED BY <1>0, <1>2, <1>4, <2>1, StateAfter
<1> QED BY <1>1, <1>3, <1>4 DEF Finalize

\* Folded, the syllable that is in no composition is gone; one that is shown stays.
LEMMA FoldedHere ==
    ASSUME InlineCompAssumption, InlineInv, NEW d, d = Fresh(Here)
    PROVE  /\ d \in Session(begun) /\ d.comp = pComp /\ d.shown = shown /\ d.held = 0 /\ d.docs = docs
           /\ pComp # NoCtx \/ syllable = 0 => \A f \in Ctxs : Seen(d, f) = Text
<1>1. /\ Here \in Session(begun) /\ begun \in Nat /\ focusCtx \in Ctxs /\ Here.docs = docs
      /\ Here.comp = pComp /\ Here.shown = shown
    BY HereNow DEF InlineInv
<1>2. d \in Session(begun) /\ d.comp = pComp /\ d.shown = shown /\ d.held = 0 /\ d.docs = docs
    BY <1>1, MadeFresh
<1>3. ASSUME pComp # NoCtx \/ syllable = 0, NEW f \in Ctxs
      PROVE  Seen(d, f) = Text
    <2>1. Drawn(0) = <<>>
        BY DEF Drawn
    <2> QED BY <1>2, <1>3, <2>1 DEF Seen, Text
<1> QED BY <1>2, <1>3

LEMMA DeactivateErases ==
    ASSUME InlineCompAssumption, InlineInv, DeactivateService
    PROVE  InlineInv' /\ (TypesOrTakesBack \/ Text' = Text)
<1>0. begun \in Nat /\ queue \in Seq({"finalize"}) /\ (pComp = NoCtx => shown = <<>>) /\ focusCtx \in Ctxs
    BY DEF InlineInv
<1>1. focusCtx' = focusCtx /\ begun' = begun
    BY DEF DeactivateService
<1>2. PICK call \in Calls("outside") :
        \/ Becomes(InKey(Fresh(Here), "finalize", call)) /\ UNCHANGED queue
        \/ /\ pComp # NoCtx
           /\ Becomes(Abandon(Fresh(Here))) /\ queue' = Append(queue, "finalize")
    BY DEF DeactivateService
<1>3. PICK d : d = Fresh(Here)
    OBVIOUS
<1>4. /\ d \in Session(begun) /\ d.comp = pComp /\ d.shown = shown /\ d.held = 0 /\ d.docs = docs
      /\ pComp # NoCtx \/ syllable = 0 => \A f \in Ctxs : Seen(d, f) = Text
    BY <1>3, FoldedHere
<1>5. CASE Becomes(InKey(d, "finalize", call)) /\ UNCHANGED queue
    <2>1. PICK t : t = InKey(d, "finalize", call)
        OBVIOUS
    <2>2. /\ t \in Session(begun) /\ t.comp = NoCtx /\ t.shown = <<>> /\ t.held = 0
          /\ t.docs = IF d.comp = NoCtx THEN d.docs ELSE Grown(d, d.comp, d.shown)
        BY <1>0, <1>4, <2>1, EndedInKey
    <2>3. Standing(t, focusCtx) /\ Seen(t, focusCtx) = Seen(d, focusCtx)
        BY <1>0, <1>4, <2>2, ForgottenStays
    <2>4. InlineInv' /\ Text' = Seen(t, focusCtx)
        BY <1>0, <1>1, <1>5, <2>1, <2>2, <2>3, StateAfter
    <2>5. CASE pComp # NoCtx \/ syllable = 0
        BY <1>0, <1>4, <2>3, <2>4, <2>5
    <2>6. CASE pComp = NoCtx /\ syllable # 0
        <3>1. Seen(t, focusCtx) = docs
            BY <1>0, <1>4, <2>2, <2>6, SeenIdle
        <3>2. TakesBack /\ queue = <<>>
            BY <2>6 DEF TakesBack, InlineInv
        <3> QED BY <2>4, <2>6, <3>1, <3>2, Erases
    <2> QED BY <2>5, <2>6
<1>6. CASE pComp # NoCtx /\ Becomes(Abandon(d)) /\ queue' = Append(queue, "finalize")
    <2>1. PICK t : t = Abandon(d)
        OBVIOUS
    <2>2. /\ t \in Session(begun) /\ t.comp = NoCtx /\ t.shown = <<>> /\ t.held = 0
          /\ t.docs = Grown(d, d.comp, d.shown)
        BY <1>0, <1>4, <1>6, <2>1, Abandoned
    <2>3. Standing(t, focusCtx) /\ Seen(t, focusCtx) = Text
        BY <1>0, <1>4, <1>6, <2>2, ForgottenStays
    <2>4. queue' \in Seq({"finalize"}) /\ Becomes(t)
        BY <1>6, <2>1, Queued
    <2> QED BY <1>0, <1>1, <2>2, <2>3, <2>4, StateAfter
<1> QED BY <1>2, <1>3, <1>5, <1>6

LEMMA RunSessionKeeps ==
    ASSUME InlineCompAssumption, InlineInv, RunSession
    PROVE  InlineInv' /\ Text' = Text
<1>0. /\ begun \in Nat /\ queue \in Seq({"finalize"}) /\ (pComp = NoCtx => shown = <<>>) /\ focusCtx \in Ctxs
      /\ queue # <<>> /\ syllable = 0 /\ queue' = Tail(queue) /\ focusCtx' = focusCtx /\ begun' = begun
    BY DEF InlineInv, RunSession
<1>1. PICK call \in Calls("outside") \ {"request"} : Becomes(EndWork(Here, Head(queue), call))
    BY DEF RunSession
<1>2. Head(queue) = "finalize" /\ queue' \in Seq({"finalize"})
    BY <1>0, HeadTailProperties
<1>3. PICK t : t = EndWork(Here, "finalize", call)
    OBVIOUS
<1>4. /\ t \in Session(begun) /\ t.comp = NoCtx /\ t.shown = <<>> /\ t.held = 0
      /\ t.docs = IF Here.comp = NoCtx THEN Here.docs ELSE Grown(Here, Here.comp, Here.shown)
    <2>1. CASE pComp = NoCtx
        <3>1. t = Here
            BY <1>3, <2>1, HereNow DEF EndWork
        <3> QED BY <1>0, <2>1, <3>1, HereNow
    <2>2. CASE pComp # NoCtx
        BY <1>0, <1>3, <2>2, HereNow, EndedWork
    <2> QED BY <2>1, <2>2
<1>5. Standing(t, focusCtx) /\ Seen(t, focusCtx) = Text
    BY <1>0, <1>4, HereNow, ForgottenStays
<1> QED BY <1>0, <1>1, <1>2, <1>3, <1>4, <1>5, StateAfter

LEMMA HostEndsKeeps ==
    ASSUME InlineCompAssumption, InlineInv, HostEnds
    PROVE  InlineInv' /\ Text' = Text
<1>0. /\ begun \in Nat /\ queue \in Seq({"finalize"}) /\ focusCtx \in Ctxs /\ pComp # NoCtx
      /\ queue' = queue /\ focusCtx' = focusCtx /\ begun' = begun /\ Becomes(Terminated(Here))
    BY DEF InlineInv, HostEnds
<1>1. PICK t : t = Terminated(Here)
    OBVIOUS
<1>2. /\ t \in Session(begun) /\ t.comp = NoCtx /\ t.shown = <<>> /\ t.held = 0
      /\ t.docs = Grown(Here, Here.comp, Here.shown)
    BY <1>0, <1>1, HereNow, TerminatedByHost
<1>3. Standing(t, focusCtx) /\ Seen(t, focusCtx) = Text
    BY <1>0, <1>2, HereNow, ForgottenStays
<1> QED BY <1>0, <1>1, <1>2, <1>3, StateAfter

LEMMA HostEndsForgottenKeeps ==
    ASSUME InlineCompAssumption, InlineInv, NEW c \in Ctxs, HostEndsForgotten(c)
    PROVE  InlineInv' /\ Text' = Text
<1>1. /\ left' = [left EXCEPT ![c] = @ - 1] /\ left[c] > 0
      /\ UNCHANGED <<focusCtx, syllable, pComp, shown, updated, demerits, demoted, docs, queue, begun, crashed>>
    BY DEF HostEndsForgotten
<1>2. Here' = [comp |-> pComp, shown |-> shown, updated |-> updated, demerits |-> demerits,
               demoted |-> demoted, docs |-> docs, left |-> left', held |-> syllable,
               crashed |-> crashed, ok |-> TRUE]
    BY <1>1 DEF Here
<1>3. /\ pComp \in Ctxs \cup {NoCtx} /\ shown \in Seq(1..begun) /\ updated \in BOOLEAN /\ demerits \in Nat
      /\ demoted \in BOOLEAN /\ docs \in [Ctxs -> Seq(1..begun)] /\ left \in [Ctxs -> Nat]
      /\ syllable \in 0..begun /\ crashed \in BOOLEAN
    BY DEF InlineInv, Here, Session
<1>4. left' \in [Ctxs -> Nat]
    BY <1>1, <1>3
<1>5. Here' \in Session(begun)
    BY <1>2, <1>3, <1>4 DEF Session
<1>6. Standing(Here', focusCtx) <=> Standing(Here, focusCtx)
    BY <1>2, HereNow DEF Standing
<1>7. Text' = Text
    BY <1>1 DEF Text
<1> QED BY <1>1, <1>5, <1>6, <1>7 DEF InlineInv

LEMMA InitInline ==
    ASSUME InlineCompAssumption, CompInit
    PROVE  InlineInv /\ Abstract!Init
<1>1. /\ <<>> \in Seq(1..0) /\ <<>> \in Seq({"finalize"})
    BY EmptySeq
<1>2. Here \in Session(0)
    <2>1. docs = [c \in Ctxs |-> <<>>] /\ left = [c \in Ctxs |-> 0] /\ shown = <<>> /\ syllable = 0
          /\ pComp = NoCtx /\ updated = FALSE /\ demerits = 0 /\ demoted = FALSE /\ crashed = FALSE
        BY DEF CompInit
    <2>2. docs \in [Ctxs -> Seq(1..0)]
        <3>1. PICK S : S = Seq(1..0)
            OBVIOUS
        <3> QED BY <1>1, <2>1, <3>1
    <2>3. left \in [Ctxs -> Nat] /\ 0 \in 0..0 /\ shown \in Seq(1..0)
        BY <1>1, <2>1
    <2> QED BY <2>1, <2>2, <2>3 DEF Here, Session
<1>3. Standing(Here, focusCtx)
    BY DEF CompInit, Here, Standing
<1>4. InlineInv
    BY <1>1, <1>2, <1>3 DEF CompInit, InlineInv
<1>5. Text = docs
    <2>1. Seen(Here, focusCtx) = Here.docs
        BY <1>2, SeenIdle, HereNow, <1>4 DEF CompInit
    <2> QED BY <1>4, <2>1, HereNow
<1>6. Abstract!Init
    BY <1>5 DEF Abstract!Init, CompInit
<1> QED BY <1>4, <1>6

LEMMA NextInline ==
    ASSUME InlineCompAssumption, ~Late, InlineInv, [CompNext]_compVars
    PROVE  InlineInv' /\ (TypesOrTakesBack \/ Text' = Text)
<1>1. CASE UNCHANGED compVars
    <2>1. Text' = Text
        BY <1>1 DEF compVars, Text
    <2>2. Here' = Here
        BY <1>1 DEF compVars, Here
    <2>3. InlineInv'
        BY <1>1, <2>2 DEF compVars, InlineInv
    <2> QED BY <2>1, <2>3
<1>2. CASE LayoutSwitch
    BY <1>2, FinalizeKeeps DEF LayoutSwitch, InlineInv
<1>3. ASSUME NEW c \in Ctxs, FocusChange(c)
      PROVE  InlineInv' /\ Text' = Text
    BY <1>3, FinalizeKeeps DEF FocusChange
<1>4. CASE Letter \/ Backspace \/ BoundaryKey \/ EscapeKey
    BY <1>4, LetterTypes, BackspaceErases, BoundaryKeeps, EscapeErases
<1>5. CASE DeactivateService \/ RunSession \/ HostEnds
    BY <1>5, DeactivateErases, RunSessionKeeps, HostEndsKeeps
<1> QED BY <1>1, <1>2, <1>3, <1>4, <1>5, HostEndsForgottenKeeps DEF CompNext

\* InlineComp implements TypedText, for any documents, calls that fail and bounds, when keys wait
\* for the sessions accepted before them: however the composition is cut, moved, refused or ended
\* (comp_inline.c), each step puts one syllable to the end of the text that has the keys, leaves
\* every text as it is, or takes the syllable back that is held, which only Backspace, Esc, a
\* boundary key whose insertion fails and a deactivation do (text_service.c:2046, 2057, 2502).
THEOREM EveryStepTypesOrErases ==
    ASSUME InlineCompAssumption, ~Late
    PROVE  CompSpec => TextIsAsTyped
<1>1. CompInit => InlineInv /\ Abstract!Init
    BY InitInline
<1>2. InlineInv /\ [CompNext]_compVars =>
         InlineInv' /\ [compVars' # compVars => [TypesOrTakesBack]_Text]_compVars
    BY NextInline
<1> QED BY <1>1, <1>2, PTL DEF CompSpec, TextIsAsTyped
==============================================================================

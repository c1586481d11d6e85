----------------------------- MODULE SeqProofs ------------------------------
(***************************************************************************)
(* Proofs about SeqInput, from the lemmas about its engine in SeqKbProofs, *)
(* for any layouts their parser lets through, documents, kinds of window,  *)
(* readings and waiting keys: what is on screen belongs to the reading and *)
(* the document of now, the chip is what a commit writes, the user gets    *)
(* what was shown, and the keys typed reach the text in their order, none  *)
(* lost, none twice.                                                       *)
(***************************************************************************)
EXTENDS SeqKbProofs, TLAPS

------------------------------------------------------------------------------

(***************************************************************************)
(* The text service.                                                       *)
(***************************************************************************)
Ctxs == Docs \cup {NoDoc}
Kinds == WindowKinds \cup {"none"}
\* What goes into a document: our own text, and the keys the application gets.
Texts == Seq([keys : Seq(AnyKey), as : Manners \cup {"app"}])
Service ==
    [st : Engine, cands : Lists, segs : SegsType, segMode : BOOLEAN,
     win : Kinds, onKey : BOOLEAN, onSegKey : BOOLEAN,
     ctx : Ctxs, target : Ctxs, chip : Pieces(Printable), text : [Docs -> Words],
     out : Texts, spilled : BOOLEAN]

\* Segments on show are of the reading they were cut from.
Seated(v) ==
    v.segMode => /\ v.segs.gen <= v.st.gen
                 /\ v.segs.gen = v.st.gen => SegsFit(v.segs, v.st.reading)
Targeted(v) == v.chip # <<>> => v.target # NoDoc
Kept(v) == v \in Service /\ Good(lay, v.st) /\ Seated(v) /\ Targeted(v)

\* The parts of the service nothing that writes to a document changes.
SameCore(v, u) ==
    /\ u.st = v.st /\ u.cands = v.cands /\ u.segs = v.segs /\ u.segMode = v.segMode
    /\ u.win = v.win /\ u.onKey = v.onKey /\ u.onSegKey = v.onSegKey /\ u.ctx = v.ctx

\* Our output is text, and its keys are printable.
LEMMA OursAreKeys == ASSUME NEW p \in Pieces(Printable) PROVE p \in Texts /\ KeysOf(p) \in Words
<1> DEFINE A == [keys : Seq(Printable), as : Manners]
           B == [keys : Seq(AnyKey), as : Manners \cup {"app"}]
<1>1. A \subseteq B
    <2> SUFFICES ASSUME NEW a \in A PROVE a \in B
        OBVIOUS
    <2>1. Printable \subseteq AnyKey
        BY DEF AnyKey
    <2>2. a.keys \in Seq(AnyKey)
        BY <2>1, SeqSub
    <2> QED BY <2>2
<1>2. p \in Seq(A) /\ Texts = Seq(B)
    BY DEF Pieces, Texts
<1> HIDE DEF A, B
<1>3. p \in Seq(B)
    BY <1>1, <1>2, SeqSub
<1>4. KeysOf(p) \in Words
    BY KeysOfType DEF Words
<1> QED BY <1>2, <1>3, <1>4

LEMMA KeysJoin ==
    /\ <<>> \in Texts
    /\ \A p, q \in Texts : p \o q \in Texts /\ KeysOf(p \o q) = KeysOf(p) \o KeysOf(q)
    /\ \A p \in Texts : p \o <<>> = p /\ <<>> \o p = p /\ KeysOf(p) \in Seq(AnyKey)
<1> DEFINE B == [keys : Seq(AnyKey), as : Manners \cup {"app"}]
<1>1. Texts = Seq(B) /\ \A x \in B : x.keys \in Seq(AnyKey)
    BY DEF Texts
<1> HIDE DEF B
<1>2. ASSUME NEW p \in Texts, NEW q \in Texts
      PROVE  p \o q \in Texts /\ KeysOf(p \o q) = KeysOf(p) \o KeysOf(q)
    BY <1>1, KeysOfJoin
<1>3. ASSUME NEW p \in Texts PROVE KeysOf(p) \in Seq(AnyKey)
    BY <1>1, KeysOfAny
<1>4. <<>> \in Texts /\ \A p \in Texts : p \o <<>> = p /\ <<>> \o p = p
    BY <1>1
<1> QED BY <1>2, <1>3, <1>4

\* Keys without the separators.
LEMMA NoSepIs ==
    /\ \A s \in Seq(AnyKey) : NoSep(s) \in Words
    /\ \A s, t \in Seq(AnyKey) : NoSep(s \o t) = NoSep(s) \o NoSep(t)
    /\ NoSep(<<>>) = <<>>
<1> DEFINE K == Printable \ {Sep}
<1>1. \A s : NoSep(s) = Only(K, s)
    BY DEF NoSep
<1>2. AnyKey \cap K \subseteq Printable
    OBVIOUS
<1> HIDE DEF K
<1>3. ASSUME NEW s \in Seq(AnyKey) PROVE NoSep(s) \in Words
    <2>1. Only(K, s) \in Seq(AnyKey \cap K)
        BY OnlyType
    <2> QED BY <1>1, <1>2, <2>1, SeqSub DEF Words
<1>4. ASSUME NEW s \in Seq(AnyKey), NEW t \in Seq(AnyKey) PROVE NoSep(s \o t) = NoSep(s) \o NoSep(t)
    BY <1>1, OnlyConcat
<1> QED BY <1>1, <1>3, <1>4, OnlyEmpty

\* An output adds to the text its keys without the separators.
LEMMA LetterlyIs ==
    /\ \A p \in Texts : Letterly(p) \in Words
    /\ \A p, q \in Texts : Letterly(p \o q) = Letterly(p) \o Letterly(q)
    /\ Letterly(<<>>) = <<>>
<1>1. ASSUME NEW p \in Texts, NEW q \in Texts
      PROVE  Letterly(p) \in Words /\ Letterly(p \o q) = Letterly(p) \o Letterly(q)
    <2>1. /\ KeysOf(p) \in Seq(AnyKey) /\ KeysOf(q) \in Seq(AnyKey)
          /\ KeysOf(p \o q) = KeysOf(p) \o KeysOf(q)
        BY KeysJoin
    <2> QED BY <2>1, NoSepIs DEF Letterly
<1>2. Letterly(<<>>) = <<>>
    BY NoSepIs, KeysOfEmpty DEF Letterly
<1> QED BY <1>1, <1>2

\* An insertion adds the output's keys to one document.
LEMMA InsertIs ==
    ASSUME NEW v \in Service, NEW d \in Docs, NEW out \in Texts
    PROVE  LET u == Insert(v, d, out)
           IN  /\ u \in Service /\ SameCore(v, u)
               /\ u.target = v.target /\ u.chip = v.chip /\ u.spilled = v.spilled
               /\ u.out = v.out \o out /\ u.text = [v.text EXCEPT ![d] = @ \o Letterly(out)]
<1> DEFINE t == [v.text EXCEPT ![d] = @ \o Letterly(out)]
           o == v.out \o out
           u == [v EXCEPT !.text = t, !.out = o]
<1>1. v.text \in [Docs -> Words] /\ v.out \in Texts
    BY DEF Service
<1>2. t \in [Docs -> Words]
    <2>1. v.text[d] \o Letterly(out) \in Words
        BY <1>1, LetterlyIs, WordsJoin
    <2> QED BY <1>1, <2>1
<1>3. o \in Texts
    BY <1>1, KeysJoin
<1>4. Insert(v, d, out) = u
    BY DEF Insert, Service
<1> HIDE DEF t, o
<1>5. u \in Service /\ SameCore(v, u) /\ u.target = v.target /\ u.chip = v.chip
      /\ u.spilled = v.spilled /\ u.out = o /\ u.text = t
    BY <1>2, <1>3 DEF Service, SameCore
<1> QED BY <1>4, <1>5 DEF o, t

IsApplied(v, d, out, chip, u) ==
    /\ u \in Service /\ SameCore(v, u) /\ u.spilled = v.spilled
    /\ d = NoDoc => u = v
    /\ d # NoDoc =>
           /\ u.chip = chip /\ u.out = v.out \o out
           /\ u.text = [v.text EXCEPT ![d] = @ \o Letterly(out)]
           /\ u.target = IF chip # <<>> /\ v.target = NoDoc THEN d ELSE v.target

\* An output and a composition, to the document if there is one (SeqApply).
LEMMA ApplyIs ==
    ASSUME NoDoc \notin Docs, NEW v \in Service, NEW d \in Ctxs, NEW out \in Texts, NEW chip \in Pieces(Printable)
    PROVE  IsApplied(v, d, out, chip, Apply(v, d, out, chip))
<1>1. CASE d = NoDoc
    BY <1>1 DEF Apply, IsApplied, SameCore
<1>2. CASE d # NoDoc
    <2> DEFINE i == Insert(v, d, out)
               t == IF chip # <<>> /\ v.target = NoDoc THEN d ELSE v.target
               u == [i EXCEPT !.chip = chip, !.target = t]
    <2>1. /\ i \in Service /\ SameCore(v, i) /\ i.target = v.target /\ i.spilled = v.spilled
          /\ i.out = v.out \o out /\ i.text = [v.text EXCEPT ![d] = @ \o Letterly(out)]
        BY <1>2, InsertIs DEF Ctxs
    <2>2. Apply(v, d, out, chip) = u
        BY <1>2, <2>1 DEF Apply
    <2>3. t \in Ctxs
        BY DEF Service
    <2> HIDE DEF i, t
    <2>4. /\ u \in Service /\ SameCore(i, u) /\ u.chip = chip /\ u.target = t /\ u.out = i.out
          /\ u.spilled = i.spilled /\ u.text = i.text
        BY <2>1, <2>3 DEF Service, SameCore
    <2> HIDE DEF u
    <2>5. IsApplied(v, d, out, chip, u)
        BY <1>2, <2>1, <2>4 DEF IsApplied, SameCore, t
    <2> QED BY <2>2, <2>5
<1> QED BY <1>1, <1>2

------------------------------------------------------------------------------
(* What each engine call does with the keys: none is lost, doubled or overtaken. *)

\* The keys a result accounts for.
After(r) == KeysOf(r.out) \o Typed(r.st)

\* An engine that gave out nothing and has nothing pending holds the reading's keys.
LEMMA KeptTyped ==
    ASSUME NEW st \in Engine, NEW r, r.st \in Engine, r.st.pending = <<>>, r.out = <<>>,
           KeysOf(r.out) \o Flat(r.st.reading) = Typed(st)
    PROVE  Typed(r.st) = Typed(st)
<1>1. Flat(r.st.reading) \in Words /\ Typed(r.st) = Flat(r.st.reading) \o <<>>
    BY EngineIs
<1>2. KeysOf(r.out) = <<>>
    BY KeysOfEmpty
<1> QED BY <1>1, <1>2, WordsJoin

\* A conversion that spills nothing keeps every key.
LEMMA ConvertKeeps ==
    ASSUME NEW l, Layout(l), NEW st, Good(l, st), NEW how, Convert(l, st, how).ok,
           ~Convert(l, st, how).spilled
    PROVE  Typed(Convert(l, st, how).st) = Typed(st)
<1> DEFINE r == IF how = "live" THEN Result(st, <<>>, TRUE) ELSE Settle(l, st)
           items == Candidates(l, r.st.reading)
           c == Listed(l, st, r, how, items)
<1>1. Convert(l, st, how) = c
    BY DEF Convert, Searched
<1>2. st \in Engine
    BY DEF Good
<1>3. /\ how = "live" => r.st = st
      /\ how # "live" => IsSettled(l, st, r)
    BY <1>2, SettleIs DEF Result
<1> HIDE DEF r
<1> HIDE DEF items
<1>4. OkToList(l, st, r, how, items)
    <2> SUFFICES ASSUME ~OkToList(l, st, r, how, items) PROVE FALSE
        OBVIOUS
    <2>1. IsNotListed(st, r, items, c)
        BY ListedNot
    <2> HIDE DEF c
    <2> QED BY <1>1, <2>1 DEF IsNotListed
<1>5. c.st = [r.st EXCEPT !.open = TRUE] /\ (c.spilled => r.out # <<>>) /\ (r.out # <<>> => c.spilled)
    BY <1>4 DEF Listed, Converted, OkToList
<1>6. r.out = <<>>
    BY <1>1, <1>5
<1>7. r.st \in Engine /\ Typed(r.st) = Typed(st)
    <2>1. CASE how = "live"
        BY <1>2, <1>3, <2>1
    <2>2. CASE how # "live"
        <3>1. r.st \in Engine /\ r.st.pending = <<>> /\ KeysOf(r.out) \o Flat(r.st.reading) = Typed(st)
            BY <1>3, <2>2 DEF IsSettled, Step, Good
        <3> QED BY <1>2, <1>6, <3>1, KeptTyped
    <2> QED BY <2>1, <2>2
<1>8. Typed(c.st) = Typed(r.st)
    <2>1. c.st.reading = r.st.reading /\ c.st.pending = r.st.pending
        BY <1>5, <1>7 DEF Engine
    <2> QED BY <2>1 DEF Typed
<1> QED BY <1>1, <1>7, <1>8

\* Only a layout with Japanese segments is cut; a cut neither drops nor adds a key.
LEMMA SegmentsKeep ==
    ASSUME NEW l, Layout(l), NEW st, Good(l, st), NEW cut, Segments(l, st, cut).ok
    PROVE  /\ l.ja
           /\ ~Segments(l, st, cut).spilled => Typed(Segments(l, st, cut).st) = Typed(st)
<1> DEFINE r == Settle(l, st)
           lens == LensOf(cut, 0, Len(r.st.reading))
           c == CutAt(l, st, r, lens)
<1>1. Segments(l, st, cut) = c
    BY DEF Segments, SettledAt
<1>2. st \in Engine
    BY DEF Good
<1>3. IsSettled(l, st, r)
    BY SettleIs
<1> HIDE DEF r
<1> HIDE DEF lens
<1>4. OkToCut(l, lens)
    BY <1>1, CutAtNot
<1>5. l.ja
    BY <1>4 DEF OkToCut
<1> SUFFICES ASSUME ~c.spilled PROVE Typed(c.st) = Typed(st)
    BY <1>1, <1>5
<1>6. c.st = [r.st EXCEPT !.open = TRUE] /\ (r.out # <<>> => c.spilled)
    BY <1>4 DEF CutAt, Segmented, OkToCut
<1>7. r.out = <<>>
    BY <1>6
<1>8. r.st \in Engine /\ Typed(r.st) = Typed(st)
    <2>1. r.st \in Engine /\ r.st.pending = <<>> /\ KeysOf(r.out) \o Flat(r.st.reading) = Typed(st)
        BY <1>3 DEF IsSettled, Step, Good
    <2> QED BY <1>2, <1>7, <2>1, KeptTyped
<1>9. Typed(c.st) = Typed(r.st)
    <2>1. c.st.reading = r.st.reading /\ c.st.pending = r.st.pending
        BY <1>6, <1>8 DEF Engine
    <2> QED BY <2>1 DEF Typed
<1> QED BY <1>8, <1>9

\* Words, with and without separators.
LEMMA NoSepWords ==
    /\ \A s \in Words : s \in Seq(AnyKey) /\ NoSep(s) \in Words
    /\ \A s, t \in Words : NoSep(s \o t) = NoSep(s) \o NoSep(t)
    /\ NoSep(<<>>) = <<>>
<1>1. Printable \subseteq AnyKey
    BY DEF AnyKey
<1>2. \A s \in Words : s \in Seq(AnyKey)
    BY <1>1, SeqSub DEF Words
<1> QED BY <1>2, NoSepIs

\* A key that is not kept leaves no trace.
LEMMA OnlyDrops ==
    ASSUME NEW K, NEW S, NEW s \in Seq(S), NEW x \in S, x \notin K
    PROVE  Only(K, Append(s, x)) = Only(K, s)
<1>1. \A y \in S : Only(K, Append(s, y)) = Only(K, s) \o (IF y \in K THEN <<y>> ELSE <<>>)
    <2> TAKE y \in S
    <2> QED BY OnlyAppend
<1>2. Only(K, Append(s, x)) = Only(K, s) \o <<>>
    BY <1>1
<1>3. Only(K, s) \in Seq(S \cap K)
    BY OnlyType
<1> QED BY <1>2, <1>3

\* A separator is not text.
LEMMA NoSepOfSep == NoSep(<<Sep>>) = <<>>
<1> DEFINE K == Printable \ {Sep}
           S == Printable \cup {Sep}
<1>1. NoSep(<<Sep>>) = Only(K, <<Sep>>)
    BY DEF NoSep
<1>2. <<>> \in Seq(S) /\ Sep \in S /\ Sep \notin K /\ <<Sep>> = Append(<<>>, Sep)
    OBVIOUS
<1> HIDE DEF K, S
<1>3. Only(K, Append(<<>>, Sep)) = Only(K, <<>>)
    BY <1>2, OnlyDrops
<1> QED BY <1>1, <1>2, <1>3, OnlyEmpty

\* A unit that is a separator is no text.
LEMMA SepIsNoText ==
    ASSUME NEW a \in Words, Sep \in Printable
    PROVE  NoSep(a \o <<Sep>>) = NoSep(a)
<1>1. <<Sep>> \in Words
    BY DEF Words
<1>2. NoSep(a \o <<Sep>>) = NoSep(a) \o NoSep(<<Sep>>) /\ NoSep(a) \in Words
    BY <1>1, NoSepWords
<1> QED BY <1>2, NoSepOfSep, WordsJoin

\* A key that the engine takes and that is no text: one that ends an unmatched
\* sequence, which is cancelled, and a digit a full reading in V mode has no room for.
Drops(l, st, ch) ==
    /\ l.cancel /\ st.pending # <<>> /\ ~(l.zh /\ ch = Sep)
    /\ ~HasLonger(l, Append(st.pending, ch)) /\ ~Exact(l, Append(st.pending, ch))
Refuses(l, st, ch) ==
    /\ st.pending = <<>> /\ IsVMode(l, st.reading) /\ ch \in Digits
    /\ Len(st.reading) = MaxReading

IsTyped(l, st, ch, r) ==
    /\ r.eaten = TRUE
    /\ Drops(l, st, ch) => NoSep(After(r)) = NoSep(Flat(st.reading))
    /\ Refuses(l, st, ch) => NoSep(After(r)) = NoSep(Typed(st))
    /\ ~Drops(l, st, ch) /\ ~Refuses(l, st, ch) => NoSep(After(r)) = NoSep(Typed(st)) \o NoSep(<<ch>>)

\* A result that only changes the engine.
LEMMA QuietResult ==
    ASSUME NEW st \in Engine, NEW e
    PROVE  /\ Result(st, <<>>, e).st = st /\ Result(st, <<>>, e).out = <<>>
           /\ Result(st, <<>>, e).eaten = e /\ After(Result(st, <<>>, e)) = Typed(st)
<1>1. Result(st, <<>>, e).st = st /\ Result(st, <<>>, e).out = <<>> /\ Result(st, <<>>, e).eaten = e
    BY DEF Result
<1>2. After(Result(st, <<>>, e)) = <<>> \o Typed(st)
    BY <1>1, KeysOfEmpty DEF After
<1> QED BY <1>1, <1>2, EngineIs, WordsJoin

LEMMA SepTyped ==
    ASSUME NEW l, Layout(l), l.zh, l.cand, NEW st, Good(l, st), Sep \in Printable, ~Idle(st)
    PROVE  IsTyped(l, st, Sep, WithSep(Settle(l, st)))
<1> DEFINE q == Settle(l, st)
           r == WithSep(q)
<1>1. IsSettled(l, st, q)
    BY SettleIs
<1> HIDE DEF q
<1>2. /\ q.st \in Engine /\ q.st.pending = <<>> /\ q.eaten = TRUE /\ q.out \in Pieces(Printable)
      /\ KeysOf(q.out) \o Flat(q.st.reading) = Typed(st) /\ q \in Results /\ KeysOf(q.out) \in Words
    <2>1. q \in Results
        BY <1>1 DEF IsSettled, Step
    <2> QED BY <1>1, <2>1, OursAreKeys DEF IsSettled, Results
<1> DEFINE k == KeysOf(q.out)
           f == Flat(q.st.reading)
<1>3. k \in Words /\ f \in Words /\ Typed(q.st) = f \o <<>> /\ k \o f = Typed(st)
    BY <1>2, EngineIs
<1>4. r.eaten = TRUE /\ NoSep(After(r)) = NoSep(Typed(st))
    <2>1. CASE r = q
        <3>1. After(r) = k \o f
            BY <1>3, <2>1, WordsJoin DEF After
        <3> QED BY <1>2, <1>3, <2>1, <3>1
    <2>2. CASE /\ Len(q.st.reading) < MaxReading
               /\ r = [q EXCEPT !.st = NewReading(@, Append(@.reading, <<Sep>>))]
        <3> DEFINE u == Append(q.st.reading, <<Sep>>)
                   s == NewReading(q.st, u)
        <3>1. u \in Readings /\ Flat(u) = f \o <<Sep>>
            <4>1. <<Sep>> \in Unit /\ q.st.reading \in Readings /\ Len(q.st.reading) \in Nat
                BY <1>2, SepIs, EngineIs, ReadingsAre
            <4>2. Len(q.st.reading) # MaxReading
                BY <2>2, <4>1, MaxReadingIs
            <4> QED BY <4>1, <4>2, ReadingsAre
        <3> HIDE DEF u
        <3>2. s \in Engine /\ s.reading = u /\ s.pending = <<>>
            BY <1>2, <3>1, NewReadingIs
        <3>3. r.st = s /\ r.out = q.out /\ r.eaten = TRUE
            BY <1>2, <2>2 DEF Results, u
        <3> HIDE DEF s, r
        <3>4. Typed(s) = (f \o <<Sep>>) \o <<>>
            BY <3>1, <3>2, EngineIs
        <3>5. <<Sep>> \in Words
            BY SepIs DEF Unit
        <3> HIDE DEF f, k
        <3>6. After(r) = (k \o f) \o <<Sep>>
            BY <1>3, <3>3, <3>4, <3>5, WordsJoin DEF After, k
        <3>7. NoSep(After(r)) = NoSep(k \o f)
            BY <1>3, <3>6, SepIsNoText, WordsJoin
        <3> QED BY <1>3, <3>3, <3>7
    <2> QED BY <2>1, <2>2 DEF WithSep
<1>5. ~Drops(l, st, Sep) /\ ~Refuses(l, st, Sep)
    BY DEF Drops, Refuses, Digits, Sep
<1>6. NoSep(Typed(st)) \o NoSep(<<Sep>>) = NoSep(Typed(st))
    BY <1>3, NoSepOfSep, NoSepWords, WordsJoin
<1> HIDE DEF r
<1> QED BY <1>4, <1>5, <1>6 DEF IsTyped, r, q

\* A digit in V mode is added to the reading, or refused when it is full.
LEMMA DigitLedger ==
    ASSUME NEW l, l.zh, NEW st, Good(l, st), NEW ch \in Printable, st.pending = <<>>,
           IsVMode(l, st.reading), ch \in Digits
    PROVE  IsTyped(l, st, ch, Result(IF Len(st.reading) < MaxReading
                                     THEN NewReading(st, Append(st.reading, <<ch>>)) ELSE st, <<>>, TRUE))
<1> DEFINE f == Flat(st.reading)
<1>1. /\ st \in Engine /\ st.reading \in Readings /\ f \in Words /\ Typed(st) = f \o <<>>
      /\ <<ch>> \in Unit /\ <<ch>> \in Words /\ Len(st.reading) \in Nat /\ Len(st.reading) <= MaxReading
    <2>1. st \in Engine
        BY DEF Good
    <2>2. <<ch>> \in Unit /\ <<ch>> \in Words
        BY WordsJoin, KeyAppended DEF Unit
    <2> QED BY <2>1, <2>2, EngineIs, ReadingsAre
<1>2. Typed(st) = f /\ NoSep(f) \in Words
    BY <1>1, WordsJoin, NoSepWords
<1>3. ~Drops(l, st, ch)
    BY DEF Drops
<1>4. CASE Len(st.reading) < MaxReading
    <2> DEFINE u == Append(st.reading, <<ch>>)
               s == NewReading(st, u)
               r == Result(s, <<>>, TRUE)
    <2>1. u \in Readings /\ Flat(u) = f \o <<ch>>
        <3>1. Len(st.reading) # MaxReading
            BY <1>1, <1>4
        <3> QED BY <1>1, <3>1, ReadingsAre
    <2> HIDE DEF u
    <2>2. s \in Engine /\ s.reading = u /\ s.pending = <<>>
        BY <1>1, <2>1, NewReadingIs
    <2> HIDE DEF s, f
    <2>3. r.eaten = TRUE /\ After(r) = Typed(s)
        BY <2>2, QuietResult
    <2> HIDE DEF r
    <2>4. Typed(s) = (f \o <<ch>>) \o <<>>
        BY <2>1, <2>2, EngineIs
    <2>5. NoSep(After(r)) = NoSep(f) \o NoSep(<<ch>>)
        <3>1. f \o <<ch>> \in Words /\ (f \o <<ch>>) \o <<>> = f \o <<ch>>
            BY <1>1, WordsJoin
        <3>2. NoSep(f \o <<ch>>) = NoSep(f) \o NoSep(<<ch>>)
            BY <1>1, NoSepWords
        <3> QED BY <2>3, <2>4, <3>1, <3>2
    <2>6. ~Refuses(l, st, ch)
        BY <1>1, <1>4 DEF Refuses
    <2>7. IsTyped(l, st, ch, r)
        BY <1>2, <1>3, <2>3, <2>5, <2>6 DEF IsTyped
    <2> QED BY <1>4, <2>7 DEF r, s, u
<1>5. CASE ~(Len(st.reading) < MaxReading)
    <2> DEFINE r == Result(st, <<>>, TRUE)
    <2>1. Refuses(l, st, ch)
        BY <1>1, <1>5, MaxReadingIs DEF Refuses
    <2>2. r.eaten = TRUE /\ After(r) = Typed(st)
        BY <1>1, QuietResult
    <2> HIDE DEF r
    <2>3. IsTyped(l, st, ch, r)
        BY <1>3, <2>1, <2>2 DEF IsTyped
    <2> QED BY <1>5, <2>3 DEF r
<1> QED BY <1>4, <1>5

\* Keys that stay pending wait behind those of the reading.
LEMMA PendingLedger ==
    ASSUME NEW st \in Engine, NEW p \in Words
    PROVE  LET r == Result([st EXCEPT !.pending = p], <<>>, TRUE)
           IN  r.eaten = TRUE /\ After(r) = Flat(st.reading) \o p
<1> DEFINE s == [st EXCEPT !.pending = p]
<1>1. s \in Engine /\ s.pending = p /\ s.reading = st.reading
    BY DEF Engine
<1> HIDE DEF s
<1>2. After(Result(s, <<>>, TRUE)) = Typed(s) /\ Result(s, <<>>, TRUE).eaten = TRUE
    BY <1>1, QuietResult
<1> QED BY <1>1, <1>2, EngineIs DEF s

\* A finished entry delivered: its keys follow those of the reading.
LEMMA WordLedger ==
    ASSUME NEW l, NEW st, Good(l, st), NEW x \in Unit
    PROVE  LET r == Deliver(l, Result([st EXCEPT !.pending = <<>>], <<>>, TRUE), x)
           IN  r.eaten = TRUE /\ After(r) = Flat(st.reading) \o x
<1> DEFINE s == [st EXCEPT !.pending = <<>>]
           q == Result(s, <<>>, TRUE)
           r == Deliver(l, q, x)
<1>1. s \in Engine /\ s.reading = st.reading /\ s.pending = <<>> /\ Step(l, st, q) /\ q.st = s
    <2>1. <<>> \in Words
        BY WordsJoin
    <2>2. IsPending(l, st, <<>>, s)
        BY <2>1, PendingIs
    <2> QED BY <2>2 DEF IsPending
<1>2. q.out = <<>> /\ q.eaten = TRUE
    BY DEF Result
<1> HIDE DEF s, q
<1>3. Delivered(l, q, r, x) /\ q \in Results
    BY <1>1, DeliverIs DEF Step
<1> HIDE DEF r
<1>4. /\ r \in Results /\ r.eaten = TRUE /\ r.st.pending = <<>>
      /\ KeysOf(r.out) \o Flat(r.st.reading) = (KeysOf(q.out) \o Flat(st.reading)) \o x
    BY <1>1, <1>2, <1>3 DEF Delivered, Good
<1>5. r.st \in Engine /\ Flat(st.reading) \in Words
    BY <1>4, EngineIs DEF Good, Results
<1>6. Typed(r.st) = Flat(r.st.reading)
    BY <1>4, <1>5, EngineIs, WordsJoin
<1>7. KeysOf(q.out) \o Flat(st.reading) = Flat(st.reading)
    BY <1>2, <1>5, KeysOfEmpty, WordsJoin
<1> QED BY <1>4, <1>6, <1>7 DEF After, r, q, s

\* A key is the newest of what is accounted for, unless it drops or is refused (SeqKb_Key).
LEMMA KeyLedger ==
    ASSUME NEW l, Layout(l), l.zh => l.cand, NEW st, Good(l, st), NEW ch \in Printable,
           SeqKb_WouldEat(l, st, ch)
    PROVE  IsTyped(l, st, ch, SeqKb_Key(l, st, ch))
<1> DEFINE buf == Append(st.pending, ch)
           r == SeqKb_Key(l, st, ch)
<1>0. /\ st \in Engine /\ st.pending \in Words /\ buf \in Words /\ buf \in Unit /\ <<ch>> \in Words
      /\ Flat(st.reading) \in Words /\ Typed(st) = Flat(st.reading) \o st.pending
      /\ buf = st.pending \o <<ch>>
    <2>1. st \in Engine /\ st.pending \in Words
        BY EngineIs DEF Good
    <2>2. buf \in Words /\ buf \in Unit /\ <<ch>> \in Words
        BY <2>1, KeyAppended DEF Unit
    <2>3. buf = st.pending \o <<ch>>
        BY <2>1 DEF Words
    <2> QED BY <2>1, <2>2, <2>3, EngineIs
<1>1. CASE l.zh /\ ch = Sep /\ ~Idle(st)
    <2>1. IsTyped(l, st, ch, WithSep(Settle(l, st)))
        BY <1>1, SepTyped
    <2> QED BY <1>1, <2>1 DEF SeqKb_Key
<1>2. CASE ~(l.zh /\ ch = Sep /\ ~Idle(st))
    <2>1. CASE l.zh /\ st.pending = <<>> /\ IsVMode(l, st.reading) /\ ch \in Digits
        <3> DEFINE q == Result(IF Len(st.reading) < MaxReading
                               THEN NewReading(st, Append(st.reading, <<ch>>)) ELSE st, <<>>, TRUE)
        <3>1. r = q
            BY <1>2, <2>1 DEF SeqKb_Key
        <3>2. IsTyped(l, st, ch, q)
            BY <2>1, DigitLedger
        <3> HIDE DEF q, r
        <3>3. IsTyped(l, st, ch, r)
            BY <3>1, <3>2
        <3> QED BY <3>3 DEF r
    <2>2. CASE ~(l.zh /\ st.pending = <<>> /\ IsVMode(l, st.reading) /\ ch \in Digits)
        <3>1. ~Refuses(l, st, ch)
            BY <2>2 DEF Refuses, IsVMode
        <3>2. ~(l.zh /\ ch = Sep)
            BY <1>2, <2>2 DEF SeqKb_WouldEat
        <3>3. \/ HasLonger(l, buf) /\ r = Result([st EXCEPT !.pending = buf], <<>>, TRUE)
              \/ Exact(l, buf) /\ r = Deliver(l, Result([st EXCEPT !.pending = <<>>], <<>>, TRUE), buf)
              \/ /\ ~HasLonger(l, buf) /\ ~Exact(l, buf) /\ l.cancel
                 /\ r = Result([st EXCEPT !.pending = <<>>], <<>>, TRUE)
              \/ ~l.cancel /\ r = FlushBuf(l, st, buf, "key")
            BY <1>2, <2>2 DEF SeqKb_Key
        <3>4. st.pending = <<>> => HasLonger(l, buf) \/ Exact(l, buf)
            <4> SUFFICES ASSUME st.pending = <<>> PROVE HasLonger(l, buf) \/ Exact(l, buf)
                OBVIOUS
            <4>1. buf = <<ch>>
                BY DEF Words
            <4> HIDE DEF buf
            <4> QED BY <2>2, <3>2, <4>1 DEF SeqKb_WouldEat
        <3> DEFINE f == Flat(st.reading)
                   Grown == r.eaten = TRUE /\ After(r) = f \o buf
        <3>5. Drops(l, st, ch) <=> l.cancel /\ st.pending # <<>> /\ ~HasLonger(l, buf) /\ ~Exact(l, buf)
            BY <3>2 DEF Drops
        <3> HIDE DEF buf, r
        <3>6. ASSUME Grown, ~Drops(l, st, ch) PROVE IsTyped(l, st, ch, r)
            <4>1. f \o (st.pending \o <<ch>>) = (f \o st.pending) \o <<ch>> /\ f \o st.pending \in Words
                BY <1>0, WordsJoin, ZenonT(40)
            <4>2. NoSep(After(r)) = NoSep(Typed(st)) \o NoSep(<<ch>>)
                <5>1. After(r) = (f \o st.pending) \o <<ch>> /\ Typed(st) = f \o st.pending
                    BY <1>0, <3>6, <4>1
                <5> HIDE DEF f
                <5>2. NoSep((f \o st.pending) \o <<ch>>) = NoSep(f \o st.pending) \o NoSep(<<ch>>)
                    BY <1>0, <4>1, NoSepWords
                <5> QED BY <5>1, <5>2
            <4> QED BY <3>1, <3>6, <4>2 DEF IsTyped
        <3>7. CASE HasLonger(l, buf) /\ r = Result([st EXCEPT !.pending = buf], <<>>, TRUE)
            <4>1. Grown
                BY <1>0, <3>7, PendingLedger
            <4> QED BY <3>5, <3>6, <3>7, <4>1 DEF r
        <3>8. CASE Exact(l, buf) /\ r = Deliver(l, Result([st EXCEPT !.pending = <<>>], <<>>, TRUE), buf)
            <4>1. Grown
                BY <1>0, <3>8, WordLedger
            <4> QED BY <3>5, <3>6, <3>8, <4>1 DEF r
        <3>9. CASE /\ ~HasLonger(l, buf) /\ ~Exact(l, buf) /\ l.cancel
                   /\ r = Result([st EXCEPT !.pending = <<>>], <<>>, TRUE)
            <4>1. r.eaten = TRUE /\ After(r) = f \o <<>>
                BY <1>0, <3>9, WordsJoin, PendingLedger
            <4>2. Drops(l, st, ch)
                BY <3>4, <3>5, <3>9
            <4>3. NoSep(After(r)) = NoSep(f)
                BY <1>0, <4>1, WordsJoin
            <4>4. IsTyped(l, st, ch, r)
                BY <3>1, <4>1, <4>2, <4>3 DEF IsTyped
            <4> QED BY <4>4 DEF r
        <3>10. CASE ~l.cancel /\ r = FlushBuf(l, st, buf, "key")
            <4>1. IsFlushed(l, st, buf, "key", FlushBuf(l, st, buf, "key"))
                BY <1>0, FlushBufIs
            <4>2. Grown
                BY <3>10, <4>1 DEF IsFlushed, After
            <4> QED BY <3>5, <3>6, <3>10, <4>2 DEF r
        <3> QED BY <3>3, <3>7, <3>8, <3>9, <3>10
    <2> QED BY <2>1, <2>2
<1> QED BY <1>1, <1>2

LEMMA FrontAndLast ==
    ASSUME NEW S, NEW s \in Seq(S), s # <<>>
    PROVE  Front(s) \in Seq(S) /\ Last(s) \in S /\ s = Front(s) \o <<Last(s)>> /\ s = Append(Front(s), Last(s))
<1>1. Len(s) \in 1 .. Len(s) /\ SubSeq(s, 1, Len(s)) = s
    BY EmptySeq, LenProperties
<1>2. SubSeq(s, 1, Len(s) - 1) \in Seq(S) /\ s[Len(s)] \in S
      /\ SubSeq(s, 1, Len(s)) = SubSeq(s, 1, Len(s) - 1) \o <<s[Len(s)]>>
    BY <1>1, OneMoreOf
<1>3. Front(s) = SubSeq(s, 1, Len(s) - 1) /\ Last(s) = s[Len(s)]
    BY DEF Front, Last
<1> HIDE DEF Front, Last
<1>4. Front(s) \in Seq(S) /\ Last(s) \in S /\ s = Front(s) \o <<Last(s)>>
    BY <1>1, <1>2, <1>3
<1> QED BY <1>4

\* The last key, or the last unit, that waits in the engine.
LastWaiting(st) ==
    IF st.pending # <<>> THEN <<Last(st.pending)>>
    ELSE IF st.reading # <<>> THEN Last(st.reading) ELSE <<>>
IsTakenBack(st, r, last) ==
    /\ r.out = <<>> /\ (Idle(st) => r.eaten = FALSE) /\ (~Idle(st) => r.eaten = TRUE)
    /\ After(r) \in Words /\ last \in Words /\ Typed(st) = After(r) \o last

\* Backspace takes back what waited last, and nothing else.
LEMMA BackspaceLedger ==
    ASSUME NEW st \in Engine
    PROVE  IsTakenBack(st, SeqKb_Backspace(st), LastWaiting(st))
<1> DEFINE r == SeqKb_Backspace(st)
           f == Flat(st.reading)
<1>0. /\ st.pending \in Words /\ st.reading \in Units /\ st.reading \in Readings
      /\ f \in Words /\ Typed(st) = f \o st.pending
    BY EngineIs, ReadingsAre
<1>1. CASE st.pending # <<>>
    <2> DEFINE p == Front(st.pending)
               last == <<Last(st.pending)>>
    <2>1. p \in Words /\ last \in Words /\ st.pending = p \o last
        <3>1. st.pending \in Seq(Printable)
            BY <1>0 DEF Words
        <3>2. p \in Seq(Printable) /\ Last(st.pending) \in Printable /\ st.pending = p \o last
            BY <1>1, <3>1, FrontAndLast
        <3> QED BY <3>2 DEF Words
    <2>2. r = Result([st EXCEPT !.pending = p], <<>>, TRUE) /\ r.out = <<>>
        BY <1>1 DEF SeqKb_Backspace, Result
    <2> HIDE DEF p, last, f, r
    <2>3. r.eaten = TRUE /\ After(r) = f \o p
        BY <2>1, <2>2, PendingLedger DEF f
    <2>4. f \o (p \o last) = (f \o p) \o last /\ f \o p \in Words
        BY <1>0, <2>1, WordsJoin
    <2>5. Typed(st) = After(r) \o last
        BY <1>0, <2>1, <2>3, <2>4
    <2>6. LastWaiting(st) = last /\ ~Idle(st)
        BY <1>1 DEF LastWaiting, Idle, last
    <2> QED BY <2>1, <2>2, <2>3, <2>4, <2>5, <2>6 DEF IsTakenBack, r
<1>2. CASE st.pending = <<>> /\ st.reading # <<>>
    <2> DEFINE u == Front(st.reading)
               last == Last(st.reading)
               s == [NewReading(st, u) EXCEPT !.open = FALSE]
    <2>1. u \in Units /\ last \in Unit /\ st.reading = Append(u, last) /\ u \in Readings
        BY <1>0, <1>2, FrontAndLast, FrontIs DEF Units
    <2>2. r = Result(s, <<>>, TRUE)
        BY <1>2 DEF SeqKb_Backspace
    <2> HIDE DEF u, last, f
    <2>3. s \in Engine /\ s.reading = u /\ s.pending = <<>>
        <3>1. NewReading(st, u) \in Engine /\ NewReading(st, u).reading = u /\ NewReading(st, u).pending = <<>>
            BY <1>2, <2>1, NewReadingIs
        <3> QED BY <3>1 DEF Engine
    <2> HIDE DEF s, r
    <2>4. r.eaten = TRUE /\ r.out = <<>> /\ After(r) = Typed(s)
        BY <2>2, <2>3, QuietResult
    <2>5. Typed(s) = Flat(u) /\ Flat(u) \in Words
        BY <2>3, EngineIs, WordsJoin
    <2>6. f = Flat(u) \o last /\ last \in Words
        BY <2>1, UnitsJoin DEF f, Unit
    <2>7. Typed(st) = After(r) \o last
        BY <1>0, <1>2, <2>4, <2>5, <2>6, WordsJoin
    <2>8. LastWaiting(st) = last /\ ~Idle(st)
        BY <1>2 DEF LastWaiting, Idle, last
    <2> QED BY <2>4, <2>5, <2>6, <2>7, <2>8 DEF IsTakenBack, r
<1>3. CASE st.pending = <<>> /\ st.reading = <<>>
    <2>1. r = Result(st, <<>>, FALSE)
        BY <1>3 DEF SeqKb_Backspace
    <2> HIDE DEF r
    <2>2. r.eaten = FALSE /\ r.out = <<>> /\ After(r) = Typed(st)
        BY <2>1, QuietResult
    <2>3. Typed(st) \in Words /\ Typed(st) \o <<>> = Typed(st) /\ <<>> \in Words
        BY EngineIs, WordsJoin
    <2>4. LastWaiting(st) = <<>> /\ Idle(st)
        BY <1>3 DEF LastWaiting, Idle
    <2> QED BY <2>2, <2>3, <2>4 DEF IsTakenBack, r
<1> QED BY <1>1, <1>2, <1>3

LEMMA IdleIs == \A st \in Engine : Idle(st) => Typed(st) = <<>>
<1>1. Flat(<<>>) = <<>> /\ <<>> \o <<>> = <<>>
    BY FlatEmpty, WordsJoin
<1> QED BY <1>1 DEF Typed, Idle

\* Esc takes back all that waits, and nothing else.
LEMMA CancelLedger ==
    ASSUME NEW l, NEW st, Good(l, st)
    PROVE  IsTakenBack(st, SeqKb_Cancel(st), Typed(st))
<1> DEFINE r == SeqKb_Cancel(st)
<1>1. Step(l, st, r) /\ Idle(r.st) /\ r.out = <<>> /\ r.st \in Engine /\ st \in Engine
    BY CancelIs DEF Step, Good
<1>2. (Idle(st) => r.eaten = FALSE) /\ (~Idle(st) => r.eaten = TRUE)
    BY DEF SeqKb_Cancel, Result
<1> HIDE DEF r
<1>3. After(r) = <<>>
    BY <1>1, IdleIs, KeysOfEmpty, WordsJoin DEF After
<1>4. Typed(st) \in Words /\ Typed(st) = <<>> \o Typed(st) /\ <<>> \in Words
    BY <1>1, EngineIs, WordsJoin
<1> QED BY <1>1, <1>2, <1>3, <1>4 DEF IsTakenBack, r

\* What a flush commits is what was typed.
LEMMA FlushLedger ==
    ASSUME NEW l, Layout(l), NEW st, Good(l, st)
    PROVE  After(SeqKb_Flush(l, st)) = Typed(st)
<1> DEFINE r == SeqKb_Flush(l, st)
<1>1. IsFlush(l, st, r)
    BY FlushIs
<1> HIDE DEF r
<1>2. Idle(r.st) /\ r.st \in Engine /\ KeysOf(r.out) = Typed(st) /\ st \in Engine
    BY <1>1 DEF IsFlush, Step, Good
<1>3. Typed(st) \in Words
    BY <1>2, EngineIs
<1> QED BY <1>2, <1>3, IdleIs, WordsJoin DEF After, r

\* Separators after the first k units are no text.
LEMMA SepsAreNoText ==
    ASSUME NEW units \in Units, NEW k \in 0 .. Len(units), NEW m, SepsEnd(units, k, m)
    PROVE  NoSep(Flat(SubSeq(units, 1, m))) = NoSep(Flat(SubSeq(units, 1, k)))
<1> DEFINE N == Len(units)
           T(i) == NoSep(Flat(SubSeq(units, 1, i)))
           P == {i \in 0 .. N : i < k \/ i > m \/ T(i) = T(k)}
<1>1. N \in Nat /\ k \in 0 .. N /\ m \in k .. N /\ units \in Seq(Unit)
      /\ \A j \in k + 1 .. m : units[j] = <<Sep>>
    BY DEF SepsEnd, Units
<1>2. ASSUME NEW i \in 0 .. N, \A j \in 0 .. i - 1 : j \in P PROVE i \in P
    <2>1. CASE i < k \/ i > m \/ i = k
        BY <2>1
    <2>2. CASE ~(i < k \/ i > m \/ i = k)
        <3>1. i \in k + 1 .. m /\ i - 1 \in 0 .. i - 1 /\ ~(i - 1 < k) /\ ~(i - 1 > m) /\ i \in 1 .. N
            BY <1>1, <2>2
        <3>2. T(i - 1) = T(k)
            <4>1. i - 1 \in P
                BY <1>2, <3>1
            <4> QED BY <3>1, <4>1
        <3> DEFINE pre == SubSeq(units, 1, i - 1)
                   one == units[i]
        <3>3. pre \in Units /\ one \in Unit /\ SubSeq(units, 1, i) = pre \o <<one>> /\ one = <<Sep>>
            <4>1. pre \in Seq(Unit) /\ one \in Unit /\ SubSeq(units, 1, i) = pre \o <<one>>
                BY <1>1, <3>1, OneMoreOf
            <4> QED BY <1>1, <3>1, <4>1 DEF Units
        <3>4. T(i) = NoSep(Flat(pre \o <<one>>)) /\ T(i - 1) = NoSep(Flat(pre))
            BY <3>3
        <3> HIDE DEF pre, one, T
        <3>5. Flat(pre \o <<one>>) = Flat(pre) \o one /\ Flat(pre) \in Words
            <4>1. <<one>> \in Units /\ Flat(<<one>>) = one
                BY <3>3, UnitsJoin, FlatOne DEF Unit
            <4> DEFINE y == <<one>>
            <4>2. pre \in Units /\ y \in Units /\ Flat(y) = one
                BY <3>3, <4>1
            <4> HIDE DEF y
            <4>3. Flat(pre \o y) = Flat(pre) \o Flat(y) /\ Flat(pre) \in Words
                BY <4>2, UnitsJoin, UnitsAreWords
            <4> QED BY <4>2, <4>3 DEF y
        <3>6. Sep \in Printable
            <4>1. <<Sep>> \in Seq(Printable)
                BY <3>3 DEF Unit, Words
            <4> QED BY <4>1
        <3>7. NoSep(Flat(pre) \o <<Sep>>) = NoSep(Flat(pre))
            BY <3>5, <3>6, SepIsNoText
        <3>8. T(i) = T(k)
            BY <3>2, <3>3, <3>4, <3>5, <3>7
        <3> QED BY <3>8
    <2> QED BY <2>1, <2>2
<1>3. m \in P
    <2> HIDE DEF P, N
    <2>1. \A i \in 0 .. N : i \in P
        BY <1>1, <1>2, UpTo
    <2>2. m \in 0 .. N
        BY <1>1
    <2> QED BY <2>1, <2>2
<1>4. ~(m < k) /\ ~(m > m)
    BY <1>1
<1> HIDE DEF T
<1>5. T(m) = T(k)
    BY <1>3, <1>4
<1> QED BY <1>5 DEF T

\* A choice commits the keys it covers and keeps the rest.
LEMMA ChooseLedger ==
    ASSUME NEW l, NEW st, Good(l, st), NEW cands, NEW n, cands.gen = st.gen,
           n \in 1 .. Len(cands.items), CandsFit(cands.items, st.reading),
           SeqKb_Choose(l, st, cands, n).st.pending = st.pending
    PROVE  NoSep(After(SeqKb_Choose(l, st, cands, n))) = NoSep(Typed(st))
<1> DEFINE c == cands.items[n]
           r == SeqKb_Choose(l, st, cands, n)
           units == st.reading
           m == Used(st, c)
           u == AfterUsed(st, c)
           p == PendingAfter(st, c)
           s == [NewReading(st, u) EXCEPT !.open = FALSE, !.pending = p]
           o == <<[keys |-> c.keys, as |-> c.as]>>
<1>1. st \in Engine /\ st.pending \in Words /\ units \in Units /\ Typed(st) = Flat(units) \o st.pending
      /\ Len(units) \in Nat
    BY EngineIs, ReadingsAre DEF Good
<1>2. IsCandidate(c, units)
    BY DEF CandsFit
<1>3. r = Result(s, o, TRUE)
    BY ChooseDef
<1> HIDE DEF c, r
<1>4. c.keys \in Words /\ c.as \in Manners /\ c.used \in 1 .. Len(units)
      /\ c.keys = Flat(SubSeq(units, 1, c.used))
    BY <1>2 DEF IsCandidate, Items1
<1>5. SepsEnd(units, c.used, m)
    BY <1>1, <1>2, UsedIs
<1> HIDE DEF m
<1>6. m \in 0 .. Len(units) /\ c.used \in 0 .. Len(units)
    BY <1>1, <1>4, <1>5 DEF SepsEnd
<1>7. u = SubSeq(units, m + 1, Len(units))
    BY DEF AfterUsed, m
<1> DEFINE a == Flat(SubSeq(units, 1, m))
           b == Flat(u)
<1>8. a \in Words /\ b \in Words /\ Flat(units) = a \o b
    <2>1. /\ SubSeq(units, 1, m) \in Units /\ SubSeq(units, m + 1, Len(units)) \in Units
          /\ units = SubSeq(units, 1, m) \o SubSeq(units, m + 1, Len(units))
        BY <1>1, <1>6, FirstUnits
    <2> DEFINE x == SubSeq(units, 1, m)
    <2>2. x \in Units /\ u \in Units /\ units = x \o u
        BY <1>7, <2>1
    <2> HIDE DEF u, x, units
    <2>3. Flat(units) = Flat(x) \o Flat(u) /\ Flat(x) \in Words /\ Flat(u) \in Words
        BY <2>2, UnitsJoin, UnitsAreWords
    <2> QED BY <2>3 DEF x
<1>9. s.reading = u /\ s.pending = st.pending /\ r.out = o
    <2>1. s.reading = u /\ s.pending = p
        BY <1>1 DEF Engine, NewReading
    <2>2. r.st = s /\ r.out = o
        BY <1>3 DEF Result
    <2> HIDE DEF s, o
    <2> QED BY <2>1, <2>2 DEF r
<1>10. KeysOf(o) = c.keys
    BY <1>4, KeysOfOne DEF Words
<1> HIDE DEF u, o, b
<1>11. After(r) = c.keys \o (b \o st.pending)
    <2>1. r.st = s
        BY <1>3 DEF Result
    <2> HIDE DEF s
    <2> QED BY <1>9, <1>10, <2>1 DEF After, Typed, b
<1>12. NoSep(c.keys) = NoSep(a)
    BY <1>1, <1>4, <1>5, <1>6, SepsAreNoText
<1> HIDE DEF a, units
<1> DEFINE q == b \o st.pending
<1>13. Typed(st) = a \o q /\ q \in Words
    <2> DEFINE e == st.pending
    <2>1. a \in Words /\ b \in Words /\ e \in Words /\ Typed(st) = (a \o b) \o e
        BY <1>1, <1>8
    <2> HIDE DEF e
    <2>2. (a \o b) \o e = a \o (b \o e) /\ b \o e \in Words
        BY <2>1, WordsJoin
    <2> QED BY <2>1, <2>2 DEF e
<1> HIDE DEF q
<1>14. NoSep(c.keys \o q) = NoSep(c.keys) \o NoSep(q) /\ NoSep(a \o q) = NoSep(a) \o NoSep(q)
    BY <1>4, <1>8, <1>13, NoSepWords
<1> QED BY <1>11, <1>12, <1>13, <1>14 DEF r, q

\* With nothing pending a conversion spills nothing.
LEMMA NothingSpilled ==
    ASSUME NEW l, Layout(l), NEW st, Good(l, st), st.pending = <<>>, NEW how, Convert(l, st, how).ok
    PROVE  ~Convert(l, st, how).spilled
<1> DEFINE r == IF how = "live" THEN Result(st, <<>>, TRUE) ELSE Settle(l, st)
           items == Candidates(l, r.st.reading)
           c == Listed(l, st, r, how, items)
<1>1. Convert(l, st, how) = c
    BY DEF Convert, Searched
<1>2. IsSettled(l, st, Settle(l, st))
    BY SettleIs
<1>3. r.out = <<>>
    BY <1>2 DEF IsSettled, Result
<1> HIDE DEF r, items
<1>4. OkToList(l, st, r, how, items)
    <2> SUFFICES ASSUME ~OkToList(l, st, r, how, items) PROVE FALSE
        OBVIOUS
    <2>1. IsNotListed(st, r, items, c)
        BY ListedNot
    <2> HIDE DEF c
    <2> QED BY <1>1, <2>1 DEF IsNotListed
<1>5. c.spilled => r.out # <<>>
    BY <1>4 DEF Listed, Converted, OkToList
<1> HIDE DEF c
<1> QED BY <1>1, <1>3, <1>5

\* A text in front of what an operation commits.
LEMMA BeforeLedger ==
    ASSUME NEW q \in Results, NEW out \in Pieces(Printable), NEW st \in Engine, NEW e,
           NoSep(After(q)) = NoSep(Typed(st)), e = [q EXCEPT !.out = out \o @]
    PROVE  NoSep(After(e)) = NoSep(KeysOf(out) \o Typed(st))
<1>1. e.st = q.st /\ e.out = out \o q.out /\ q.st \in Engine /\ q.out \in Pieces(Printable)
    BY DEF Results
<1> DEFINE a == KeysOf(out)
           b == KeysOf(q.out)
           c == Typed(q.st)
           d == Typed(st)
<1>2. a \in Words /\ b \in Words /\ c \in Words /\ d \in Words
    BY <1>1, PiecesJoin, EngineIs
<1>3. After(e) = (a \o b) \o c
    <2>1. KeysOf(out \o q.out) = KeysOf(out) \o KeysOf(q.out)
        BY <1>1, PiecesJoin
    <2> QED BY <1>1, <2>1 DEF After
<1>4. After(q) = b \o c
    BY DEF After
<1> HIDE DEF a, b, c, d
<1> DEFINE bc == b \o c
<1>5. (a \o b) \o c = a \o bc /\ bc \in Words
    BY <1>2, WordsJoin
<1> HIDE DEF bc
<1>6. NoSep(a \o bc) = NoSep(a) \o NoSep(bc) /\ NoSep(a \o d) = NoSep(a) \o NoSep(d)
    BY <1>2, <1>5, NoSepWords
<1>7. NoSep(bc) = NoSep(d)
    BY <1>4 DEF bc, d
<1> QED BY <1>3, <1>5, <1>6, <1>7 DEF a, d

\* One round of committing the best candidates keeps every key.
LEMMA RoundLedger ==
    ASSUME NEW l, Layout(l), NEW st, Good(l, st), NEW r, Step(l, st, r), r.st.pending = <<>>
    PROVE  LET q == BestOrDone(l, r)
           IN  q.st.pending = <<>> /\ NoSep(After(q)) = NoSep(After(r))
<1> DEFINE b == BestOrDone(l, r)
<1>1. r \in Results /\ Good(l, r.st) /\ r.st \in Engine /\ r.out \in Pieces(Printable)
    BY DEF Step, Good, Results
<1>2. CASE Idle(r.st)
    BY <1>2 DEF BestOrDone
<1>3. CASE ~Idle(r.st)
    <2> DEFINE c == Convert(l, r.st, "asked")
               q == IF c.ok THEN SeqKb_Choose(l, c.st, c.cands, 1) ELSE SeqKb_Flush(l, r.st)
               e == [q EXCEPT !.out = r.out \o @]
    <2>1. b = e
        BY <1>3 DEF BestOrDone, BestOf
    <2>2. IsConverted(l, r.st, "asked", c)
        BY <1>1, ConvertIs
    <2>3. q \in Results /\ q.st.pending = <<>> /\ NoSep(After(q)) = NoSep(Typed(r.st))
        <3>1. CASE c.ok
            <4>1. /\ Good(l, c.st) /\ c.st.pending = <<>> /\ c.cands.gen = c.st.gen
                  /\ CandsFit(c.cands.items, c.st.reading) /\ 1 \in 1 .. Len(c.cands.items)
                <5>1. /\ Good(l, c.st) /\ c.st.pending = <<>> /\ c.cands.gen = c.st.gen
                      /\ CandsFit(c.cands.items, c.st.reading) /\ c.cands.items # <<>>
                    BY <2>2, <3>1 DEF IsConverted
                <5>2. c.cands.items \in Seq(Items1)
                    BY <5>1 DEF CandsFit
                <5>3. 1 \in 1 .. Len(c.cands.items)
                    BY <5>1, <5>2, EmptySeq, LenProperties
                <5> QED BY <5>1, <5>3
            <4>2. ~c.spilled
                BY <1>1, <3>1, NothingSpilled
            <4>3. Typed(c.st) = Typed(r.st)
                BY <1>1, <3>1, <4>2, ConvertKeeps
            <4> HIDE DEF c
            <4> DEFINE g == SeqKb_Choose(l, c.st, c.cands, 1)
            <4>4. IsChoice(l, c.st, c.cands, g)
                BY <4>1, ChooseIs
            <4>5. g.st.pending = <<>> /\ g \in Results
                BY <4>1, <4>4 DEF IsChoice, Step
            <4>6. NoSep(After(g)) = NoSep(Typed(c.st))
                <5>1. g.st.pending = c.st.pending
                    BY <4>1, <4>5
                <5> QED BY <4>1, <5>1, ChooseLedger
            <4>7. q = g
                BY <3>1
            <4> HIDE DEF q, g
            <4> QED BY <4>3, <4>5, <4>6, <4>7
        <3>2. CASE ~c.ok
            <4> DEFINE g == SeqKb_Flush(l, r.st)
            <4>1. IsFlush(l, r.st, g) /\ After(g) = Typed(r.st)
                BY <1>1, FlushIs, FlushLedger
            <4>2. g \in Results /\ g.st.pending = <<>>
                BY <4>1 DEF IsFlush, Step, Idle
            <4>3. q = g
                BY <3>2
            <4> HIDE DEF q, g
            <4> QED BY <4>1, <4>2, <4>3
        <3> QED BY <3>1, <3>2
    <2> HIDE DEF q, b
    <2>4. e.st = q.st
        BY <2>3 DEF Results
    <2> HIDE DEF e
    <2>5. NoSep(After(e)) = NoSep(KeysOf(r.out) \o Typed(r.st))
        BY <1>1, <2>3, BeforeLedger DEF e
    <2> QED BY <2>1, <2>3, <2>4, <2>5 DEF After, b
<1> QED BY <1>2, <1>3

\* Committing the best candidates of a reading commits every key of it.
LEMMA CommitBestLedger ==
    ASSUME NEW l, Layout(l), NEW st, Good(l, st), st.pending = <<>>
    PROVE  NoSep(After(SeqKb_CommitBest(l, st))) = NoSep(Typed(st))
<1> DEFINE N == MaxReading + 1
           g == CHOOSE f : IsBest(l, st, f)
           P == {n \in 0 .. N : /\ Step(l, st, g[n]) /\ g[n].st.pending = <<>>
                                /\ NoSep(After(g[n])) = NoSep(Typed(st))}
<1>1. IsBest(l, st, g)
    BY CommitBestExists, Zenon
<1>2. SeqKb_CommitBest(l, st) = [g[N] EXCEPT !.eaten = TRUE]
    BY CommitBestDef
<1> HIDE DEF g
<1>3. N \in Nat /\ MaxReading \in Nat /\ N = MaxReading + 1
    BY MaxReadingIs
<1>4. \A n \in 0 .. N : g[n] = IF n = 0 THEN Result(st, <<>>, TRUE) ELSE BestOrDone(l, g[n - 1])
    BY <1>1 DEF IsBest
<1>5. ASSUME NEW n \in 0 .. N, \A m \in 0 .. n - 1 : m \in P PROVE n \in P
    <2>1. CASE n = 0
        <3> DEFINE e == Result(st, <<>>, TRUE)
        <3>1. Step(l, st, e) /\ e.st = st /\ After(e) = Typed(st)
            BY NothingIs, QuietResult DEF Good
        <3> HIDE DEF e
        <3>2. g[n] = e
            BY <1>3, <1>4, <2>1 DEF e
        <3> QED BY <2>1, <3>1, <3>2
    <2>2. CASE n # 0
        <3>1. n - 1 \in 0 .. n - 1 /\ n \in 1 .. N
            BY <1>3, <2>2
        <3> DEFINE r == g[n - 1]
                   q == g[n]
        <3>2. Step(l, st, r) /\ r.st.pending = <<>> /\ NoSep(After(r)) = NoSep(Typed(st))
            <4>1. n - 1 \in P
                BY <1>5, <3>1
            <4> QED BY <4>1
        <3>3. q = BestOrDone(l, r)
            BY <1>4, <2>2
        <3> HIDE DEF r, q
        <3>4. q.st.pending = <<>> /\ NoSep(After(q)) = NoSep(After(r))
            BY <3>2, <3>3, RoundLedger
        <3>5. Step(l, st, q)
            BY <3>2, <3>3, BestOrDoneIs, StepTwice DEF Round
        <3> QED BY <3>2, <3>4, <3>5 DEF q
    <2> QED BY <2>1, <2>2
<1>6. N \in P
    <2> HIDE DEF P, N
    <2>1. \A n \in 0 .. N : n \in P
        BY <1>3, <1>5, UpTo
    <2> QED BY <1>3, <2>1
<1> DEFINE q == g[N]
           r == [q EXCEPT !.eaten = TRUE]
<1>7. Step(l, st, q) /\ NoSep(After(q)) = NoSep(Typed(st))
    BY <1>6
<1> HIDE DEF q
<1>8. r.st = q.st /\ r.out = q.out
    BY <1>7 DEF Step, Results
<1>9. After(r) = After(q)
    BY <1>8 DEF After
<1> QED BY <1>2, <1>7, <1>9 DEF q

------------------------------------------------------------------------------
(* Handlers, and what they do to the text. *)

\* What is known of the layout and of the documents.
Ready == Layout(lay) /\ (lay.zh => lay.cand) /\ (lay.ja => ~lay.zh) /\ NoDoc \notin Docs

\* The window and what it shows: all but the engine and the documents.
SameWindow(v, u) ==
    /\ u.cands = v.cands /\ u.segs = v.segs /\ u.segMode = v.segMode /\ u.win = v.win
    /\ u.onKey = v.onKey /\ u.onSegKey = v.onSegKey /\ u.ctx = v.ctx /\ u.spilled = v.spilled
SameText(v, u) == u.target = v.target /\ u.chip = v.chip /\ u.out = v.out /\ u.text = v.text

ChipIs(v) == KeysOf(v.chip) = Typed(v.st)
Home(v, o) == v.ctx = IF v.win = "none" THEN NoDoc ELSE o

\* The sentence of a segment window, and the list of a window.
InSentence(v) ==
    /\ v.segs.gen = v.st.gen /\ v.st.pending = <<>> /\ v.st.reading # <<>>
    /\ v.onSegKey /\ ~v.onKey /\ ~lay.zh
    /\ v.chip # <<>> /\ v.chip = v.st.conv /\ v.st.convGen = v.st.gen /\ ChipIs(v)
Listing(v) ==
    /\ v.cands.gen <= v.st.gen
    /\ v.cands.gen = v.st.gen =>
           /\ v.cands.items # <<>> /\ v.st.reading # <<>>
           /\ v.segMode \/ CandsFit(v.cands.items, v.st.reading)
    /\ ~Idle(v.st) => v.cands.gen = v.st.gen /\ v.st.open = TRUE
    /\ v.onKey => lay.zh
    /\ v.segMode => InSentence(v)
OwnList(v) == v.win = "own" => Listing(v)

Sound(v, o) == Kept(v) /\ ChipIs(v) /\ Home(v, o) /\ OwnList(v)

\* The text of a document, what waits for it included.  A handler that writes x leaves
\* the other documents alone, and the document with x unless something is spilled; one
\* that moves keys only leaves it with what it had.
Whole(v, o) == v.text[o] \o NoSep(Typed(v.st))
Writes(v, u, o, x) ==
    /\ \A d \in Docs \ {o} : u.text[d] = v.text[d]
    /\ v.target \in {NoDoc, o} => u.target \in {NoDoc, o}
    /\ v.spilled => u.spilled
    /\ u.spilled \/ Whole(u, o) = x
Ours(v, u) == v.out \in Pieces(Printable) => u.out \in Pieces(Printable)
Moves(v, u, o) == Writes(v, u, o, Whole(v, o)) /\ Ours(v, u)
\* Nothing written, nothing lost that is not spilled; and nothing changed that is text.
Quiet(v, u, o) ==
    /\ u.text = v.text /\ u.out = v.out /\ u.target \in {v.target, o}
    /\ v.spilled => u.spilled
    /\ u.spilled \/ Typed(u.st) = Typed(v.st)
Still(v, u) == SameText(v, u) /\ u.spilled = v.spilled /\ Typed(u.st) = Typed(v.st)

\* Two handlers in a row.
LEMMA MovesTwice ==
    ASSUME NEW v, NEW u, NEW t, NEW o, Moves(v, u, o), Moves(u, t, o)
    PROVE  Moves(v, t, o)
BY DEF Moves, Writes, Ours

LEMMA WritesThenMoves ==
    ASSUME NEW v, NEW u, NEW t, NEW o, NEW x, Writes(v, u, o, x), Moves(u, t, o)
    PROVE  Writes(v, t, o, x)
BY DEF Moves, Writes

LEMMA MovesThenWrites ==
    ASSUME NEW v, NEW u, NEW t, NEW o, NEW x, Moves(v, u, o), Writes(u, t, o, x)
    PROVE  Writes(v, t, o, x)
BY DEF Moves, Writes

LEMMA QuietMoves ==
    ASSUME NEW v, NEW u, NEW o, Quiet(v, u, o)
    PROVE  Moves(v, u, o)
BY DEF Moves, Writes, Ours, Whole, Quiet

LEMMA QuietAt ==
    ASSUME NEW v, NEW u, NEW c, NEW o, Quiet(v, u, c), c \in {NoDoc, o}
    PROVE  Moves(v, u, o)
BY DEF Moves, Writes, Ours, Whole, Quiet

LEMMA QuietBetween ==
    ASSUME NEW v, NEW u, NEW t, NEW s, NEW c, Still(v, u), Quiet(u, t, c), Still(t, s)
    PROVE  Quiet(v, s, c)
BY DEF Still, Quiet, SameText

LEMMA StillMoves ==
    ASSUME NEW v, NEW u, NEW o, Still(v, u)
    PROVE  Moves(v, u, o)
BY DEF Moves, Writes, Ours, Whole, Still, SameText

LEMMA StillTwice ==
    ASSUME NEW v, NEW u, NEW t, Still(v, u), Still(u, t)
    PROVE  Still(v, t)
BY DEF Still, SameText

\* The composition shown has the keys that wait (Composing).
LEMMA ComposingIs ==
    ASSUME NEW st \in Engine
    PROVE  Composing(st) \in Pieces(Printable) /\ KeysOf(Composing(st)) = Typed(st)
<1>1. /\ st.reading \in Units /\ Flat(st.reading) \in Words /\ st.pending \in Words
      /\ Typed(st) = Flat(st.reading) \o st.pending
    BY EngineIs, ReadingsAre
<1>2. CASE st.pending = <<>>
    <2>1. Composing(st) = AsTyped(st.reading)
        BY <1>2 DEF Composing
    <2>2. Typed(st) = Flat(st.reading)
        BY <1>1, <1>2, WordsJoin
    <2> QED BY <1>1, <2>1, <2>2, AsTypedIs
<1>3. CASE st.pending # <<>>
    <2> DEFINE u == Append(st.reading, st.pending)
    <2>1. Composing(st) = AsTyped(u)
        BY <1>3 DEF Composing
    <2>2. u \in Units /\ Flat(u) = Typed(st)
        BY <1>1, <1>3, UnitsJoin DEF Unit
    <2> HIDE DEF u
    <2> QED BY <2>1, <2>2, AsTypedIs
<1> QED BY <1>2, <1>3

LEMMA ReadingShown ==
    ASSUME NEW st \in Engine, st.pending = <<>>
    PROVE  AsTyped(st.reading) \in Pieces(Printable) /\ KeysOf(AsTyped(st.reading)) = Typed(st)
<1>1. Composing(st) = AsTyped(st.reading)
    BY DEF Composing
<1> QED BY <1>1, ComposingIs

LEMMA WithStIs ==
    ASSUME NEW v \in Service, NEW s \in Engine
    PROVE  LET u == [v EXCEPT !.st = s]
           IN  u \in Service /\ u.st = s /\ SameWindow(v, u) /\ SameText(v, u)
BY DEF Service, SameWindow, SameText

\* Segments of an older reading stay older.
LEMMA StaysSeated ==
    ASSUME NEW v \in Service, Seated(v), NEW u \in Service, u.segs = v.segs,
           u.segMode => v.segMode, Newer(v.st, u.st)
    PROVE  Seated(u)
<1>1. v.segs.gen \in Int /\ v.st.gen \in Int /\ u.st.gen \in Int
    BY DEF Service, SegsType, Engine
<1> QED BY <1>1 DEF Seated, Newer

IsAnswered(v, d, r, u) ==
    /\ Kept(u) /\ u.st = r.st /\ SameWindow(v, u)
    /\ d = NoDoc => SameText(v, u)
    /\ d # NoDoc => /\ ChipIs(u) /\ u.out = v.out \o r.out /\ u.target \in {v.target, d}
                    /\ u.text = [v.text EXCEPT ![d] = @ \o Letterly(r.out)]

\* A result of the engine, put into the document (SeqApply).
LEMMA ApplyResultIs ==
    ASSUME Ready, NEW v, Kept(v), NEW d \in Ctxs, NEW r, Step(lay, v.st, r)
    PROVE  IsAnswered(v, d, r, ApplyResult(v, d, r))
<1> DEFINE i == [v EXCEPT !.st = r.st]
           c == Composing(r.st)
           u == Apply(i, d, r.out, c)
<1>1. v \in Service /\ r.st \in Engine /\ r.out \in Pieces(Printable) /\ Good(lay, r.st) /\ Newer(v.st, r.st)
    BY DEF Kept, Step, Results
<1>2. ApplyResult(v, d, r) = u
    BY DEF ApplyResult
<1>3. i \in Service /\ i.st = r.st /\ SameWindow(v, i) /\ SameText(v, i)
    BY <1>1, WithStIs
<1>4. c \in Pieces(Printable) /\ KeysOf(c) = Typed(r.st) /\ r.out \in Texts
    BY <1>1, ComposingIs, OursAreKeys
<1> HIDE DEF i, c
<1>5. IsApplied(i, d, r.out, c, u)
    BY <1>3, <1>4, ApplyIs DEF Ready
<1> HIDE DEF u
<1>6. u \in Service /\ u.st = r.st /\ SameWindow(v, u)
    BY <1>3, <1>5 DEF IsApplied, SameCore, SameWindow
<1>7. Seated(u)
    BY <1>1, <1>6, StaysSeated DEF Kept, SameWindow
<1>8. CASE d = NoDoc
    <2>1. SameText(v, u)
        BY <1>3, <1>5, <1>8 DEF IsApplied, SameText
    <2>2. Targeted(u)
        BY <2>1 DEF Kept, Targeted, SameText
    <2> QED BY <1>1, <1>2, <1>6, <1>7, <1>8, <2>1, <2>2 DEF IsAnswered, Kept
<1>9. CASE d # NoDoc
    <2>1. /\ u.chip = c /\ u.out = v.out \o r.out /\ u.target \in {v.target, d}
          /\ u.text = [v.text EXCEPT ![d] = @ \o Letterly(r.out)]
        BY <1>3, <1>5, <1>9 DEF IsApplied, SameText
    <2>2. Targeted(u)
        BY <1>5, <1>9 DEF IsApplied, Targeted
    <2>3. ChipIs(u)
        BY <1>4, <1>6, <2>1 DEF ChipIs
    <2> QED BY <1>1, <1>2, <1>6, <1>7, <1>9, <2>1, <2>2, <2>3 DEF IsAnswered, Kept
<1> QED BY <1>8, <1>9

\* What an engine commits goes into the document, what it keeps waits for it.
LEMMA AnsweredWrites ==
    ASSUME NEW o \in Docs, NEW v, Kept(v), NEW d, NEW r, Step(lay, v.st, r), NEW u,
           IsAnswered(v, d, r, u), NoDoc \notin Docs, d = o \/ (d = NoDoc /\ r.out = <<>>)
    PROVE  Writes(v, u, o, v.text[o] \o NoSep(After(r))) /\ Ours(v, u)
<1>1. /\ v.text[o] \in Words /\ r.out \in Pieces(Printable) /\ r.out \in Texts /\ r.st \in Engine
      /\ KeysOf(r.out) \in Words /\ v.out \in Texts /\ v.text \in [Docs -> Words]
    BY OursAreKeys DEF Kept, Service, Step, Results
<1>2. Typed(r.st) \in Words /\ Words \subseteq Seq(AnyKey)
    <2>1. Printable \subseteq AnyKey
        BY DEF AnyKey
    <2>2. \A s \in Words : s \in Seq(AnyKey)
        BY <2>1, SeqSub DEF Words
    <2> QED BY <1>1, <2>2, EngineIs
<1>3. NoSep(After(r)) = Letterly(r.out) \o NoSep(Typed(r.st))
    BY <1>1, <1>2, NoSepIs DEF After, Letterly
<1>4. Letterly(r.out) \in Words /\ NoSep(Typed(r.st)) \in Words
    BY <1>1, <1>2, LetterlyIs, NoSepIs
<1>5. u.st = r.st /\ u.spilled = v.spilled
    BY DEF IsAnswered, SameWindow
<1>6. CASE d = o
    <2>1. /\ u.out = v.out \o r.out /\ u.target \in {v.target, o}
          /\ u.text = [v.text EXCEPT ![o] = @ \o Letterly(r.out)]
        BY <1>6 DEF IsAnswered
    <2>2. u.text[o] = v.text[o] \o Letterly(r.out) /\ \A e \in Docs \ {o} : u.text[e] = v.text[e]
        BY <1>1, <2>1
    <2>3. Whole(u, o) = v.text[o] \o NoSep(After(r))
        <3> DEFINE a == v.text[o]
                   b == Letterly(r.out)
                   c == NoSep(Typed(r.st))
        <3>1. a \in Words /\ b \in Words /\ c \in Words
            BY <1>1, <1>4
        <3>2. Whole(u, o) = (a \o b) \o c /\ NoSep(After(r)) = b \o c
            BY <1>3, <1>5, <2>2 DEF Whole
        <3> HIDE DEF a, b, c
        <3>3. (a \o b) \o c = a \o (b \o c)
            BY <3>1, WordsJoin
        <3>4. Whole(u, o) = a \o NoSep(After(r))
            BY <3>2, <3>3
        <3> QED BY <3>4 DEF a
    <2>4. Ours(v, u)
        <3>1. v.out \in Pieces(Printable) => v.out \o r.out \in Pieces(Printable)
            BY <1>1, PiecesJoin
        <3> QED BY <2>1, <3>1 DEF Ours
    <2> QED BY <1>5, <2>1, <2>2, <2>3, <2>4 DEF Writes
<1>7. CASE d = NoDoc /\ r.out = <<>>
    <2>1. SameText(v, u) /\ Letterly(r.out) = <<>>
        BY <1>7, LetterlyIs DEF IsAnswered
    <2>2. NoSep(After(r)) = NoSep(Typed(r.st))
        BY <1>3, <1>4, <2>1, WordsJoin
    <2>3. Whole(u, o) = v.text[o] \o NoSep(After(r))
        BY <1>5, <2>1, <2>2 DEF Whole, SameText
    <2> QED BY <1>5, <2>1, <2>3 DEF Writes, Ours, SameText
<1> QED BY <1>6, <1>7

\* A new chip and no text.
LEMMA AppliedQuiet ==
    ASSUME NEW v \in Service, NEW d \in Docs, NoDoc \notin Docs, NEW chip, NEW u,
           IsApplied(v, d, <<>>, chip, u)
    PROVE  Quiet(v, u, d)
<1>1. d # NoDoc /\ v.text \in [Docs -> Words] /\ v.out \in Texts
    BY DEF Service
<1>2. /\ u.st = v.st /\ u.spilled = v.spilled /\ u.target \in {v.target, d}
      /\ u.out = v.out \o <<>> /\ u.text = [v.text EXCEPT ![d] = @ \o Letterly(<<>>)]
    BY <1>1 DEF IsApplied, SameCore
<1>3. u.out = v.out
    BY <1>1, <1>2, KeysJoin
<1>4. u.text = v.text
    <2>1. v.text[d] \o Letterly(<<>>) = v.text[d]
        BY <1>1, LetterlyIs, WordsJoin
    <2> QED BY <1>1, <1>2, <2>1
<1> QED BY <1>2, <1>3, <1>4 DEF Quiet

IsLeft(v, u) ==
    /\ Kept(u) /\ ~u.segMode
    /\ u.st.reading = v.st.reading /\ u.st.pending = v.st.pending /\ u.st.gen = v.st.gen
    /\ u.st.open = v.st.open /\ u.cands = v.cands /\ u.segs = v.segs /\ u.win = v.win
    /\ u.onKey = v.onKey /\ u.onSegKey = v.onSegKey /\ u.ctx = v.ctx /\ u.spilled = v.spilled
    /\ SameText(v, u)

\* Leaving the segments changes neither text nor reading.
LEMMA LeaveSegmentsIs ==
    ASSUME Ready, NEW v, Kept(v)
    PROVE  IsLeft(v, LeaveSegments(v))
<1>1. CASE ~v.segMode
    BY <1>1 DEF LeaveSegments, IsLeft, SameText
<1>2. CASE v.segMode
    <2> DEFINE s == [v.st EXCEPT !.conv = <<>>]
               u == [v EXCEPT !.segMode = FALSE, !.st = s]
    <2>1. v \in Service /\ v.st \in Engine /\ Good(lay, v.st)
        BY DEF Kept, Good
    <2>2. LeaveSegments(v) = u
        BY <1>2, <2>1 DEF LeaveSegments, Service
    <2>3. /\ s \in Engine /\ s.reading = v.st.reading /\ s.pending = v.st.pending
          /\ s.gen = v.st.gen /\ s.open = v.st.open /\ s.conv = <<>> /\ s.convGen = v.st.convGen
        BY <2>1, PiecesJoin DEF Engine
    <2> HIDE DEF s
    <2>4. Good(lay, s)
        BY <2>1, <2>3 DEF Good
    <2>5. /\ u \in Service /\ u.st = s /\ ~u.segMode
          /\ u.cands = v.cands /\ u.segs = v.segs /\ u.win = v.win
          /\ u.onKey = v.onKey /\ u.onSegKey = v.onSegKey /\ u.ctx = v.ctx /\ u.spilled = v.spilled
          /\ SameText(v, u)
        BY <2>1, <2>3 DEF Service, SameText
    <2> HIDE DEF u
    <2>6. Seated(u) /\ Targeted(u)
        BY <2>5 DEF Seated, Targeted, Kept, SameText
    <2> QED BY <2>2, <2>3, <2>4, <2>5, <2>6 DEF IsLeft, Kept
<1> QED BY <1>1, <1>2

LEMMA LeftIsStill == ASSUME NEW v, NEW u, IsLeft(v, u) PROVE Still(v, u)
BY DEF IsLeft, Still, Typed

\* CandidateUI_Hide changes neither text nor reading.
LEMMA HideIs ==
    ASSUME NEW v, Kept(v)
    PROVE  LET u == Hide(v)
           IN  /\ Kept(u) /\ u.win = "none" /\ u.st = v.st /\ u.cands = v.cands /\ u.segs = v.segs
               /\ u.segMode = v.segMode /\ u.ctx = v.ctx /\ u.spilled = v.spilled
               /\ SameText(v, u)
<1> DEFINE u == Hide(v)
<1>1. /\ u \in Service /\ u.win = "none" /\ u.st = v.st /\ u.cands = v.cands /\ u.segs = v.segs
      /\ u.segMode = v.segMode /\ u.ctx = v.ctx /\ u.spilled = v.spilled
      /\ SameText(v, u)
    BY DEF Hide, Kept, Service, SameText, Kinds
<1> HIDE DEF u
<1>2. Kept(u)
    BY <1>1 DEF Kept, Seated, Targeted, SameText
<1> QED BY <1>1, <1>2 DEF u

LEMMA ReleaseCtxIs ==
    ASSUME NEW v, Kept(v)
    PROVE  LET u == ReleaseCtx(v)
           IN  /\ Kept(u) /\ u.ctx = NoDoc /\ u.win = v.win /\ u.st = v.st /\ u.cands = v.cands
               /\ u.segs = v.segs /\ u.segMode = v.segMode /\ u.spilled = v.spilled
               /\ SameText(v, u)
<1> DEFINE u == ReleaseCtx(v)
<1>1. /\ u \in Service /\ u.ctx = NoDoc /\ u.win = v.win /\ u.st = v.st /\ u.cands = v.cands
      /\ u.segs = v.segs /\ u.segMode = v.segMode /\ u.spilled = v.spilled
      /\ SameText(v, u)
    BY DEF ReleaseCtx, Kept, Service, SameText, Ctxs
<1> HIDE DEF u
<1>2. Kept(u)
    BY <1>1 DEF Kept, Seated, Targeted, SameText
<1> QED BY <1>1, <1>2 DEF u

------------------------------------------------------------------------------
(* Opening and showing lists. *)

LEMMA StepKept ==
    ASSUME NEW v, Kept(v), NEW r, Step(lay, v.st, r)
    PROVE  LET u == [v EXCEPT !.st = r.st]
           IN  Kept(u) /\ u.st = r.st /\ SameWindow(v, u) /\ SameText(v, u)
<1> DEFINE u == [v EXCEPT !.st = r.st]
<1>1. r.st \in Engine /\ Good(lay, r.st) /\ Newer(v.st, r.st) /\ v \in Service
    BY DEF Step, Kept, Results
<1>2. u \in Service /\ u.st = r.st /\ SameWindow(v, u) /\ SameText(v, u)
    BY <1>1, WithStIs
<1> HIDE DEF u
<1>3. Seated(u)
    BY <1>1, <1>2, StaysSeated DEF SameWindow, Kept
<1>4. Targeted(u)
    BY <1>2 DEF SameText, Kept, Targeted
<1> QED BY <1>1, <1>2, <1>3, <1>4 DEF Kept, u

\* Without a window only the chip is left to be right.
LEMMA NoWindowIsSound ==
    ASSUME NEW v, Kept(v), ChipIs(v), v.win = "none", v.ctx = NoDoc, NEW o
    PROVE  Sound(v, o)
BY DEF Sound, Home, OwnList

LEMMA WithWin ==
    ASSUME NEW v, Kept(v), NEW k \in Kinds
    PROVE  LET u == [v EXCEPT !.win = k]
           IN  /\ Kept(u) /\ u.win = k /\ u.st = v.st /\ u.cands = v.cands /\ u.segs = v.segs
               /\ u.segMode = v.segMode /\ u.onKey = v.onKey /\ u.onSegKey = v.onSegKey
               /\ u.ctx = v.ctx /\ u.spilled = v.spilled /\ SameText(v, u)
<1> DEFINE u == [v EXCEPT !.win = k]
<1>1. /\ u \in Service /\ u.win = k /\ u.st = v.st /\ u.cands = v.cands /\ u.segs = v.segs
      /\ u.segMode = v.segMode /\ u.onKey = v.onKey /\ u.onSegKey = v.onSegKey
      /\ u.ctx = v.ctx /\ u.spilled = v.spilled /\ SameText(v, u)
    BY DEF Kept, Service, SameText, Kinds
<1> HIDE DEF u
<1>2. Kept(u)
    BY <1>1 DEF Kept, Seated, Targeted, SameText
<1> QED BY <1>1, <1>2 DEF u

LEMMA SameListing ==
    ASSUME NEW v, Listing(v), NEW u, u.st = v.st, u.cands = v.cands, u.segs = v.segs,
           u.segMode = v.segMode, u.onKey = v.onKey, u.onSegKey = v.onSegKey, u.chip = v.chip
    PROVE  Listing(u)
BY DEF Listing, InSentence, ChipIs

\* CandidateUI_Show: our window with the list, the host's, or none and the list folded.
LEMMA ShowIs ==
    ASSUME Ready, NEW o \in Docs, NEW v, Kept(v), ChipIs(v), Listing(v), v.ctx = o, NEW kind \in Kinds
    PROVE  Sound(Show(v, kind), o) /\ Still(v, Show(v, kind))
<1> DEFINE k == IF v.win = "own" THEN "own" ELSE kind
           i == [v EXCEPT !.win = k]
<1>1. k \in Kinds
    BY DEF Kept, Service
<1> HIDE DEF k
<1>2. /\ Kept(i) /\ i.win = k /\ i.st = v.st /\ i.cands = v.cands /\ i.segs = v.segs
      /\ i.segMode = v.segMode /\ i.onKey = v.onKey /\ i.onSegKey = v.onSegKey
      /\ i.ctx = v.ctx /\ i.spilled = v.spilled /\ SameText(v, i)
    BY <1>1, WithWin
<1>3. CASE k # "none"
    <2>1. Show(v, kind) = i
        BY <1>3 DEF Show, k
    <2> HIDE DEF i
    <2>2. Listing(i)
        BY <1>2, SameListing DEF SameText
    <2>3. ChipIs(i)
        BY <1>2 DEF ChipIs, SameText
    <2>4. Home(i, o)
        BY <1>2, <1>3 DEF Home
    <2>5. Still(v, i)
        BY <1>2 DEF Still
    <2> QED BY <1>2, <2>1, <2>2, <2>3, <2>4, <2>5 DEF Sound, OwnList
<1>4. CASE k = "none"
    <2> DEFINE j == LeaveSegments(i)
               r == SeqKb_CancelCandidates(j.st)
               m == [j EXCEPT !.st = r.st]
               u == ReleaseCtx(m)
    <2>1. Show(v, kind) = u
        BY <1>4 DEF Show, k
    <2> HIDE DEF i
    <2>2. IsLeft(i, j)
        BY <1>2, LeaveSegmentsIs
    <2> HIDE DEF j
    <2>3. Step(lay, j.st, r) /\ Typed(r.st) = Typed(j.st)
        BY <2>2, CancelCandidatesIs DEF IsLeft, Kept
    <2> HIDE DEF r
    <2>4. Kept(j)
        BY <2>2 DEF IsLeft
    <2>5. Kept(m) /\ m.st = r.st /\ SameWindow(j, m) /\ SameText(j, m)
        BY <2>3, <2>4, StepKept
    <2> HIDE DEF m
    <2>6. /\ Kept(u) /\ u.ctx = NoDoc /\ u.win = m.win /\ u.st = m.st /\ SameText(m, u)
          /\ u.spilled = m.spilled
        BY <2>5, ReleaseCtxIs
    <2> HIDE DEF u
    <2>7. ChipIs(u)
        BY <1>2, <2>2, <2>3, <2>5, <2>6 DEF ChipIs, SameText, IsLeft, Typed
    <2>8. u.win = "none"
        BY <1>2, <1>4, <2>2, <2>5, <2>6 DEF IsLeft, SameWindow
    <2>9. Still(v, u)
        <3>1. Still(v, i) /\ Still(i, j)
            BY <1>2, <2>2, LeftIsStill DEF Still
        <3>2. Still(j, u)
            BY <2>3, <2>5, <2>6 DEF Still, SameText, SameWindow
        <3> QED BY <3>1, <3>2, StillTwice
    <2> QED BY <2>1, <2>6, <2>7, <2>8, <2>9, NoWindowIsSound
<1> QED BY <1>3, <1>4

Hows == {"live", "asked"}
IsOpen(v, d, o) ==
    /\ o.ok \in BOOLEAN
    /\ o.ok => Sound(o.v, d) /\ Moves(v, o.v, d)
    /\ ~o.ok => /\ Kept(o.v) /\ ~o.v.segMode /\ o.v.win = v.win /\ o.v.ctx = v.ctx
                /\ o.v.chip = v.chip /\ Still(v, o.v)
                /\ o.v.st.pending = v.st.pending /\ o.v.st.reading = v.st.reading

ListKept(v, cands, d, s, u) ==
    /\ Kept(u) /\ u.cands = cands /\ u.ctx = d /\ u.onKey = lay.zh /\ u.st = v.st
    /\ u.segMode = v.segMode /\ u.segs = v.segs /\ SameText(v, u)
    /\ v.spilled => u.spilled
    /\ s => u.spilled

LEMMA WithList ==
    ASSUME Ready, NEW v, Kept(v), NEW cands \in Lists, NEW d \in Ctxs, NEW s
    PROVE  ListKept(v, cands, d, s,
               [v EXCEPT !.cands = cands, !.ctx = d, !.onKey = lay.zh, !.spilled = @ \/ s])
<1> DEFINE u == [v EXCEPT !.cands = cands, !.ctx = d, !.onKey = lay.zh, !.spilled = @ \/ s]
<1>1. lay.zh \in BOOLEAN
    BY DEF Ready, Layout, SeqLayoutType
<1>2. /\ u \in Service /\ u.cands = cands /\ u.ctx = d /\ u.onKey = lay.zh /\ u.st = v.st
      /\ u.segMode = v.segMode /\ u.segs = v.segs /\ SameText(v, u)
      /\ (v.spilled => u.spilled) /\ (s => u.spilled)
    BY <1>1 DEF Kept, Service, SameText
<1> HIDE DEF u
<1>3. Kept(u)
    BY <1>2 DEF Kept, Seated, Targeted, SameText
<1> QED BY <1>2, <1>3 DEF ListKept, u

LEMMA SameTyped ==
    \A a, b : a.reading = b.reading /\ a.pending = b.pending => Typed(a) = Typed(b) /\ (Idle(a) <=> Idle(b))
BY DEF Typed, Idle

\* SeqOpenCandidates: a list of the reading in a window of its document, or nothing done.
LEMMA OpenIs ==
    ASSUME Ready, NEW d \in Docs, NEW v, Kept(v), NEW how \in Hows, NEW kind \in Kinds
    PROVE  IsOpen(v, d, Open(v, d, how, kind))
<1> DEFINE i == LeaveSegments(v)
           c == Convert(lay, i.st, how)
           o == Opened(i, c, d, how, kind)
<1>1. Open(v, d, how, kind) = o
    BY DEF Open
<1>2. IsLeft(v, i) /\ Kept(i) /\ Good(lay, i.st) /\ i \in Service
    BY LeaveSegmentsIs DEF IsLeft, Kept
<1> HIDE DEF i
<1>3. IsConverted(lay, i.st, how, c)
    BY <1>2, ConvertIs DEF Ready
<1>8. c.ok /\ ~c.spilled => Typed(c.st) = Typed(i.st)
    BY <1>2, ConvertKeeps DEF Ready
<1> HIDE DEF c
<1>7. c.ok \in BOOLEAN
    BY <1>3 DEF IsConverted
<1>4. Typed(i.st) = Typed(v.st)
    BY <1>2, SameTyped DEF IsLeft
<1>5. CASE ~c.ok
    <2>1. o.ok = FALSE /\ o.v = IF c.st.reading = <<>> THEN i ELSE [i EXCEPT !.cands = c.cands]
        BY <1>5 DEF Opened
    <2> HIDE DEF o
    <2>2. c.cands \in Lists
        BY <1>3 DEF IsConverted
    <2>3. /\ o.v \in Service /\ o.v.st = i.st /\ o.v.segs = i.segs /\ o.v.segMode = i.segMode
          /\ o.v.win = i.win /\ o.v.ctx = i.ctx /\ SameText(i, o.v) /\ o.v.spilled = i.spilled
        BY <1>2, <2>1, <2>2 DEF Service, SameText
    <2>4. Kept(o.v)
        BY <1>2, <2>3 DEF Kept, Seated, Targeted, SameText
    <2>5. /\ o.v.win = v.win /\ o.v.ctx = v.ctx /\ o.v.chip = v.chip /\ ~o.v.segMode
          /\ o.v.st.pending = v.st.pending /\ o.v.st.reading = v.st.reading
        BY <1>2, <2>3 DEF IsLeft, SameText
    <2>6. Still(v, o.v)
        BY <1>2, <1>4, <2>3 DEF IsLeft, SameText, Still
    <2> QED BY <1>1, <2>1, <2>4, <2>5, <2>6 DEF IsOpen
<1>6. CASE c.ok
    <2> DEFINE s == c.st
               j == [i EXCEPT !.st = s]
               p == IF how = "live" THEN Composing(s) ELSE AsTyped(s.reading)
               a == Apply(j, d, <<>>, p)
               m == [a EXCEPT !.cands = c.cands, !.ctx = d, !.onKey = lay.zh, !.spilled = @ \/ c.spilled]
    <2>1. o.ok = TRUE /\ o.v = Show(m, kind)
        BY <1>6 DEF Opened
    <2> HIDE DEF o
    <2>2. /\ c.cands \in Lists /\ Good(lay, s) /\ Newer(i.st, s) /\ s.open = TRUE /\ s.reading # <<>>
          /\ c.cands.gen = s.gen /\ c.cands.items # <<>> /\ CandsFit(c.cands.items, s.reading)
          /\ how # "live" => s.pending = <<>>
        BY <1>3, <1>6 DEF IsConverted
    <2>3. s \in Engine
        BY <2>2 DEF Good
    <2> HIDE DEF s
    <2>4. j \in Service /\ j.st = s /\ SameWindow(i, j) /\ SameText(i, j)
        BY <1>2, <2>3, WithStIs
    <2> HIDE DEF j
    <2>5. p \in Pieces(Printable) /\ KeysOf(p) = Typed(s)
        BY <2>2, <2>3, ComposingIs, ReadingShown
    <2> HIDE DEF p
    <2>6. IsApplied(j, d, <<>>, p, a)
        <3>1. d \in Ctxs /\ <<>> \in Texts /\ NoDoc \notin Docs
            BY KeysJoin DEF Ctxs, Ready
        <3> QED BY <2>4, <2>5, <3>1, ApplyIs
    <2> HIDE DEF a
    <2>7. /\ a \in Service /\ a.st = s /\ SameWindow(i, a) /\ a.chip = p /\ Targeted(a)
        <3>1. d # NoDoc
            BY DEF Ready
        <3>2. a \in Service /\ a.st = s /\ a.chip = p /\ Targeted(a)
            BY <2>4, <2>6, <3>1 DEF IsApplied, SameCore, Targeted
        <3>3. SameWindow(i, a)
            BY <2>4, <2>6, <3>1 DEF IsApplied, SameCore, SameWindow
        <3> QED BY <3>2, <3>3
    <2>8. ~a.segMode
        BY <1>2, <2>7 DEF IsLeft, SameWindow
    <2>9. Kept(a)
        BY <2>2, <2>7, <2>8 DEF Kept, Seated
    <2>10. ListKept(a, c.cands, d, c.spilled, m)
        BY <2>2, <2>9, WithList DEF Ctxs
    <2> HIDE DEF m
    <2>11. ChipIs(m)
        BY <2>5, <2>7, <2>10 DEF ListKept, ChipIs, SameText
    <2>12. Listing(m)
        <3>1. c.cands.gen <= s.gen
            BY <2>2, <2>3 DEF Engine
        <3> QED BY <2>2, <2>7, <2>8, <2>10, <3>1 DEF ListKept, Listing
    <2>13. Sound(Show(m, kind), d) /\ Still(m, Show(m, kind))
        BY <2>10, <2>11, <2>12, ShowIs DEF ListKept
    <2>14. Quiet(v, m, d)
        <3>1. Quiet(j, a, d) /\ a.spilled = j.spilled
            BY <2>4, <2>6, AppliedQuiet DEF Ready, IsApplied
        <3>2. ~c.spilled => Typed(s) = Typed(v.st)
            BY <1>4, <1>6, <1>8 DEF s
        <3>3. SameText(v, j) /\ j.spilled = v.spilled
            BY <1>2, <2>4 DEF IsLeft, SameText, SameWindow
        <3>4. SameText(a, m) /\ m.st = s /\ (a.spilled => m.spilled) /\ (c.spilled => m.spilled)
            BY <2>7, <2>10 DEF ListKept
        <3> QED BY <3>1, <3>2, <3>3, <3>4 DEF Quiet, SameText
    <2>15. Moves(v, Show(m, kind), d)
        BY <2>13, <2>14, QuietMoves, StillMoves, MovesTwice
    <2> QED BY <1>1, <2>1, <2>13, <2>15 DEF IsOpen
<1> QED BY <1>5, <1>6

IsOfSegs(v, cands, d, u) ==
    /\ u \in Service /\ u.st = v.st /\ u.segs = v.segs /\ SameText(v, u) /\ u.spilled = v.spilled
    /\ u.cands = cands /\ u.segMode /\ u.ctx = d /\ ~u.onKey /\ u.onSegKey

LEMMA WithSegs ==
    ASSUME NEW v \in Service, NEW cands \in Lists, NEW d \in Ctxs
    PROVE  IsOfSegs(v, cands, d, [v EXCEPT !.cands = cands, !.segMode = TRUE, !.ctx = d,
                                           !.onKey = FALSE, !.onSegKey = TRUE])
BY DEF Service, IsOfSegs, SameText

\* SeqShowSegments: the window shows the sentence that a flush commits.
LEMMA ShowSegsIs ==
    ASSUME Ready, NEW d \in Docs, NEW v, v \in Service, Good(lay, v.st),
           v.segs.gen = v.st.gen, SegsFit(v.segs, v.st.reading),
           v.st.pending = <<>>, v.st.reading # <<>>, v.st.open = TRUE, ~lay.zh, NEW kind \in Kinds
    PROVE  Sound(ShowSegs(v, d, kind), d) /\ Moves(v, ShowSegs(v, d, kind), d)
<1> DEFINE s == Sync(v.st, v.segs)
           p == SegText(v.st, v.segs)
           i == [v EXCEPT !.st = s]
           a == Apply(i, d, <<>>, p)
           c == SegCands(v.st, v.segs)
           m == [a EXCEPT !.cands = c, !.segMode = TRUE, !.ctx = d, !.onKey = FALSE, !.onSegKey = TRUE]
<1>1. ShowSegs(v, d, kind) = Show(m, kind)
    BY DEF ShowSegs
<1>2. v.st \in Engine /\ d \in Ctxs /\ d # NoDoc /\ NoDoc \notin Docs
    BY DEF Good, Ctxs, Ready
<1>3. IsSynced(lay, v.st, s) /\ s.conv = p /\ s.convGen = v.st.gen
    BY SyncIs
<1> HIDE DEF s
<1>4. p \in Pieces(Printable) /\ KeysOf(p) = Flat(v.st.reading)
    BY <1>2, SegTextIs
<1>5. p # <<>>
    <2>1. DOMAIN p = DOMAIN v.segs.lens /\ 1 \in DOMAIN v.segs.lens
        <3>1. 1 \in DOMAIN v.segs.lens
            BY SegsAre
        <3> QED BY <3>1 DEF SegText
    <2> HIDE DEF p
    <2> QED BY <2>1
<1>6. c \in Lists /\ c.gen = v.st.gen /\ c.items # <<>>
    BY <1>2, SegCandsIs
<1> HIDE DEF p, c
<1>7. Good(lay, s) /\ s \in Engine /\ s.reading = v.st.reading /\ s.pending = <<>>
      /\ s.gen = v.st.gen /\ s.open = TRUE
    BY <1>3 DEF IsSynced, Good
<1>8. i \in Service /\ i.st = s /\ SameWindow(v, i) /\ SameText(v, i)
    BY <1>7, WithStIs
<1> HIDE DEF i
<1>9. IsApplied(i, d, <<>>, p, a)
    BY <1>2, <1>4, <1>8, ApplyIs, KeysJoin
<1> HIDE DEF a
<1>10. a \in Service /\ a.st = s /\ a.segs = v.segs /\ a.chip = p /\ Targeted(a)
    <2>1. a \in Service /\ a.st = s /\ a.chip = p /\ Targeted(a) /\ a.segs = i.segs
        BY <1>2, <1>8, <1>9 DEF IsApplied, SameCore, Targeted
    <2> QED BY <1>8, <2>1 DEF SameWindow
<1>11. IsOfSegs(a, c, d, m)
    BY <1>2, <1>6, <1>10, WithSegs
<1> HIDE DEF m
<1>12. /\ m \in Service /\ m.st = s /\ m.segs = v.segs /\ m.chip = p /\ m.cands = c /\ m.segMode
       /\ m.ctx = d /\ ~m.onKey /\ m.onSegKey
    BY <1>10, <1>11 DEF IsOfSegs, SameText
<1>13. Kept(m)
    <2>1. Seated(m)
        BY <1>7, <1>12 DEF Seated, Engine
    <2>2. Targeted(m)
        BY <1>10, <1>11 DEF Targeted, IsOfSegs, SameText
    <2> QED BY <1>7, <1>12, <2>1, <2>2 DEF Kept
<1>14. ChipIs(m)
    <2>1. Typed(s) = Flat(s.reading)
        BY <1>7, EngineIs, WordsJoin
    <2> QED BY <1>4, <1>7, <1>12, <2>1 DEF ChipIs
<1>15. Listing(m)
    <2>1. InSentence(m)
        BY <1>3, <1>5, <1>7, <1>12, <1>14 DEF InSentence
    <2>2. c.gen <= s.gen
        BY <1>6, <1>7 DEF Engine
    <2> QED BY <1>6, <1>7, <1>12, <2>1, <2>2 DEF Listing
<1>16. Sound(Show(m, kind), d) /\ Still(m, Show(m, kind))
    BY <1>12, <1>13, <1>14, <1>15, ShowIs
<1>17. Quiet(v, m, d)
    <2>1. Quiet(i, a, d)
        BY <1>2, <1>8, <1>9, AppliedQuiet
    <2>2. Typed(s) = Typed(v.st)
        BY <1>7 DEF Typed
    <2>3. SameText(v, i) /\ i.spilled = v.spilled /\ SameText(a, m) /\ m.spilled = a.spilled /\ m.st = s
        BY <1>8, <1>11, <1>12 DEF IsOfSegs, SameWindow
    <2> QED BY <2>1, <2>2, <2>3 DEF Quiet, SameText
<1>18. Moves(v, Show(m, kind), d)
    BY <1>16, <1>17, QuietMoves, StillMoves, MovesTwice
<1> QED BY <1>1, <1>16, <1>18

------------------------------------------------------------------------------

(* The handlers. *)

\* Hidden, without a context, and with a chip that is right.
LEMMA ClosedIs ==
    ASSUME Ready, NEW o, NEW v, Kept(v)
    PROVE  LET u == ReleaseCtx(Hide(v))
           IN  /\ Kept(u) /\ u.win = "none" /\ u.ctx = NoDoc /\ u.st = v.st
               /\ u.segMode = v.segMode /\ u.segs = v.segs /\ u.cands = v.cands /\ Still(v, u)
               /\ ChipIs(v) => Sound(u, o)
<1> DEFINE h == Hide(v)
           u == ReleaseCtx(h)
<1>1. /\ Kept(h) /\ h.win = "none" /\ h.st = v.st /\ h.cands = v.cands /\ h.segs = v.segs
      /\ h.segMode = v.segMode /\ SameText(v, h) /\ h.spilled = v.spilled
    BY HideIs
<1> HIDE DEF h
<1>2. /\ Kept(u) /\ u.ctx = NoDoc /\ u.win = h.win /\ u.st = h.st /\ u.cands = h.cands
      /\ u.segs = h.segs /\ u.segMode = h.segMode /\ SameText(h, u) /\ u.spilled = h.spilled
    BY <1>1, ReleaseCtxIs
<1> HIDE DEF u
<1>3. Still(v, u) /\ SameText(v, u)
    BY <1>1, <1>2 DEF SameText, Still
<1>4. ChipIs(v) => ChipIs(u)
    BY <1>1, <1>2, <1>3 DEF ChipIs, SameText
<1>5. ChipIs(v) => Sound(u, o)
    BY <1>1, <1>2, <1>4, NoWindowIsSound
<1> QED BY <1>1, <1>2, <1>3, <1>5 DEF u, h

\* SeqLiveRefresh moves keys only, and closes the list when the reading is gone.
LEMMA LiveRefreshIs ==
    ASSUME Ready, NEW o \in Docs, NEW v, Kept(v), ChipIs(v), Home(v, o), v.win = "own" => lay.zh,
           NEW kind \in Kinds
    PROVE  Sound(LiveRefresh(v, o, kind), o) /\ Moves(v, LiveRefresh(v, o, kind), o)
<1> DEFINE q == Open(v, o, "live", kind)
<1>1. CASE ~lay.zh
    <2>1. LiveRefresh(v, o, kind) = v
        BY <1>1 DEF LiveRefresh
    <2>2. Moves(v, v, o)
        BY StillMoves DEF Still, SameText
    <2> QED BY <1>1, <2>1, <2>2 DEF Sound, ChipIs, OwnList
<1>2. CASE lay.zh
    <2>1. LiveRefresh(v, o, kind) = Refreshed(v, q)
        BY <1>2 DEF LiveRefresh
    <2>2. IsOpen(v, o, q)
        <3>1. "live" \in Hows
            BY DEF Hows
        <3> QED BY <3>1, OpenIs
    <2> HIDE DEF q
    <2>3. CASE ~Idle(v.st) /\ q.ok
        BY <2>1, <2>2, <2>3 DEF Refreshed, IsOpen
    <2>4. CASE ~(~Idle(v.st) /\ q.ok)
        <3> DEFINE m == IF Idle(v.st) THEN v ELSE q.v
        <3>1. Refreshed(v, q) = ReleaseCtx(Hide(m))
            BY <2>4 DEF Refreshed
        <3>2. Kept(m) /\ ChipIs(m)
            BY <2>2, <2>4 DEF IsOpen, ChipIs, Still, SameText
        <3>3. Still(v, m)
            BY <2>2, <2>4 DEF IsOpen, Still, SameText
        <3> HIDE DEF m
        <3>4. Sound(ReleaseCtx(Hide(m)), o) /\ Still(m, ReleaseCtx(Hide(m)))
            BY <3>2, ClosedIs DEF ChipIs
        <3>5. Moves(v, ReleaseCtx(Hide(m)), o)
            BY <3>3, <3>4, StillTwice, StillMoves
        <3> QED BY <2>1, <3>1, <3>4, <3>5
    <2> QED BY <2>3, <2>4
<1> QED BY <1>1, <1>2

IsEnded(v, u) ==
    /\ Kept(u) /\ ChipIs(u) /\ u.ctx = NoDoc /\ u.out = v.out /\ Quiet(v, u, v.ctx)

\* OnSeqCandidateCancelled: the reading shown as typed again, the document let go.
LEMMA CancelledIs ==
    ASSUME Ready, NEW v, Kept(v), ChipIs(v)
    PROVE  IsEnded(v, Cancelled(v))
<1> DEFINE r == SeqKb_CancelCandidates(v.st)
           a == ApplyResult(v, v.ctx, r)
           m == IF r.eaten THEN a ELSE v
<1>1. Cancelled(v) = ReleaseCtx(m)
    BY DEF Cancelled
<1>2. Step(lay, v.st, r) /\ r.out = <<>> /\ Typed(r.st) = Typed(v.st)
    BY CancelCandidatesIs DEF Kept
<1> HIDE DEF r
<1>3. IsAnswered(v, v.ctx, r, a)
    BY <1>2, ApplyResultIs DEF Kept, Service
<1> HIDE DEF a
<1>4. Kept(m) /\ ChipIs(m) /\ m.out = v.out /\ Quiet(v, m, v.ctx)
    <2>1. CASE ~r.eaten
        BY <2>1 DEF Quiet
    <2>2. CASE r.eaten /\ v.ctx = NoDoc
        BY <1>2, <1>3, <2>2 DEF IsAnswered, SameText, SameWindow, ChipIs, Quiet
    <2>3. CASE r.eaten /\ v.ctx # NoDoc
        <3>1. v.out \o r.out = v.out /\ v.ctx \in Docs /\ v.text \in [Docs -> Words]
            BY <1>2, <2>3, KeysJoin DEF Kept, Service, Ctxs
        <3>2. v.text[v.ctx] \o Letterly(r.out) = v.text[v.ctx]
            BY <1>2, <3>1, LetterlyIs, WordsJoin, ZenonT(40)
        <3>3. Kept(a) /\ ChipIs(a) /\ a.st = r.st /\ a.out = v.out /\ a.spilled = v.spilled
              /\ a.target \in {v.target, v.ctx}
              /\ a.text = [v.text EXCEPT ![v.ctx] = @ \o Letterly(r.out)]
            BY <1>3, <2>3, <3>1 DEF IsAnswered, SameWindow
        <3>4. a.text = v.text
            BY <3>1, <3>2, <3>3
        <3> QED BY <1>2, <2>3, <3>3, <3>4 DEF Quiet
    <2> QED BY <2>1, <2>2, <2>3
<1> HIDE DEF m
<1>5. LET u == ReleaseCtx(m)
      IN  Kept(u) /\ u.ctx = NoDoc /\ u.st = m.st /\ SameText(m, u) /\ u.spilled = m.spilled
    BY <1>4, ReleaseCtxIs
<1> QED BY <1>1, <1>4, <1>5 DEF IsEnded, ChipIs, SameText, Quiet

LEMMA OnCancelledIs ==
    ASSUME Ready, NEW v, Kept(v), ChipIs(v)
    PROVE  IsEnded(v, OnCancelled(v))
<1> DEFINE i == LeaveSegments(v)
<1>1. OnCancelled(v) = Cancelled(i)
    BY DEF OnCancelled
<1>2. IsLeft(v, i)
    BY LeaveSegmentsIs
<1> HIDE DEF i
<1>3. Kept(i) /\ ChipIs(i) /\ i.out = v.out /\ i.ctx = v.ctx /\ Still(v, i)
    BY <1>2, SameTyped, LeftIsStill DEF IsLeft, ChipIs, SameText
<1> DEFINE u == Cancelled(i)
<1>4. IsEnded(i, u)
    BY <1>3, CancelledIs
<1> HIDE DEF u
<1>5. Quiet(v, u, v.ctx)
    BY <1>3, <1>4, QuietBetween DEF IsEnded, Still, SameText
<1>6. IsEnded(v, u)
    BY <1>3, <1>4, <1>5 DEF IsEnded
<1> QED BY <1>1, <1>6 DEF u

LEMMA HideEnded ==
    ASSUME Ready, NEW o, NEW v, NEW u, IsEnded(v, u)
    PROVE  Sound(Hide(u), o) /\ Hide(u).out = v.out /\ Quiet(v, Hide(u), v.ctx)
<1> DEFINE h == Hide(u)
<1>1. Kept(h) /\ h.win = "none" /\ h.st = u.st /\ h.ctx = u.ctx /\ SameText(u, h)
      /\ h.spilled = u.spilled
    BY HideIs DEF IsEnded
<1> HIDE DEF h
<1>2. ChipIs(h) /\ h.ctx = NoDoc /\ h.out = v.out
    BY <1>1 DEF IsEnded, ChipIs, SameText
<1>3. Quiet(v, h, v.ctx)
    BY <1>1 DEF IsEnded, Quiet, SameText
<1> QED BY <1>1, <1>2, <1>3, NoWindowIsSound DEF h

\* CandidateUI_Cancel moves nothing but the reading back to how it was typed.
LEMMA CancelWindowIs ==
    ASSUME Ready, NEW o, NEW v, Kept(v), ChipIs(v), v.win = "none" => v.ctx = NoDoc
    PROVE  /\ Sound(CancelWindow(v), o) /\ CancelWindow(v).out = v.out
           /\ Quiet(v, CancelWindow(v), v.ctx)
<1>1. CASE v.win = "none"
    <2>1. CancelWindow(v) = v
        BY <1>1 DEF CancelWindow
    <2> QED BY <1>1, <2>1, NoWindowIsSound DEF ChipIs, Quiet
<1>2. CASE v.win # "none"
    <2> DEFINE u == OnCancelled(v)
    <2>1. CancelWindow(v) = Hide(u)
        BY <1>2 DEF CancelWindow
    <2>2. IsEnded(v, u)
        BY OnCancelledIs
    <2> HIDE DEF u
    <2> QED BY <2>1, <2>2, HideEnded
<1> QED BY <1>1, <1>2

\* A result that goes to the document of the window: what it accounts for is the
\* document's, and when the engine did not take the key, nothing has changed.
LEMMA AnswerKeyIs ==
    ASSUME Ready, NEW o \in Docs, NEW v, Kept(v), ChipIs(v), v.win = "none", v.ctx = o,
           NEW r, Step(lay, v.st, r), ~r.eaten => After(r) = Typed(v.st)
    PROVE  LET u == AnswerKey(v, r)
           IN  Sound(u, o) /\ Writes(v, u, o, v.text[o] \o NoSep(After(r))) /\ Ours(v, u)
<1> DEFINE a == ApplyResult(v, v.ctx, r)
           m == IF v.ctx # NoDoc /\ r.eaten THEN a ELSE v
           x == v.text[o] \o NoSep(After(r))
<1>1. AnswerKey(v, r) = ReleaseCtx(m)
    BY DEF AnswerKey
<1>2. IsAnswered(v, v.ctx, r, a)
    BY ApplyResultIs DEF Kept, Service
<1> HIDE DEF a
<1>3. Kept(m) /\ ChipIs(m) /\ m.win = "none"
    BY <1>2 DEF IsAnswered, ChipIs, SameWindow
<1>7. Writes(v, m, o, x) /\ Ours(v, m)
    <2>1. CASE r.eaten
        <3>1. m = a
            BY <2>1 DEF Ready
        <3> QED BY <1>2, <3>1, AnsweredWrites DEF Ready
    <2>2. CASE ~r.eaten
        <3>1. m = v /\ x = Whole(v, o)
            BY <2>2 DEF Whole
        <3> QED BY <3>1 DEF Writes, Ours
    <2> QED BY <2>1, <2>2
<1> HIDE DEF m
<1>4. LET u == ReleaseCtx(m)
      IN  /\ Kept(u) /\ u.ctx = NoDoc /\ u.win = m.win /\ u.st = m.st /\ u.segMode = m.segMode
          /\ SameText(m, u) /\ u.spilled = m.spilled
    BY <1>3, ReleaseCtxIs
<1> DEFINE u == ReleaseCtx(m)
<1> HIDE DEF u
<1>5. ChipIs(u)
    BY <1>3, <1>4 DEF ChipIs, SameText, u
<1>6. Sound(u, o)
    BY <1>3, <1>4, <1>5, NoWindowIsSound DEF u
<1>8. Moves(m, u, o)
    BY <1>4, StillMoves DEF Still, u
<1> HIDE DEF x
<1>9. Writes(v, u, o, x) /\ Ours(v, u)
    BY <1>7, <1>8, WritesThenMoves DEF Moves, Ours
<1> QED BY <1>1, <1>6, <1>9 DEF u, x

\* Esc leaves nothing to account for.
LEMMA CancelsAll ==
    ASSUME Ready, NEW st, Good(lay, st)
    PROVE  After(SeqKb_Cancel(st)) = <<>>
<1> DEFINE a == After(SeqKb_Cancel(st))
           s == Typed(st)
<1>1. a \in Words /\ s \in Words /\ s = a \o s
    BY CancelLedger DEF IsTakenBack
<1> HIDE DEF a, s
<1>2. Len(a) \in Nat /\ Len(s) \in Nat /\ Len(a \o s) = Len(a) + Len(s)
    BY <1>1, LenProperties, ConcatProperties DEF Words
<1>3. Len(a) = 0
    BY <1>1, <1>2
<1> QED BY <1>1, <1>3, EmptySeq DEF Words, a

\* Enter commits the reading as typed, Esc drops it (OnSeqCandidateKey).
LEMMA OnPinyinKeyIs ==
    ASSUME Ready, NEW o \in Docs, NEW v, Kept(v), ChipIs(v), v.ctx = o, NEW key
    PROVE  LET u == OnPinyinKey(v, key)
           IN  /\ Sound(u, o) /\ Ours(v, u)
               /\ key = "enter" => Moves(v, u, o)
               /\ key # "enter" => Writes(v, u, o, v.text[o])
<1> DEFINE h == Hide(v)
           r == IF key = "enter" THEN SeqKb_Flush(lay, v.st) ELSE SeqKb_Cancel(v.st)
<1>1. OnPinyinKey(v, key) = AnswerKey(h, r)
    BY DEF OnPinyinKey
<1>2. Kept(h) /\ h.win = "none" /\ h.st = v.st /\ h.segMode = v.segMode /\ SameText(v, h)
      /\ h.spilled = v.spilled /\ h.ctx = o
    BY HideIs
<1>3. Step(lay, v.st, r)
    <2>1. Good(lay, v.st) /\ Layout(lay)
        BY DEF Kept, Ready
    <2>2. IsFlush(lay, v.st, SeqKb_Flush(lay, v.st))
        BY <2>1, FlushIs
    <2>3. Step(lay, v.st, SeqKb_Cancel(v.st))
        BY <2>1, CancelIs
    <2> QED BY <2>2, <2>3 DEF IsFlush
<1>5. /\ key = "enter" => After(r) = Typed(v.st)
      /\ key # "enter" => After(r) = <<>> /\ (~r.eaten => Typed(v.st) = <<>>)
    <2>1. Good(lay, v.st) /\ Layout(lay) /\ v.st \in Engine
        BY DEF Kept, Ready, Good
    <2>2. After(SeqKb_Flush(lay, v.st)) = Typed(v.st)
        BY <2>1, FlushLedger
    <2>3. After(SeqKb_Cancel(v.st)) = <<>>
        BY <2>1, CancelsAll
    <2>4. ~SeqKb_Cancel(v.st).eaten => Typed(v.st) = <<>>
        BY <2>1, CancelLedger, IdleIs DEF IsTakenBack
    <2> QED BY <2>2, <2>3, <2>4
<1> HIDE DEF h, r
<1>4. ChipIs(h) /\ Moves(v, h, o)
    BY <1>2, StillMoves DEF ChipIs, SameText, Still
<1> DEFINE u == AnswerKey(h, r)
           x == v.text[o] \o NoSep(After(r))
<1>6. Sound(u, o) /\ Writes(h, u, o, x) /\ Ours(h, u)
    BY <1>2, <1>3, <1>4, <1>5, AnswerKeyIs DEF SameText
<1> HIDE DEF u
<1>7. Ours(v, u) /\ Writes(v, u, o, x)
    BY <1>4, <1>6, MovesThenWrites DEF Moves, Ours
<1>8. key = "enter" => x = Whole(v, o)
    BY <1>5 DEF Whole
<1>9. key # "enter" => x = v.text[o]
    <2>1. v.text[o] \in Words
        BY DEF Kept, Service
    <2> QED BY <1>5, <2>1, NoSepWords, WordsJoin
<1> HIDE DEF x
<1> QED BY <1>1, <1>6, <1>7, <1>8, <1>9 DEF u, Moves

ItemsOf(v) == IF v.cands.items = <<>> THEN {0} ELSE DOMAIN v.cands.items

\* The item chosen is one of the list.
LEMMA ItemsAre ==
    ASSUME NEW v \in Service, v.cands.items # <<>>, NEW n \in ItemsOf(v)
    PROVE  n \in 1 .. Len(v.cands.items) /\ IsItem(v.cands, n)
BY DEF ItemsOf, Service, Lists, IsItem

\* What our own window says of the composition and of the document.
LEMMA OwnChip ==
    ASSUME NEW v, NEW o, Sound(v, o), v.win = "own"
    PROVE  ChipIs(v) /\ Listing(v) /\ v.ctx = o
BY DEF Sound, ChipIs, OwnList, Listing, InSentence, Home

LEMMA ReleasedIsSound ==
    ASSUME NEW o, NEW v, Kept(v), ChipIs(v), v.win = "none"
    PROVE  Sound(ReleaseCtx(v), o) /\ ReleaseCtx(v).win = "none" /\ Still(v, ReleaseCtx(v))
           /\ ReleaseCtx(v).st = v.st
<1> DEFINE u == ReleaseCtx(v)
<1>1. /\ Kept(u) /\ u.ctx = NoDoc /\ u.win = v.win /\ u.st = v.st /\ u.segMode = v.segMode
      /\ SameText(v, u) /\ u.spilled = v.spilled
    BY ReleaseCtxIs
<1> HIDE DEF u
<1>2. ChipIs(u) /\ Still(v, u)
    BY <1>1 DEF ChipIs, SameText, Still
<1> QED BY <1>1, <1>2, NoWindowIsSound DEF u

LEMMA WithSpilled ==
    ASSUME NEW v, Kept(v), NEW s
    PROVE  LET u == [v EXCEPT !.spilled = @ \/ s]
           IN  /\ Kept(u) /\ u.st = v.st /\ u.win = v.win /\ u.ctx = v.ctx
               /\ u.segMode = v.segMode /\ SameText(v, u)
               /\ v.spilled => u.spilled
               /\ s => u.spilled
<1> DEFINE u == [v EXCEPT !.spilled = @ \/ s]
<1>1. /\ u \in Service /\ u.st = v.st /\ u.win = v.win /\ u.ctx = v.ctx /\ u.segs = v.segs
      /\ u.segMode = v.segMode /\ SameText(v, u)
      /\ (v.spilled => u.spilled) /\ (s => u.spilled)
    BY DEF Kept, Service, SameText
<1> HIDE DEF u
<1>2. Kept(u)
    BY <1>1 DEF Kept, Seated, Targeted, SameText
<1> QED BY <1>1, <1>2 DEF u

\* After a choice the rest of the reading is offered again, or the document let go.
LEMMA AfterChoiceIs ==
    ASSUME Ready, NEW o \in Docs, NEW v, Kept(v), ChipIs(v), v.win = "none", v.ctx \in {o, NoDoc},
           NEW kind \in Kinds
    PROVE  Sound(AfterChoice(v, kind), o) /\ Moves(v, AfterChoice(v, kind), o)
<1> DEFINE how == IF lay.zh THEN "live" ELSE "asked"
           q == Open(v, v.ctx, how, kind)
<1>1. how \in Hows
    BY DEF Hows
<1> HIDE DEF how
<1>2. CASE ~(v.st.reading # <<>> /\ v.ctx # NoDoc)
    <2>1. AfterChoice(v, kind) = ReleaseCtx(v)
        BY <1>2 DEF AfterChoice
    <2> QED BY <2>1, ReleasedIsSound, StillMoves DEF ChipIs
<1>3. CASE v.st.reading # <<>> /\ v.ctx # NoDoc
    <2>1. AfterChoice(v, kind) = Reopened(q)
        BY <1>3 DEF AfterChoice, how
    <2>2. v.ctx = o
        BY <1>3
    <2>3. IsOpen(v, o, q)
        BY <1>1, <2>2, OpenIs
    <2> HIDE DEF q
    <2>4. CASE q.ok
        BY <2>1, <2>3, <2>4 DEF Reopened, IsOpen
    <2>5. CASE ~q.ok
        <3>1. Reopened(q) = ReleaseCtx(q.v)
            BY <2>5 DEF Reopened
        <3>2. Kept(q.v) /\ ChipIs(q.v) /\ q.v.win = "none" /\ Still(v, q.v)
            BY <2>3, <2>5 DEF IsOpen, ChipIs, Still, SameText
        <3> DEFINE z == q.v
        <3> HIDE DEF z
        <3>3. Sound(ReleaseCtx(z), o) /\ Still(z, ReleaseCtx(z))
            BY <3>2, ReleasedIsSound DEF z
        <3>4. Moves(v, ReleaseCtx(z), o)
            BY <3>2, <3>3, StillTwice, StillMoves DEF z
        <3> QED BY <2>1, <3>1, <3>3, <3>4 DEF z
    <2> QED BY <2>4, <2>5
<1> QED BY <1>2, <1>3

\* A choice moves keys only, but for pending ones of a live list.
LEMMA ChosenIs ==
    ASSUME Ready, NEW o \in Docs, NEW v, Kept(v), ChipIs(v), v.win = "none", v.ctx = o,
           NEW r, Step(lay, v.st, r), NEW kind \in Kinds,
           r.st.pending = v.st.pending => NoSep(After(r)) = NoSep(Typed(v.st))
    PROVE  Sound(Chosen(v, r, kind), o) /\ Moves(v, Chosen(v, r, kind), o)
<1>1. CASE ~r.eaten
    <2>1. Chosen(v, r, kind) = ReleaseCtx(v)
        BY <1>1 DEF Chosen
    <2> QED BY <2>1, ReleasedIsSound, StillMoves DEF ChipIs
<1>2. CASE r.eaten
    <2> DEFINE a == ApplyResult(v, v.ctx, r)
               s == v.st.pending # r.st.pending
               m == [a EXCEPT !.spilled = @ \/ s]
    <2>1. Chosen(v, r, kind) = AfterChoice([a EXCEPT !.spilled = @ \/ v.st.pending # r.st.pending], kind)
        BY <1>2 DEF Chosen
    <2>2. v.ctx # NoDoc /\ v.ctx \in Ctxs
        BY DEF Ready, Ctxs
    <2>3. IsAnswered(v, v.ctx, r, a)
        BY <2>2, ApplyResultIs
    <2>9. Writes(v, a, o, v.text[o] \o NoSep(After(r))) /\ Ours(v, a)
        BY <2>2, <2>3, AnsweredWrites DEF Ready
    <2> HIDE DEF a
    <2>4. Kept(a) /\ ChipIs(a) /\ a.win = "none" /\ a.ctx = o
        BY <2>2, <2>3 DEF IsAnswered, SameWindow
    <2>5. Kept(m) /\ m.st = a.st /\ m.win = a.win /\ m.ctx = a.ctx /\ SameText(a, m)
          /\ (a.spilled => m.spilled) /\ (s => m.spilled)
        <3> HIDE DEF s
        <3> QED BY <2>4, WithSpilled
    <2>6. m = [a EXCEPT !.spilled = @ \/ v.st.pending # r.st.pending]
        OBVIOUS
    <2> HIDE DEF m
    <2>7. ChipIs(m)
        BY <2>4, <2>5 DEF ChipIs, SameText
    <2>8. Sound(AfterChoice(m, kind), o) /\ Moves(m, AfterChoice(m, kind), o)
        BY <2>4, <2>5, <2>7, AfterChoiceIs
    <2>10. Moves(v, m, o)
        <3>1. m.spilled \/ v.text[o] \o NoSep(After(r)) = Whole(v, o)
            BY <2>5 DEF Whole
        <3> QED BY <2>5, <2>9, <3>1 DEF Moves, Writes, Ours, Whole, SameText
    <2>11. Moves(v, AfterChoice(m, kind), o)
        BY <2>8, <2>10, MovesTwice
    <2> QED BY <2>1, <2>6, <2>8, <2>11
<1> QED BY <1>1, <1>2

LEMMA WithSegments ==
    ASSUME NEW v \in Service, NEW sg \in SegsType
    PROVE  LET u == [v EXCEPT !.segs = sg]
           IN  u \in Service /\ u.st = v.st /\ u.segs = sg /\ SameText(v, u) /\ u.spilled = v.spilled
BY DEF Service, SameText

\* The sentence shown again, after its segments changed.
LEMMA AgainIs ==
    ASSUME Ready, NEW o \in Docs, NEW v, Kept(v), NEW sg, sg.gen = v.st.gen,
           SegsFit(sg, v.st.reading), v.st.pending = <<>>, v.st.reading # <<>>, v.st.open = TRUE,
           ~lay.zh, NEW kind \in Kinds
    PROVE  LET t == ShowSegs([v EXCEPT !.segs = sg], o, kind) IN Sound(t, o) /\ Moves(v, t, o)
<1> DEFINE u == [v EXCEPT !.segs = sg]
<1>1. u \in Service /\ u.st = v.st /\ u.segs = sg /\ SameText(v, u) /\ u.spilled = v.spilled
    BY WithSegments DEF Kept, SegsFit
<1> HIDE DEF u
<1>2. Good(lay, u.st)
    BY <1>1 DEF Kept
<1>3. Sound(ShowSegs(u, o, kind), o) /\ Moves(u, ShowSegs(u, o, kind), o)
    BY <1>1, <1>2, ShowSegsIs
<1>4. Moves(v, u, o)
    BY <1>1, StillMoves DEF Still
<1>5. Moves(v, ShowSegs(u, o, kind), o)
    BY <1>3, <1>4, MovesTwice
<1> QED BY <1>3, <1>5 DEF u

\* OnSeqCandidateSelected moves keys only.
LEMMA OnSelectedIs ==
    ASSUME Ready, NEW o \in Docs, NEW v, Sound(v, o), v.win = "own", NEW n \in ItemsOf(v),
           NEW kind \in Kinds
    PROVE  Sound(OnSelected(v, n, kind), o) /\ Moves(v, OnSelected(v, n, kind), o)
<1> DEFINE h == Hide(v)
<1>1. Kept(v) /\ ChipIs(v) /\ Listing(v) /\ v.ctx = o /\ o # NoDoc /\ Good(lay, v.st) /\ v \in Service
    BY OwnChip DEF Sound, Ready, Kept
<1>2. OnSelected(v, n, kind) = Selected(h, n, kind)
    BY DEF OnSelected
<1>3. /\ Kept(h) /\ h.win = "none" /\ h.st = v.st /\ h.cands = v.cands /\ h.segs = v.segs
      /\ h.segMode = v.segMode /\ h.ctx = v.ctx /\ SameText(v, h) /\ h.spilled = v.spilled
    BY <1>1, HideIs
<1> HIDE DEF h
<1>6. Moves(v, h, o)
    BY <1>3, StillMoves DEF Still
<1>4. CASE v.segMode
    <2> DEFINE p == SegChoose(h.st, h.segs, h.cands, n)
               sg == Move(p, 1)
    <2>1. InSentence(v) /\ v.st.open = TRUE /\ v.cands.gen = v.st.gen /\ v.cands.items # <<>>
        BY <1>1, <1>4 DEF Listing, InSentence, Idle
    <2>2. Selected(h, n, kind) = ShowSegs([h EXCEPT !.segs = sg], o, kind)
        BY <1>1, <1>3, <1>4, <2>1 DEF Selected, NextSegment, InSentence
    <2>3. SegsFit(v.segs, v.st.reading)
        BY <1>1, <1>4, <2>1 DEF Kept, Seated, InSentence
    <2>4. SegsFit(p, v.st.reading) /\ p.gen = v.segs.gen
        <3>1. IsItem(h.cands, n) /\ SegsFit(h.segs, v.st.reading) /\ h.segs.gen = v.segs.gen
            BY <1>1, <1>3, <2>1, <2>3, ItemsAre
        <3> QED BY <3>1, SegChooseIs
    <2> HIDE DEF p
    <2>5. SegsFit(sg, v.st.reading) /\ sg.gen = v.segs.gen
        BY <2>4, MoveIs
    <2> HIDE DEF sg
    <2> DEFINE t == ShowSegs([h EXCEPT !.segs = sg], o, kind)
    <2>6. Sound(t, o) /\ Moves(h, t, o)
        BY <1>3, <2>1, <2>5, AgainIs DEF InSentence
    <2>7. OnSelected(v, n, kind) = t
        BY <1>2, <2>2
    <2> HIDE DEF t
    <2> QED BY <1>6, <2>6, <2>7, MovesTwice
<1>5. CASE ~v.segMode
    <2> DEFINE r == SeqKb_Choose(lay, v.st, v.cands, n)
    <2>1. Selected(h, n, kind) = Chosen(h, r, kind)
        BY <1>3, <1>5 DEF Selected
    <2>2. v.cands.gen = v.st.gen => /\ n \in 1 .. Len(v.cands.items)
                                    /\ CandsFit(v.cands.items, v.st.reading)
        BY <1>1, <1>5, ItemsAre DEF Listing
    <2>3. IsChoice(lay, v.st, v.cands, r)
        BY <1>1, <2>2, ChooseIs
    <2>6. r.st.pending = v.st.pending => NoSep(After(r)) = NoSep(Typed(v.st))
        <3>1. CASE v.cands.gen = v.st.gen
            BY <1>1, <2>2, <3>1, ChooseLedger
        <3>2. CASE v.cands.gen # v.st.gen
            <4>1. r = Result(v.st, <<>>, FALSE)
                BY <3>2, ChooseDef
            <4>2. v.st \in Engine
                BY <1>1 DEF Good
            <4> HIDE DEF r
            <4>3. \A e \in BOOLEAN : After(Result(v.st, <<>>, e)) = Typed(v.st)
                BY <4>2, QuietResult
            <4>4. After(r) = Typed(v.st)
                BY <4>1, <4>3
            <4> QED BY <4>4
        <3> QED BY <3>1, <3>2
    <2> HIDE DEF r
    <2>4. Step(lay, h.st, r) /\ ChipIs(h)
        BY <1>1, <1>3, <2>3 DEF IsChoice, ChipIs, SameText
    <2> DEFINE t == Chosen(h, r, kind)
    <2>5. Sound(t, o) /\ Moves(h, t, o)
        BY <1>1, <1>3, <2>4, <2>6, ChosenIs
    <2>7. OnSelected(v, n, kind) = t
        BY <1>2, <2>1
    <2> HIDE DEF t
    <2> QED BY <1>6, <2>5, <2>7, MovesTwice
<1> QED BY <1>4, <1>5

\* A window that closed on a segment key leaves the engine's keys alone, or the sentence
\* is committed, which is not Chinese.
SameKeys(v, u) ==
    u.st.pending = v.st.pending /\ (u.st.reading = v.st.reading \/ ~lay.zh)

\* A sentence of segments committed: the engine is empty and the chip says so.
LEMMA SentenceDone ==
    ASSUME Ready, NEW o \in Docs, NEW v, Kept(v), v.win = "none", v.ctx = o, v.st.pending = <<>>,
           ~lay.zh, NEW s, IsSynced(lay, v.st, s)
    PROVE  LET done == SeqKb_Flush(lay, s)
               u == ReleaseCtx(LeaveSegments(ApplyResult([v EXCEPT !.segMode = FALSE], v.ctx, done)))
           IN  Sound(u, o) /\ u.win = "none" /\ Moves(v, u, o) /\ SameKeys(v, u)
<1> DEFINE done == SeqKb_Flush(lay, s)
           i == [v EXCEPT !.segMode = FALSE]
           a == ApplyResult(i, v.ctx, done)
           m == LeaveSegments(a)
           u == ReleaseCtx(m)
<1>1. Good(lay, s) /\ s.reading = v.st.reading /\ s.gen = v.st.gen
    BY DEF IsSynced
<1>2. IsFlush(lay, s, done) /\ After(done) = Typed(v.st)
    <2>1. IsFlush(lay, s, done) /\ After(done) = Typed(s)
        BY <1>1, FlushIs, FlushLedger DEF Ready
    <2>2. Typed(s) = Typed(v.st)
        BY <1>1 DEF Typed, IsSynced
    <2> QED BY <2>1, <2>2
<1> HIDE DEF done
<1>3. Step(lay, v.st, done)
    BY <1>1, <1>2 DEF IsFlush, Step, Newer
<1>4. i \in Service /\ i.st = v.st /\ i.win = "none" /\ ~i.segMode /\ SameText(v, i)
      /\ i.spilled = v.spilled
    BY DEF Kept, Service, SameText
<1> HIDE DEF i
<1>5. Kept(i)
    BY <1>4 DEF Kept, Seated, Targeted, SameText
<1>6. v.ctx \in Ctxs
    BY DEF Kept, Service
<1>7. IsAnswered(i, v.ctx, done, a)
    BY <1>3, <1>4, <1>5, <1>6, ApplyResultIs
<1>12. Moves(v, a, o)
    <2>1. Writes(i, a, o, i.text[o] \o NoSep(After(done))) /\ Ours(i, a)
        BY <1>3, <1>4, <1>5, <1>7, AnsweredWrites DEF Ready
    <2>2. i.text[o] \o NoSep(After(done)) = Whole(i, o)
        BY <1>2, <1>4 DEF Whole
    <2>3. Moves(v, i, o)
        BY <1>4, StillMoves DEF Still
    <2>4. Moves(i, a, o)
        BY <2>1, <2>2 DEF Moves
    <2> QED BY <2>3, <2>4, MovesTwice
<1>13. a.st = done.st /\ done.st.pending = <<>>
    BY <1>2, <1>7 DEF IsAnswered, IsFlush, Idle
<1> HIDE DEF a
<1>8. Kept(a) /\ ChipIs(a) /\ a.win = "none"
    BY <1>4, <1>7 DEF Ready, IsAnswered, SameWindow
<1>9. IsLeft(a, m)
    BY <1>8, LeaveSegmentsIs
<1> HIDE DEF m
<1>10. Kept(m) /\ ChipIs(m) /\ m.win = "none"
    BY <1>8, <1>9, SameTyped DEF IsLeft, ChipIs, SameText
<1>11. Sound(u, o) /\ u.win = "none" /\ Still(m, u) /\ u.st = m.st
    BY <1>10, ReleasedIsSound
<1> HIDE DEF u
<1>14. Moves(v, u, o)
    BY <1>9, <1>11, <1>12, LeftIsStill, StillMoves, MovesTwice
<1>15. SameKeys(v, u)
    BY <1>9, <1>11, <1>13 DEF SameKeys, IsLeft
<1> QED BY <1>11, <1>14, <1>15 DEF u, m, a, i, done

\* Leaving the segments with the window closed.
LEMMA LeftIsSound ==
    ASSUME Ready, NEW o, NEW v, Kept(v), ChipIs(v), v.win = "none"
    PROVE  LET u == ReleaseCtx(LeaveSegments(v))
           IN  Sound(u, o) /\ u.win = "none" /\ Moves(v, u, o) /\ SameKeys(v, u)
<1> DEFINE m == LeaveSegments(v)
<1>1. IsLeft(v, m)
    BY LeaveSegmentsIs
<1> HIDE DEF m
<1>2. Kept(m) /\ ChipIs(m) /\ m.win = "none"
    BY <1>1, SameTyped DEF IsLeft, ChipIs, SameText
<1>3. /\ Sound(ReleaseCtx(m), o) /\ ReleaseCtx(m).win = "none" /\ Still(m, ReleaseCtx(m))
      /\ ReleaseCtx(m).st = m.st
    BY <1>2, ReleasedIsSound
<1>4. Moves(v, ReleaseCtx(m), o)
    BY <1>1, <1>3, LeftIsStill, StillTwice, StillMoves
<1>5. SameKeys(v, ReleaseCtx(m))
    BY <1>1, <1>3 DEF SameKeys, IsLeft
<1> QED BY <1>3, <1>4, <1>5 DEF m

\* The reading shown again as it is typed.
LEMMA BackToReading ==
    ASSUME Ready, NEW o \in Docs, NEW v, Kept(v), v.win = "none", v.ctx = o, v.st.pending = <<>>
    PROVE  LET i == LeaveSegments(v)
               u == ReleaseCtx(Apply(i, v.ctx, <<>>, AsTyped(i.st.reading)))
           IN  Sound(u, o) /\ u.win = "none" /\ Moves(v, u, o) /\ SameKeys(v, u)
<1> DEFINE i == LeaveSegments(v)
           p == AsTyped(i.st.reading)
           a == Apply(i, v.ctx, <<>>, p)
<1>1. IsLeft(v, i)
    BY LeaveSegmentsIs
<1> HIDE DEF i
<1>2. /\ Kept(i) /\ i \in Service /\ i.st \in Engine /\ i.st.pending = <<>> /\ i.win = "none"
      /\ ~i.segMode /\ v.ctx \in Ctxs
    BY <1>1 DEF IsLeft, Kept, Good, Service
<1>3. p \in Pieces(Printable) /\ KeysOf(p) = Typed(i.st)
    BY <1>2, ReadingShown
<1> HIDE DEF p
<1>4. IsApplied(i, v.ctx, <<>>, p, a)
    BY <1>2, <1>3, ApplyIs, KeysJoin DEF Ready
<1>8. Quiet(i, a, o) /\ a.st = i.st
    BY <1>2, <1>4, AppliedQuiet DEF Ready, IsApplied, SameCore
<1> HIDE DEF a
<1>5. a \in Service /\ SameCore(i, a) /\ a.chip = p /\ Targeted(a)
    BY <1>4 DEF IsApplied, Targeted, Ready
<1>6. Kept(a) /\ ChipIs(a) /\ a.win = "none"
    BY <1>2, <1>3, <1>5 DEF Kept, SameCore, Seated, ChipIs
<1> DEFINE u == ReleaseCtx(a)
<1>7. Sound(u, o) /\ u.win = "none" /\ Still(a, u) /\ u.st = a.st
    BY <1>6, ReleasedIsSound
<1> HIDE DEF u
<1>9. Moves(v, u, o)
    <2>1. Moves(v, i, o) /\ Moves(i, a, o) /\ Moves(a, u, o)
        BY <1>1, <1>7, <1>8, LeftIsStill, StillMoves, QuietMoves
    <2> QED BY <2>1, MovesTwice
<1>10. SameKeys(v, u)
    BY <1>1, <1>7, <1>8 DEF SameKeys, IsLeft
<1> QED BY <1>7, <1>9, <1>10 DEF u, a, p, i

\* OnSeqSegmentKey moves keys only, and the keys it does not know find the reading as it was.
LEMMA OnSegmentKeyIs ==
    ASSUME Ready, NEW o \in Docs, NEW v0, Sound(v0, o), v0.win = "own", NEW key, NEW n \in ItemsOf(v0),
           NEW cut, NEW kind \in Kinds
    PROVE  LET u == OnSegmentKey(v0, key, n, cut, kind)
           IN  /\ Sound(u, o) /\ Moves(v0, u, o)
               /\ key \notin {"left", "right", "shrink", "grow"} => u.win = "none" /\ SameKeys(v0, u)
<1> DEFINE v == Hide(v0)
           p == SegChoose(v.st, v.segs, v.cands, n)
           u == OnSegmentKey(v0, key, n, cut, kind)
<1>1. Kept(v0) /\ ChipIs(v0) /\ Listing(v0) /\ v0.ctx = o /\ o # NoDoc /\ v0 \in Service
    BY OwnChip DEF Sound, Ready, Kept
<1>2. /\ Kept(v) /\ v.win = "none" /\ v.st = v0.st /\ v.cands = v0.cands /\ v.segs = v0.segs
      /\ v.segMode = v0.segMode /\ v.ctx = o /\ SameText(v0, v) /\ v.spilled = v0.spilled
    BY <1>1, HideIs
<1>3. u = IF ~v.segMode \/ v.ctx = NoDoc \/ v.segs.gen # v.st.gen THEN ReleaseCtx(LeaveSegments(v))
          ELSE IF key \in {"shrink", "grow"} THEN
               ShowSegs([v EXCEPT !.segs = Resize(v.st, v.segs, IF key = "grow" THEN 1 ELSE -1, cut)],
                        v.ctx, kind)
          ELSE IF key \in {"left", "right"} THEN
               ShowSegs([v EXCEPT !.segs = Move(p, IF key = "right" THEN 1 ELSE -1)], v.ctx, kind)
          ELSE IF key \in {"back", "fkey"} THEN
               ReleaseCtx(Apply(LeaveSegments(v), v.ctx, <<>>, AsTyped(LeaveSegments(v).st.reading)))
          ELSE ReleaseCtx(LeaveSegments(ApplyResult([v EXCEPT !.segMode = FALSE], v.ctx,
                                                    SeqKb_Flush(lay, Sync(v.st, p)))))
    BY DEF OnSegmentKey
<1> HIDE DEF v, u
<1>7. SUFFICES /\ Sound(u, o) /\ Moves(v, u, o)
               /\ key \notin {"left", "right", "shrink", "grow"} => u.win = "none" /\ SameKeys(v, u)
    <2>1. Moves(v0, v, o)
        BY <1>2, StillMoves DEF Still
    <2> QED BY <1>2, <2>1, MovesTwice DEF SameKeys, u
<1>4. ChipIs(v) /\ Good(lay, v.st) /\ v.st \in Engine
    BY <1>1, <1>2 DEF ChipIs, SameText, Kept, Good
<1>5. CASE ~v.segMode \/ v.segs.gen # v.st.gen
    <2>1. u = ReleaseCtx(LeaveSegments(v))
        BY <1>3, <1>5
    <2> QED BY <1>2, <1>4, <2>1, LeftIsSound
<1>6. CASE v.segMode /\ v.segs.gen = v.st.gen
    <2>1. /\ v.st.pending = <<>> /\ v.st.reading # <<>> /\ v.st.open = TRUE
          /\ v.cands.gen = v.st.gen /\ v.cands.items # <<>> /\ ~lay.zh
        BY <1>1, <1>2, <1>6 DEF Listing, InSentence, Idle
    <2>2. SegsFit(v.segs, v.st.reading)
        BY <1>2, <1>6 DEF Kept, Seated
    <2>3. SegsFit(p, v.st.reading) /\ p.gen = v.segs.gen
        <3>1. IsItem(v.cands, n)
            BY <1>1, <1>2, <2>1, ItemsAre
        <3> QED BY <2>2, <3>1, SegChooseIs
    <2>4. CASE key \in {"shrink", "grow"}
        <3> DEFINE d == IF key = "grow" THEN 1 ELSE -1
                   sg == Resize(v.st, v.segs, d, cut)
        <3>1. u = ShowSegs([v EXCEPT !.segs = sg], o, kind)
            BY <1>1, <1>2, <1>3, <1>6, <2>4
        <3>2. d \in Int
            OBVIOUS
        <3> HIDE DEF d
        <3>3. SegsFit(sg, v.st.reading) /\ sg.gen = v.st.gen
            BY <1>4, <1>6, <2>2, <3>2, ResizeIs
        <3> HIDE DEF sg
        <3>4. Sound(u, o) /\ Moves(v, u, o)
            BY <1>2, <2>1, <3>1, <3>3, AgainIs
        <3> QED BY <2>4, <3>4
    <2>5. CASE key \in {"left", "right"}
        <3> DEFINE d == IF key = "right" THEN 1 ELSE -1
                   sg == Move(p, d)
        <3>1. u = ShowSegs([v EXCEPT !.segs = sg], o, kind)
            BY <1>1, <1>2, <1>3, <1>6, <2>5
        <3>2. d \in Int
            OBVIOUS
        <3> HIDE DEF d, p
        <3>3. SegsFit(sg, v.st.reading) /\ sg.gen = v.st.gen
            BY <1>6, <2>3, <3>2, MoveIs
        <3> HIDE DEF sg
        <3>4. Sound(u, o) /\ Moves(v, u, o)
            BY <1>2, <2>1, <3>1, <3>3, AgainIs
        <3> QED BY <2>5, <3>4
    <2>6. CASE key \in {"back", "fkey"}
        <3>1. u = ReleaseCtx(Apply(LeaveSegments(v), v.ctx, <<>>, AsTyped(LeaveSegments(v).st.reading)))
            BY <1>1, <1>2, <1>3, <1>6, <2>6
        <3> QED BY <1>1, <1>2, <2>1, <3>1, BackToReading
    <2>7. CASE key \notin {"shrink", "grow", "left", "right", "back", "fkey"}
        <3> DEFINE s == Sync(v.st, p)
        <3>1. u = ReleaseCtx(LeaveSegments(ApplyResult([v EXCEPT !.segMode = FALSE], v.ctx,
                                                       SeqKb_Flush(lay, s))))
            BY <1>1, <1>2, <1>3, <1>6, <2>7
        <3> HIDE DEF p
        <3>2. IsSynced(lay, v.st, s)
            BY <1>4, <2>3, SyncIs
        <3> HIDE DEF s
        <3> QED BY <1>1, <1>2, <2>1, <3>1, <3>2, SentenceDone
    <2> QED BY <2>4, <2>5, <2>6, <2>7
<1> QED BY <1>5, <1>6

------------------------------------------------------------------------------
(* The window's keys. *)

Keeping(v, h) == h.v = v /\ ~h.hidden /\ h.hidden \in BOOLEAN
Closing(u, h) == h.v = u /\ h.hidden /\ h.hidden \in BOOLEAN

\* The keys that an ordinary list, and a window of segments, has a use for.
Arrows == {"left", "right", "shrink", "grow"}
EditKeys == Arrows \cup {"enter", "back"}

\* What the window does with a key, case by case.
LEMMA HandleKeyCases ==
    ASSUME NEW v, NEW key, NEW n, NEW cut, NEW kind
    PROVE  LET h == HandleKey(v, key, n, cut, kind)
           IN  \/ v.win # "own" /\ Keeping(v, h) /\ h.taken = {}
               \/ /\ v.win = "own" /\ v.onSegKey /\ key \notin {"space", "esc", "pick"}
                  /\ Closing(OnSegmentKey(v, key, n, cut, kind), h) /\ h.taken = EditKeys
               \/ v.win = "own" /\ v.onSegKey /\ key = "space" /\ Keeping(v, h) /\ key \in h.taken
               \/ /\ v.win = "own" /\ key \in {"space", "pick", "enter"}
                  /\ Closing(OnSelected(v, n, kind), h) /\ key \in h.taken
               \/ /\ v.win = "own" /\ v.onKey /\ key \in {"enter", "esc"}
                  /\ Closing(OnPinyinKey(v, key), h) /\ key \in h.taken
               \/ /\ v.win = "own" /\ v.onKey /\ ~v.onSegKey
                  /\ key \notin {"space", "pick", "enter", "esc"} /\ Keeping(v, h) /\ h.taken = Arrows
               \/ /\ v.win = "own" /\ ~v.onKey /\ key = "esc"
                  /\ Closing(Hide(OnCancelled(v)), h) /\ key \in h.taken
               \/ /\ v.win = "own" /\ ~v.onKey /\ ~v.onSegKey /\ key # "esc" /\ Keeping(v, h)
                  /\ key \in h.taken
<1> DEFINE h == HandleKey(v, key, n, cut, kind)
<1>1. CASE v.win # "own"
    BY <1>1 DEF HandleKey, Keeping
<1>2. CASE v.win = "own" /\ v.onSegKey /\ key \notin {"space", "esc", "pick"}
    BY <1>2 DEF HandleKey, Closing, EditKeys, Arrows
<1>3. CASE v.win = "own" /\ v.onSegKey /\ key = "space"
    BY <1>3 DEF HandleKey, Keeping
<1>4. CASE v.win = "own" /\ ~(v.onSegKey /\ key \notin {"esc", "pick"}) /\ v.onKey
    BY <1>4 DEF HandleKey, Keeping, Closing, Arrows
<1>5. CASE v.win = "own" /\ ~(v.onSegKey /\ key \notin {"esc", "pick"}) /\ ~v.onKey
    BY <1>5 DEF HandleKey, Keeping, Closing
<1> QED BY <1>1, <1>2, <1>3, <1>4, <1>5

\* A key the window leaves to the layout finds no window but a Chinese list.
OpenToKeys(v, key) == v.win = "own" => lay.zh /\ ~v.segMode /\ key # "space"
\* Esc in a Chinese list takes the reading away; no other key of a window takes anything.
TakesBack(v, key) == v.win = "own" /\ v.onKey /\ key = "esc"
\* The keys the window keeps are no text there, and the ones it leaves find the engine
\* as it was.
LeftToLayout(v, key, u) ==
    /\ OpenToKeys(u, key) /\ SameKeys(v, u)
    /\ v.win = "own" =>
           \/ v.onSegKey /\ key \notin EditKeys
           \/ v.onKey /\ ~v.onSegKey /\ key \notin Arrows
    /\ key = "esc" => v.win # "own"
KeptFromLayout(v, key) ==
    /\ v.win = "own"
    /\ key = "back" => ~v.onKey \/ v.onSegKey
    /\ key \in Printable => ~v.onKey /\ ~v.onSegKey
IsHandled(v, key, o, h) ==
    /\ Sound(h.v, o) /\ h.hidden \in BOOLEAN /\ (~h.hidden => h.v = v)
    /\ Ours(v, h.v)
    /\ TakesBack(v, key) => Writes(v, h.v, o, v.text[o])
    /\ ~TakesBack(v, key) => Moves(v, h.v, o)
    /\ key \notin h.taken => LeftToLayout(v, key, h.v)
    /\ key \in h.taken => KeptFromLayout(v, key)

\* A key that prints is none of a window's.
LEMMA PrintableKeys ==
    ASSUME NEW key \in Printable
    PROVE  key \notin HookKeys \cup EditKeys \cup {"fkey", "app"}
BY SeqAssumption DEF HookKeys, EditKeys, Arrows

\* CandidateUI_HandleKey: which keys the window keeps, and what it does with them.
LEMMA HandleKeyIs ==
    ASSUME Ready, NEW o \in Docs, NEW v, Sound(v, o), NEW key, NEW n \in ItemsOf(v), NEW cut,
           NEW kind \in Kinds
    PROVE  IsHandled(v, key, o, HandleKey(v, key, n, cut, kind))
<1> DEFINE h == HandleKey(v, key, n, cut, kind)
<1>1. \/ v.win # "own" /\ Keeping(v, h) /\ h.taken = {}
      \/ /\ v.win = "own" /\ v.onSegKey /\ key \notin {"space", "esc", "pick"}
         /\ Closing(OnSegmentKey(v, key, n, cut, kind), h) /\ h.taken = EditKeys
      \/ v.win = "own" /\ v.onSegKey /\ key = "space" /\ Keeping(v, h) /\ key \in h.taken
      \/ /\ v.win = "own" /\ key \in {"space", "pick", "enter"}
         /\ Closing(OnSelected(v, n, kind), h) /\ key \in h.taken
      \/ /\ v.win = "own" /\ v.onKey /\ key \in {"enter", "esc"}
         /\ Closing(OnPinyinKey(v, key), h) /\ key \in h.taken
      \/ /\ v.win = "own" /\ v.onKey /\ ~v.onSegKey
         /\ key \notin {"space", "pick", "enter", "esc"} /\ Keeping(v, h) /\ h.taken = Arrows
      \/ /\ v.win = "own" /\ ~v.onKey /\ key = "esc"
         /\ Closing(Hide(OnCancelled(v)), h) /\ key \in h.taken
      \/ /\ v.win = "own" /\ ~v.onKey /\ ~v.onSegKey /\ key # "esc" /\ Keeping(v, h)
         /\ key \in h.taken
    BY HandleKeyCases
<1> HIDE DEF h
<1>0. /\ key \in Printable => key \notin {"space", "pick", "enter", "esc"} /\ key \notin EditKeys
      /\ Moves(v, v, o) /\ SameKeys(v, v)
    <2>1. Moves(v, v, o)
        BY StillMoves DEF Still, SameText
    <2> QED BY <2>1, PrintableKeys DEF HookKeys, SameKeys
<1>2. CASE v.win # "own" /\ Keeping(v, h) /\ h.taken = {}
    <2>1. LeftToLayout(v, key, v)
        BY <1>0, <1>2 DEF LeftToLayout, OpenToKeys
    <2> QED BY <1>0, <1>2, <2>1 DEF Keeping, IsHandled, TakesBack, Moves, h
<1>3. CASE /\ v.win = "own" /\ v.onSegKey /\ key \notin {"space", "esc", "pick"}
           /\ Closing(OnSegmentKey(v, key, n, cut, kind), h) /\ h.taken = EditKeys
    <2> DEFINE u == OnSegmentKey(v, key, n, cut, kind)
    <2>1. /\ Sound(u, o) /\ Moves(v, u, o)
          /\ key \notin {"left", "right", "shrink", "grow"} => u.win = "none" /\ SameKeys(v, u)
        BY <1>3, OnSegmentKeyIs
    <2> HIDE DEF u
    <2>2. h.v = u /\ h.hidden /\ h.hidden \in BOOLEAN
        BY <1>3 DEF Closing, u
    <2>3. ASSUME key \notin h.taken PROVE LeftToLayout(v, key, u)
        <3>1. key \notin EditKeys
            BY <1>3, <2>3
        <3>2. u.win = "none" /\ SameKeys(v, u)
            BY <2>1, <3>1 DEF EditKeys, Arrows
        <3>3. OpenToKeys(u, key)
            BY <3>2 DEF OpenToKeys
        <3>4. v.win = "own" /\ v.onSegKey /\ key # "esc"
            BY <1>3
        <3> QED BY <3>1, <3>2, <3>3, <3>4 DEF LeftToLayout
    <2>4. key \in h.taken => KeptFromLayout(v, key)
        BY <1>0, <1>3 DEF KeptFromLayout
    <2> QED BY <1>3, <2>1, <2>2, <2>3, <2>4 DEF IsHandled, TakesBack, Moves, h
<1>4. CASE v.win = "own" /\ v.onSegKey /\ key = "space" /\ Keeping(v, h) /\ key \in h.taken
    <2>1. KeptFromLayout(v, key)
        BY <1>0, <1>4 DEF KeptFromLayout
    <2> QED BY <1>0, <1>4, <2>1 DEF Keeping, IsHandled, TakesBack, Moves, h
<1>5. CASE /\ v.win = "own" /\ key \in {"space", "pick", "enter"}
           /\ Closing(OnSelected(v, n, kind), h) /\ key \in h.taken
    <2>1. Sound(OnSelected(v, n, kind), o) /\ Moves(v, OnSelected(v, n, kind), o)
        BY <1>5, OnSelectedIs
    <2>2. KeptFromLayout(v, key)
        BY <1>0, <1>5 DEF KeptFromLayout
    <2> QED BY <1>5, <2>1, <2>2 DEF Closing, IsHandled, TakesBack, Moves, h
<1>6. CASE /\ v.win = "own" /\ v.onKey /\ key \in {"enter", "esc"}
           /\ Closing(OnPinyinKey(v, key), h) /\ key \in h.taken
    <2> DEFINE u == OnPinyinKey(v, key)
    <2>1. /\ Sound(u, o) /\ Ours(v, u)
          /\ key = "enter" => Moves(v, u, o)
          /\ key # "enter" => Writes(v, u, o, v.text[o])
        BY <1>6, OwnChip, OnPinyinKeyIs DEF Sound
    <2>2. KeptFromLayout(v, key)
        BY <1>0, <1>6 DEF KeptFromLayout
    <2> QED BY <1>6, <2>1, <2>2 DEF Closing, IsHandled, TakesBack, Moves, h
<1>7. CASE /\ v.win = "own" /\ v.onKey /\ ~v.onSegKey
           /\ key \notin {"space", "pick", "enter", "esc"} /\ Keeping(v, h) /\ h.taken = Arrows
    <2>1. lay.zh /\ ~v.segMode
        BY <1>7, OwnChip DEF Listing, InSentence
    <2>2. key \notin h.taken => LeftToLayout(v, key, v)
        BY <1>0, <1>7, <2>1 DEF LeftToLayout, OpenToKeys
    <2>3. key \in h.taken => KeptFromLayout(v, key)
        BY <1>0, <1>7 DEF KeptFromLayout, EditKeys, Arrows
    <2> QED BY <1>0, <1>7, <2>2, <2>3 DEF Keeping, IsHandled, TakesBack, Moves, h
<1>8. CASE /\ v.win = "own" /\ ~v.onKey /\ key = "esc"
           /\ Closing(Hide(OnCancelled(v)), h) /\ key \in h.taken
    <2>1. Kept(v) /\ ChipIs(v) /\ v.ctx = o
        BY <1>8, OwnChip DEF Sound
    <2>2. IsEnded(v, OnCancelled(v))
        BY <2>1, OnCancelledIs
    <2>3. Sound(Hide(OnCancelled(v)), o) /\ Moves(v, Hide(OnCancelled(v)), o)
        BY <2>1, <2>2, HideEnded, QuietMoves
    <2>4. KeptFromLayout(v, key)
        BY <1>0, <1>8 DEF KeptFromLayout
    <2> QED BY <1>8, <2>3, <2>4 DEF Closing, IsHandled, TakesBack, Moves, h
<1>9. CASE /\ v.win = "own" /\ ~v.onKey /\ ~v.onSegKey /\ key # "esc" /\ Keeping(v, h)
           /\ key \in h.taken
    BY <1>0, <1>9 DEF Keeping, IsHandled, TakesBack, KeptFromLayout, Moves, h
<1> QED BY <1>1, <1>2, <1>3, <1>4, <1>5, <1>6, <1>7, <1>8, <1>9

------------------------------------------------------------------------------

(* KES_OnKeyDown, and what the user's text is to be after it. *)

\* The part of a concatenation that was in front.
LEMMA HeadPart ==
    ASSUME NEW S, NEW z \in Seq(S), NEW y \in Seq(S)
    PROVE  SubSeq(z \o y, 1, Len(z)) = z
<1> DEFINE s == z \o y
           t == SubSeq(s, 1, Len(z))
<1>1. /\ Len(z) \in Nat /\ s \in Seq(S)
      /\ \A i \in 1 .. Len(z) : s[i] = z[i] /\ z[i] \in S
    BY LenProperties, ConcatProperties, ElementOfSeq
<1> HIDE DEF s
<1>2. \A i \in 1 .. Len(z) : s[i] \in S
    BY <1>1
<1>3. t \in Seq(S) /\ Len(t) = Len(z) /\ \A i \in 1 .. Len(z) : t[i] = s[i]
    <2>1. /\ SubSeq(s, 1, Len(z)) \in Seq(S)
          /\ Len(SubSeq(s, 1, Len(z))) = IF 1 <= Len(z) THEN Len(z) - 1 + 1 ELSE 0
          /\ \A i \in 1 .. Len(z) - 1 + 1 : SubSeq(s, 1, Len(z))[i] = s[1 + i - 1]
        BY <1>1, <1>2, SubSeqProperties
    <2> QED BY <1>1, <2>1
<1> HIDE DEF t
<1>4. t = z
    BY <1>1, <1>3, SeqEqual
<1> QED BY <1>4 DEF t, s

\* A text without the keys s at its end.
Without(old, s) == SubSeq(old, 1, Len(old) - Len(NoSep(s)))
\* Taking the newest keys from a text leaves the ones before them.
LEMMA WithoutIs ==
    ASSUME NEW t \in Words, NEW a \in Words, NEW s \in Words
    PROVE  Without(t \o NoSep(a \o s), s) = t \o NoSep(a)
<1> DEFINE x == NoSep(a)
           y == NoSep(s)
           z == t \o x
<1>1. x \in Words /\ y \in Words /\ NoSep(a \o s) = x \o y
    BY NoSepWords
<1>2. Without(t \o NoSep(a \o s), s) = SubSeq(t \o (x \o y), 1, Len(t \o (x \o y)) - Len(y))
    BY <1>1 DEF Without
<1> HIDE DEF x, y
<1>3. t \o (x \o y) = z \o y /\ z \in Words
    BY <1>1, WordsJoin
<1> HIDE DEF z
<1>4. /\ Len(z) \in Nat /\ Len(y) \in Nat /\ Len(z \o y) = Len(z) + Len(y)
      /\ \A i \in 1 .. Len(z) : (z \o y)[i] = z[i]
    BY <1>1, <1>3, LenProperties, ConcatProperties DEF Words
<1>5. Len(z \o y) - Len(y) = Len(z)
    BY <1>4
<1>6. SubSeq(z \o y, 1, Len(z)) = z
    BY <1>1, <1>3, <1>4, HeadPart DEF Words
<1> QED BY <1>2, <1>3, <1>5, <1>6 DEF x, z

\* The user's text after a key: taken back, cancelled, dropped, refused, or longer by it.
Due(v, key) ==
    IF key = "back" THEN Without(Whole(v, owner), LastWaiting(v.st))
    ELSE IF key = "esc" THEN Without(Whole(v, owner), Typed(v.st))
    ELSE IF key \notin Printable THEN Whole(v, owner)
    ELSE IF Drops(lay, v.st, key) THEN Without(Whole(v, owner), v.st.pending)
    ELSE IF Refuses(lay, v.st, key) THEN Whole(v, owner)
    ELSE Whole(v, owner) \o NoSep(<<key>>)
\* A step that leaves that text, and lets the application's key find no reading.
OursOrIdle(v, u) == v.out \in Pieces(Printable) => u.out \in Pieces(Printable) \/ Idle(u.st)
\* What a key that went on to the application may find.
Fits(u) ==
    \/ u.out \in Pieces(Printable)
    \/ Idle(u.st)
    \/ u.out # <<>> /\ Last(u.out).keys = <<"app">>
    \/ ~Styled(lay) /\ u.out # <<>> /\ \E key \in Printable : Last(u.out).keys = <<key>>
IsGiven(v, key, u) == Writes(v, u, owner, Due(v, key)) /\ OursOrIdle(v, u)

\* A key on its own.
LEMMA OneKey ==
    ASSUME NEW key \in AnyKey
    PROVE  InApp(key) \in Texts /\ Letterly(InApp(key)) = NoSep(<<key>>)
<1> DEFINE P == [keys : Seq(AnyKey), as : Manners \cup {"app"}]
           x == [keys |-> <<key>>, as |-> "app"]
<1>1. x \in P /\ x.keys = <<key>> /\ Texts = Seq(P) /\ \A y \in P : y.keys \in Seq(AnyKey)
    BY DEF Texts
<1>2. InApp(key) = <<x>>
    BY DEF InApp
<1> HIDE DEF P, x
<1>3. <<x>> \in Seq(P) /\ KeysOf(<<x>>) = x.keys
    BY <1>1, KeysOfPiece
<1> QED BY <1>1, <1>2, <1>3 DEF Letterly

\* A key the layout does not know, as text.
LEMMA OneLiteral ==
    ASSUME NEW key \in Printable
    PROVE  Literal(key) \in Pieces(Printable) /\ Letterly(Literal(key)) = NoSep(<<key>>)
<1>1. <<key>> \in Seq(Printable) /\ "literal" \in Manners
    BY DEF Manners
<1> QED BY <1>1, KeysOfOne DEF Literal, Letterly

\* A key that is not printed is no text.
LEMMA NoText ==
    ASSUME NEW key \in AnyKey, key \notin Printable
    PROVE  NoSep(<<key>>) = <<>>
<1> DEFINE K == Printable \ {Sep}
<1>1. NoSep(<<key>>) = Only(K, <<key>>) /\ key \notin K /\ <<>> \in Seq(AnyKey)
      /\ <<key>> = Append(<<>>, key)
    BY DEF NoSep
<1> HIDE DEF K
<1>2. Only(K, Append(<<>>, key)) = Only(K, <<>>)
    BY <1>1, OnlyDrops
<1> QED BY <1>1, <1>2, OnlyEmpty

\* An engine that is emptied has committed all that waited.
LEMMA EmptiedText ==
    ASSUME NEW r \in Results, Idle(r.st), NEW st, NoSep(After(r)) = NoSep(Typed(st))
    PROVE  Letterly(r.out) = NoSep(Typed(st))
<1>1. KeysOf(r.out) \in Words /\ Typed(r.st) = <<>>
    BY OursAreKeys, IdleIs DEF Results
<1>2. After(r) = KeysOf(r.out)
    BY <1>1, WordsJoin DEF After
<1> QED BY <1>2 DEF Letterly

\* The engine emptied into the document: the chip is empty too.
IsDone(v, r, out, u) ==
    /\ Kept(u) /\ ChipIs(u) /\ Idle(u.st) /\ u.st = r.st /\ SameWindow(v, u)
    /\ u.out = v.out \o out /\ Writes(v, u, owner, v.text[owner] \o Letterly(out))

\* The engine emptied into the document.
LEMMA DoneIs ==
    ASSUME Ready, owner \in Docs, NEW v, Kept(v), NEW r, Step(lay, v.st, r), Idle(r.st),
           NEW out \in Texts
    PROVE  IsDone(v, r, out, Apply([v EXCEPT !.st = r.st], owner, out, <<>>))
<1> DEFINE i == [v EXCEPT !.st = r.st]
           u == Apply(i, owner, out, <<>>)
<1>1. v \in Service /\ r.st \in Engine /\ Good(lay, r.st) /\ Newer(v.st, r.st)
    BY DEF Kept, Step, Results
<1>2. i \in Service /\ i.st = r.st /\ SameWindow(v, i) /\ SameText(v, i)
    BY <1>1, WithStIs
<1> HIDE DEF i
<1>3. <<>> \in Pieces(Printable) /\ KeysOf(<<>>) = <<>> /\ owner \in Ctxs /\ owner # NoDoc
    BY PiecesJoin DEF Ctxs, Ready
<1>4. IsApplied(i, owner, out, <<>>, u)
    BY <1>2, <1>3, ApplyIs DEF Ready
<1> HIDE DEF u
<1>5. u \in Service /\ u.st = r.st /\ u.chip = <<>> /\ SameWindow(v, u)
    <2>1. u \in Service /\ u.st = r.st /\ u.chip = <<>>
        BY <1>2, <1>3, <1>4 DEF IsApplied, SameCore
    <2>2. SameWindow(i, u)
        BY <1>4 DEF IsApplied, SameCore, SameWindow
    <2> QED BY <1>2, <2>1, <2>2 DEF SameWindow
<1>6. Seated(u) /\ Targeted(u)
    <2>1. Seated(u)
        BY <1>1, <1>5, StaysSeated DEF Kept, SameWindow
    <2> QED BY <1>5, <2>1 DEF Targeted
<1>7. Typed(r.st) = <<>>
    BY <1>1, IdleIs
<1>8. Kept(u) /\ ChipIs(u) /\ Idle(u.st) /\ u.st = r.st /\ SameWindow(v, u)
    BY <1>1, <1>3, <1>5, <1>6, <1>7 DEF Kept, ChipIs
<1>9. /\ u.out = v.out \o out /\ u.target = v.target /\ u.spilled = v.spilled
      /\ u.text = [v.text EXCEPT ![owner] = @ \o Letterly(out)]
    BY <1>2, <1>3, <1>4 DEF IsApplied, SameText, SameWindow
<1>10. Whole(u, owner) = v.text[owner] \o Letterly(out)
    <2> DEFINE x == v.text[owner] \o Letterly(out)
    <2>1. v.text \in [Docs -> Words]
        BY <1>1 DEF Service
    <2>2. x \in Words
        BY <2>1, LetterlyIs, WordsJoin
    <2>3. Whole(u, owner) = x \o <<>>
        BY <1>5, <1>7, <1>9, <2>1, NoSepWords DEF Whole
    <2> HIDE DEF x
    <2>4. Whole(u, owner) = x
        BY <2>2, <2>3, WordsJoin
    <2> QED BY <2>4 DEF x
<1>11. Writes(v, u, owner, v.text[owner] \o Letterly(out))
    <2>1. v.text \in [Docs -> Words]
        BY <1>1 DEF Service
    <2>2. \A d \in Docs \ {owner} : u.text[d] = v.text[d]
        BY <1>9, <2>1
    <2> QED BY <1>9, <1>10, <2>2 DEF Writes
<1>12. IsDone(v, r, out, u)
    BY <1>8, <1>9, <1>11 DEF IsDone
<1> QED BY <1>12 DEF u, i

------------------------------------------------------------------------------
(* The layout's keys. *)

\* What a boundary key leaves behind: all that waited is in the document, and nothing waits.
IsBounded(v, key, u) ==
    /\ Sound(u, owner) /\ u.win = v.win /\ Idle(u.st)
    /\ Writes(v, u, owner, Whole(v, owner))
    /\ key = "enter" /\ (lay.zh \/ lay.ja) => Ours(v, u)
\* A boundary key finds the reading in the document before it.
LEMMA OnBoundaryIs ==
    ASSUME Ready, owner \in Docs, NEW v, Kept(v), Home(v, owner), OwnList(v),
           v.win = "own" => ~v.segMode, NEW key \in AnyKey, key \notin Printable
    PROVE  IsBounded(v, key, OnBoundary(v, key).v)
<1> DEFINE r == SeqKb_Flush(lay, v.st)
           spent == key = "enter" /\ (lay.zh \/ lay.ja)
           out == IF spent THEN r.out ELSE r.out \o InApp(key)
           u == Apply([v EXCEPT !.st = r.st], owner, out, <<>>)
<1>1. OnBoundary(v, key).v = u
    BY DEF OnBoundary, Bounded, Took
<1>2. IsFlush(lay, v.st, r) /\ Good(lay, v.st) /\ v \in Service
    BY FlushIs DEF Kept, Ready
<1> HIDE DEF r
<1>3. Step(lay, v.st, r) /\ Idle(r.st) /\ r.out \in Texts /\ r.out \in Pieces(Printable)
    <2>1. Step(lay, v.st, r) /\ Idle(r.st) /\ r.out \in Pieces(Printable)
        BY <1>2 DEF IsFlush, Step, Results
    <2> QED BY <2>1, OursAreKeys
<1>4. Letterly(r.out) = NoSep(Typed(v.st)) /\ NoSep(Typed(v.st)) \in Words
    <2>1. KeysOf(r.out) = Typed(v.st) /\ KeysOf(r.out) \in Words
        BY <1>2, <1>3, OursAreKeys DEF IsFlush
    <2> QED BY <2>1, NoSepWords DEF Letterly
<1>5. out \in Texts /\ Letterly(out) = NoSep(Typed(v.st))
    <2>1. InApp(key) \in Texts /\ Letterly(InApp(key)) = <<>>
        BY OneKey, NoText
    <2>2. r.out \o InApp(key) \in Texts
        BY <1>3, <2>1, KeysJoin
    <2>3. Letterly(r.out \o InApp(key)) = Letterly(r.out) \o Letterly(InApp(key))
        BY <1>3, <2>1, LetterlyIs
    <2>4. Letterly(r.out \o InApp(key)) = NoSep(Typed(v.st))
        BY <1>4, <2>1, <2>3, WordsJoin
    <2> QED BY <1>3, <1>4, <2>2, <2>4
<1>6. spent => out = r.out
    OBVIOUS
<1> HIDE DEF out
<1>7. IsDone(v, r, out, u)
    BY <1>3, <1>5, DoneIs
<1> HIDE DEF u
<1>8. Kept(u) /\ ChipIs(u) /\ Idle(u.st) /\ u.st = r.st /\ SameWindow(v, u)
    BY <1>7 DEF IsDone
<1>9. u.win = "own" => Listing(u)
    <2> SUFFICES ASSUME u.win = "own" PROVE Listing(u)
        OBVIOUS
    <2>1. v.win = "own" /\ Listing(v) /\ ~v.segMode
        BY <1>8 DEF OwnList, SameWindow
    <2>2. v.cands.gen \in Int /\ v.st.gen \in Int /\ r.st.gen \in Int
        BY <1>2, <1>8 DEF Service, Lists, Engine, Kept
    <2>3. v.cands.gen < r.st.gen
        <3>1. v.cands.gen <= v.st.gen /\ (v.cands.gen = v.st.gen => v.st.reading # <<>>)
            BY <2>1 DEF Listing
        <3>2. v.st.reading # <<>> => r.st.gen > v.st.gen
            BY <1>2 DEF IsFlush
        <3>3. r.st.gen >= v.st.gen
            BY <1>3, <2>2 DEF Step, Newer
        <3> QED BY <2>2, <3>1, <3>2, <3>3
    <2>4. u.cands = v.cands /\ ~u.segMode /\ (u.onKey => lay.zh)
        BY <1>8, <2>1 DEF SameWindow, Listing
    <2> QED BY <1>8, <2>2, <2>3, <2>4 DEF Listing
<1>10. Sound(u, owner) /\ u.win = v.win /\ Idle(u.st)
    BY <1>8, <1>9 DEF Sound, ChipIs, Home, OwnList, SameWindow
<1>11. Writes(v, u, owner, Whole(v, owner))
    BY <1>5, <1>7 DEF IsDone, Whole
<1>12. spent => Ours(v, u)
    <2> SUFFICES ASSUME spent, v.out \in Pieces(Printable) PROVE u.out \in Pieces(Printable)
        BY DEF Ours
    <2>1. u.out = v.out \o r.out
        BY <1>6, <1>7 DEF IsDone
    <2> QED BY <1>3, <2>1, PiecesJoin
<1>13. IsBounded(v, key, u)
    BY <1>10, <1>11, <1>12 DEF IsBounded
<1> QED BY <1>1, <1>13

\* The convert key opens a sentence or a list, or neither.
LEMMA InSegmentsIs ==
    ASSUME Ready, owner \in Docs, NEW v, Kept(v), NEW cut, NEW kind \in Kinds
    PROVE  IsOpen(v, owner, OnConvertKey(v, cut, kind))
<1> DEFINE s == Segments(lay, v.st, cut)
           q == OnConvertKey(v, cut, kind)
           t == [v EXCEPT !.st = s.st, !.segs = s.segs, !.spilled = @ \/ s.spilled]
<1>1. IsSegmented(lay, v.st, s)
    BY SegmentsIs DEF Kept, Ready
<1>2. q = IF s.ok THEN [ok |-> TRUE, v |-> ShowSegs(t, owner, kind)]
          ELSE Open(v, owner, "asked", kind)
    BY DEF OnConvertKey, InSegments
<1>3. s.ok => lay.ja /\ (~s.spilled => Typed(s.st) = Typed(v.st))
    BY SegmentsKeep DEF Kept, Ready
<1> HIDE DEF s, q
<1>4. CASE s.ok
    <2>1. /\ Good(lay, s.st) /\ s.st.open = TRUE /\ s.st.pending = <<>> /\ s.st.reading # <<>>
          /\ s.segs.gen = s.st.gen /\ SegsFit(s.segs, s.st.reading) /\ s.spilled \in BOOLEAN
        BY <1>1, <1>4 DEF IsSegmented
    <2>2. /\ t \in Service /\ t.st = s.st /\ t.segs = s.segs /\ SameText(v, t)
          /\ (v.spilled => t.spilled) /\ (s.spilled => t.spilled)
        <3>1. s.st \in Engine /\ s.segs \in SegsType /\ v \in Service
            BY <2>1 DEF Good, SegsFit, Kept
        <3>2. t \in Service
            BY <2>1, <3>1 DEF Service
        <3>3. t.st = s.st /\ t.segs = s.segs /\ SameText(v, t)
            BY <3>1 DEF Service, SameText
        <3>4. (v.spilled => t.spilled) /\ (s.spilled => t.spilled)
            BY <3>1 DEF Service
        <3> QED BY <3>2, <3>3, <3>4
    <2>3. q.ok = TRUE /\ q.v = ShowSegs(t, owner, kind)
        BY <1>2, <1>4
    <2> HIDE DEF t
    <2>4. ~lay.zh
        BY <1>3, <1>4 DEF Ready
    <2>5. Sound(ShowSegs(t, owner, kind), owner) /\ Moves(t, ShowSegs(t, owner, kind), owner)
        BY <2>1, <2>2, <2>4, ShowSegsIs
    <2>6. Quiet(v, t, owner)
        BY <1>3, <1>4, <2>2 DEF Quiet, SameText
    <2>7. Moves(v, ShowSegs(t, owner, kind), owner)
        BY <2>5, <2>6, QuietMoves, MovesTwice
    <2>8. IsOpen(v, owner, q)
        BY <2>3, <2>5, <2>7 DEF IsOpen
    <2> QED BY <2>8 DEF q
<1>5. CASE ~s.ok
    <2>1. q = Open(v, owner, "asked", kind)
        BY <1>2, <1>5
    <2>2. IsOpen(v, owner, q)
        <3>1. "asked" \in Hows
            BY DEF Hows
        <3> QED BY <2>1, <3>1, OpenIs
    <2> QED BY <2>2 DEF q
<1> QED BY <1>4, <1>5

\* When neither opens, the space is a boundary.
LEMMA AfterConvertIs ==
    ASSUME Ready, owner \in Docs, NEW v, Kept(v), Home(v, owner), v.win # "own",
           NEW q, IsOpen(v, owner, q)
    PROVE  LET u == AfterConvert(q).v
           IN  Sound(u, owner) /\ Writes(v, u, owner, Whole(v, owner)) /\ OursOrIdle(v, u)
<1>1. CASE q.ok
    <2>1. AfterConvert(q).v = q.v /\ Sound(q.v, owner) /\ Moves(v, q.v, owner)
        BY <1>1 DEF AfterConvert, Took, IsOpen
    <2> QED BY <2>1 DEF Moves, Ours, OursOrIdle
<1>2. CASE ~q.ok
    <2>1. AfterConvert(q) = OnBoundary(q.v, "space")
        BY <1>2 DEF AfterConvert
    <2>2. Kept(q.v) /\ Home(q.v, owner) /\ q.v.win # "own" /\ OwnList(q.v) /\ Still(v, q.v)
        BY <1>2 DEF IsOpen, Home, OwnList
    <2>3. "space" \in AnyKey /\ "space" \notin Printable
        BY SeqAssumption DEF AnyKey, HookKeys
    <2>4. IsBounded(q.v, "space", OnBoundary(q.v, "space").v)
        BY <2>2, <2>3, OnBoundaryIs
    <2> DEFINE u == OnBoundary(q.v, "space").v
    <2>5. Sound(u, owner) /\ Idle(u.st) /\ Writes(q.v, u, owner, Whole(q.v, owner))
        BY <2>4 DEF IsBounded
    <2> HIDE DEF u
    <2>6. Whole(q.v, owner) = Whole(v, owner)
        BY <2>2 DEF Still, SameText, Whole
    <2>7. Writes(v, u, owner, Whole(v, owner))
        BY <2>2, <2>5, <2>6, StillMoves, MovesThenWrites
    <2>8. OursOrIdle(v, u)
        BY <2>5 DEF OursOrIdle
    <2> QED BY <2>1, <2>5, <2>7, <2>8 DEF u
<1> QED BY <1>1, <1>2

\* The engine emptied after the window was closed.
IsDoneClosed(v, out, u) ==
    /\ Sound(u, owner) /\ Idle(u.st) /\ u.out = v.out \o out
    /\ Writes(v, u, owner, v.text[owner] \o Letterly(out))
\* The engine emptied after its window was closed.
LEMMA ClosedDone ==
    ASSUME Ready, owner \in Docs, NEW v, Kept(v), NEW r, Step(lay, v.st, r), Idle(r.st),
           NEW out \in Texts
    PROVE  IsDoneClosed(v, out, Apply([Closed(v) EXCEPT !.st = r.st], owner, out, <<>>))
<1> DEFINE c == Closed(v)
           u == Apply([c EXCEPT !.st = r.st], owner, out, <<>>)
<1>1. Kept(c) /\ c.win = "none" /\ c.ctx = NoDoc /\ c.st = v.st /\ Still(v, c)
    BY ClosedIs DEF Closed
<1> HIDE DEF c
<1>2. IsDone(c, r, out, u)
    BY <1>1, DoneIs
<1> HIDE DEF u
<1>3. Kept(u) /\ ChipIs(u) /\ u.win = "none" /\ u.ctx = NoDoc
    BY <1>1, <1>2 DEF IsDone, ChipIs, SameWindow
<1>4. Sound(u, owner)
    BY <1>3, NoWindowIsSound
<1>5. c.text = v.text /\ c.out = v.out
    BY <1>1 DEF Still, SameText
<1>6. u.out = v.out \o out /\ Idle(u.st) /\ Writes(c, u, owner, v.text[owner] \o Letterly(out))
    BY <1>2, <1>5 DEF IsDone
<1>7. Writes(v, u, owner, v.text[owner] \o Letterly(out))
    BY <1>1, <1>6, StillMoves, MovesThenWrites
<1>8. IsDoneClosed(v, out, u)
    BY <1>4, <1>6, <1>7 DEF IsDoneClosed
<1> QED BY <1>8 DEF u, c

\* What an engine is left with after a key is what is due.
LEMMA TakenIsDue ==
    ASSUME NEW v, Kept(v), owner \in Docs, NEW r, NEW last, IsTakenBack(v.st, r, last)
    PROVE  v.text[owner] \o NoSep(After(r)) = Without(Whole(v, owner), last)
<1> DEFINE t == v.text[owner]
           a == After(r)
<1>1. t \in Words /\ a \in Words /\ last \in Words /\ Typed(v.st) = a \o last
    BY DEF Kept, Service, IsTakenBack
<1>2. Whole(v, owner) = t \o NoSep(Typed(v.st))
    BY DEF Whole
<1> HIDE DEF t, a
<1>3. Whole(v, owner) = t \o NoSep(a \o last)
    BY <1>1, <1>2
<1>4. Without(t \o NoSep(a \o last), last) = t \o NoSep(a)
    BY <1>1, WithoutIs
<1>5. t \o NoSep(a) = Without(Whole(v, owner), last)
    BY <1>3, <1>4
<1> QED BY <1>5 DEF t, a

\* A key typed leaves the text that is due.
LEMMA TypedIsDue ==
    ASSUME NEW v, Kept(v), owner \in Docs, NEW key \in Printable, NEW r, IsTyped(lay, v.st, key, r)
    PROVE  v.text[owner] \o NoSep(After(r)) = Due(v, key)
<1> DEFINE t == v.text[owner]
           f == Flat(v.st.reading)
           p == v.st.pending
<1>1. key # "back" /\ key # "esc"
    BY SeqAssumption
<1>2. t \in Words /\ f \in Words /\ p \in Words /\ Typed(v.st) = f \o p
    BY EngineIs DEF Kept, Service, Good
<1>3. Whole(v, owner) = t \o NoSep(Typed(v.st))
    BY DEF Whole
<1>4. NoSep(Typed(v.st)) \in Words /\ NoSep(f) \in Words
    <2> HIDE DEF f, p
    <2>1. f \o p \in Words
        BY <1>2, WordsJoin
    <2> QED BY <1>2, <2>1, NoSepWords
<1>5. CASE Drops(lay, v.st, key)
    <2>1. NoSep(After(r)) = NoSep(f)
        BY <1>5 DEF IsTyped
    <2>2. Due(v, key) = Without(Whole(v, owner), p)
        BY <1>1, <1>5 DEF Due
    <2> HIDE DEF t, f, p
    <2>3. Whole(v, owner) = t \o NoSep(f \o p)
        BY <1>2, <1>3
    <2>4. Without(t \o NoSep(f \o p), p) = t \o NoSep(f)
        BY <1>2, WithoutIs
    <2>5. t \o NoSep(After(r)) = Due(v, key)
        BY <2>1, <2>2, <2>3, <2>4
    <2> QED BY <2>5 DEF t
<1>6. CASE ~Drops(lay, v.st, key) /\ Refuses(lay, v.st, key)
    <2>1. NoSep(After(r)) = NoSep(Typed(v.st))
        BY <1>6 DEF IsTyped
    <2>2. Due(v, key) = Whole(v, owner)
        BY <1>1, <1>6 DEF Due
    <2> QED BY <1>3, <2>1, <2>2
<1>7. CASE ~Drops(lay, v.st, key) /\ ~Refuses(lay, v.st, key)
    <2>1. NoSep(After(r)) = NoSep(Typed(v.st)) \o NoSep(<<key>>)
        BY <1>7 DEF IsTyped
    <2>2. Due(v, key) = Whole(v, owner) \o NoSep(<<key>>)
        BY <1>1, <1>7 DEF Due
    <2>3. <<key>> \in Words
        BY DEF Words
    <2>4. NoSep(<<key>>) \in Words
        BY <2>3, NoSepWords
    <2> DEFINE n == NoSep(Typed(v.st))
               k == NoSep(<<key>>)
    <2> HIDE DEF n, k, t
    <2>5. t \o (n \o k) = (t \o n) \o k
        BY <1>2, <1>4, <2>4, WordsJoin, ZenonT(40) DEF n, k
    <2>6. t \o NoSep(After(r)) = Due(v, key)
        BY <1>3, <2>1, <2>2, <2>5 DEF n, k
    <2> QED BY <2>6 DEF t
<1> QED BY <1>5, <1>6, <1>7

\* A key that the layout takes.
IsKeyed(v, r, d) ==
    /\ Sound(d.v, owner)
    /\ r.eaten => /\ d.eaten
                  /\ Writes(v, d.v, owner, v.text[owner] \o NoSep(After(r))) /\ Ours(v, d.v)
    /\ ~r.eaten => ~d.eaten /\ d.v = v
\* A key of the layout, with the live list after it.
LEMMA KeyedIs ==
    ASSUME Ready, owner \in Docs, NEW v, Sound(v, owner), v.win = "own" => lay.zh,
           NEW r, Step(lay, v.st, r), NEW kind \in Kinds
    PROVE  IsKeyed(v, r, Keyed(v, r, kind))
<1>1. CASE ~r.eaten
    BY <1>1 DEF Keyed, NotTaken, IsKeyed
<1>2. CASE r.eaten
    <2> DEFINE a == ApplyResult(v, owner, r)
               u == LiveRefresh(a, owner, kind)
               d == Keyed(v, r, kind)
    <2>1. d.v = u /\ d.eaten
        BY <1>2 DEF Keyed, Took
    <2>2. owner \in Ctxs /\ owner # NoDoc /\ Kept(v) /\ Home(v, owner) /\ NoDoc \notin Docs
        BY DEF Ctxs, Ready, Sound
    <2>3. IsAnswered(v, owner, r, a)
        BY <2>2, ApplyResultIs
    <2>4. Writes(v, a, owner, v.text[owner] \o NoSep(After(r))) /\ Ours(v, a)
        BY <2>2, <2>3, AnsweredWrites
    <2> HIDE DEF a
    <2>5. Kept(a) /\ ChipIs(a) /\ Home(a, owner) /\ (a.win = "own" => lay.zh)
        BY <2>2, <2>3 DEF IsAnswered, Home, SameWindow
    <2>6. Sound(u, owner) /\ Moves(a, u, owner)
        BY <2>5, LiveRefreshIs
    <2> HIDE DEF u, d
    <2>7. Writes(v, u, owner, v.text[owner] \o NoSep(After(r))) /\ Ours(v, u)
        BY <2>4, <2>6, WritesThenMoves DEF Moves, Ours
    <2>8. IsKeyed(v, r, d)
        BY <1>2, <2>1, <2>6, <2>7 DEF IsKeyed
    <2> QED BY <2>8 DEF d
<1> QED BY <1>1, <1>2

\* A printable key that is not the layout's, with a reading waiting.
LEMMA WithLiteralIs ==
    ASSUME Ready, owner \in Docs, NEW v, Kept(v), NEW key \in Printable,
           lay.zh => v.st.pending = <<>>
    PROVE  LET r == IF lay.zh THEN SeqKb_CommitBest(lay, v.st) ELSE SeqKb_Flush(lay, v.st)
               u == WithLiteral(Closed(v), key, r).v
           IN  Sound(u, owner) /\ Idle(u.st) /\ Writes(v, u, owner, Whole(v, owner) \o NoSep(<<key>>))
<1> DEFINE r == IF lay.zh THEN SeqKb_CommitBest(lay, v.st) ELSE SeqKb_Flush(lay, v.st)
           out == r.out \o Literal(key)
           u == WithLiteral(Closed(v), key, r).v
           t == v.text[owner]
           n == NoSep(Typed(v.st))
           k == NoSep(<<key>>)
<1>1. Good(lay, v.st) /\ Layout(lay) /\ v.st \in Engine
    BY DEF Kept, Ready, Good
<1>2. Step(lay, v.st, r) /\ Idle(r.st) /\ NoSep(After(r)) = NoSep(Typed(v.st))
    <2>1. IsFlush(lay, v.st, SeqKb_Flush(lay, v.st)) /\ After(SeqKb_Flush(lay, v.st)) = Typed(v.st)
        BY <1>1, FlushIs, FlushLedger
    <2>2. Step(lay, v.st, SeqKb_CommitBest(lay, v.st)) /\ Idle(SeqKb_CommitBest(lay, v.st).st)
        BY <1>1, CommitBestIs
    <2>3. lay.zh => NoSep(After(SeqKb_CommitBest(lay, v.st))) = NoSep(Typed(v.st))
        BY <1>1, CommitBestLedger
    <2> QED BY <2>1, <2>2, <2>3 DEF IsFlush
<1> HIDE DEF r
<1>3. r \in Results /\ r.out \in Pieces(Printable) /\ r.out \in Texts
    BY <1>2, OursAreKeys DEF Step, Results
<1>4. Letterly(r.out) = n
    BY <1>2, <1>3, EmptiedText
<1>5. Literal(key) \in Texts /\ Letterly(Literal(key)) = k
    BY OneLiteral, OursAreKeys
<1>6. out \in Texts /\ Letterly(out) = n \o k
    <2> DEFINE lit == Literal(key)
    <2>1. lit \in Texts /\ Letterly(lit) = k /\ out = r.out \o lit
        BY <1>5
    <2> HIDE DEF lit, n, k, out
    <2>2. r.out \o lit \in Texts
        BY <1>3, <2>1, KeysJoin
    <2>3. Letterly(r.out \o lit) = Letterly(r.out) \o Letterly(lit)
        BY <1>3, <2>1, LetterlyIs
    <2> QED BY <1>4, <2>1, <2>2, <2>3
<1>7. u = Apply([Closed(v) EXCEPT !.st = r.st], owner, out, <<>>)
    BY DEF WithLiteral, Took
<1> HIDE DEF out, u
<1>8. IsDoneClosed(v, out, u)
    BY <1>2, <1>6, <1>7, ClosedDone
<1>9. t \in Words /\ n \in Words /\ k \in Words
    <2>1. <<key>> \in Words
        BY DEF Words
    <2>2. Typed(v.st) \in Words
        BY <1>1, EngineIs
    <2>3. t \in Words
        BY DEF Kept, Service
    <2> QED BY <2>1, <2>2, <2>3, NoSepWords
<1>10. t \o Letterly(out) = Whole(v, owner) \o k
    <2>1. Whole(v, owner) = t \o n
        BY DEF Whole
    <2> HIDE DEF t, n, k
    <2>2. t \o (n \o k) = (t \o n) \o k
        BY <1>9, WordsJoin
    <2> QED BY <1>6, <2>1, <2>2
<1>11. Sound(u, owner) /\ Idle(u.st) /\ Writes(v, u, owner, Whole(v, owner) \o k)
    BY <1>8, <1>10 DEF IsDoneClosed
<1> QED BY <1>11 DEF r, u

\* F7: the reading committed in katakana.
LEMMA InKanaIs ==
    ASSUME Ready, owner \in Docs, NEW v, Kept(v)
    PROVE  LET u == InKana(Closed(v), SeqKb_Flush(lay, v.st)).v
           IN  Sound(u, owner) /\ Idle(u.st) /\ Writes(v, u, owner, Whole(v, owner))
<1> DEFINE r == SeqKb_Flush(lay, v.st)
           ks == KeysOf(r.out)
           out == <<[keys |-> ks, as |-> "kana"]>>
           u == InKana(Closed(v), r).v
<1>1. IsFlush(lay, v.st, r)
    BY FlushIs DEF Kept, Ready
<1> HIDE DEF r
<1>2. Step(lay, v.st, r) /\ Idle(r.st) /\ ks = Typed(v.st) /\ ks \in Seq(Printable)
    <2>1. Step(lay, v.st, r) /\ Idle(r.st) /\ ks = Typed(v.st)
        BY <1>1 DEF IsFlush
    <2>2. r.out \in Pieces(Printable)
        BY <2>1 DEF Step, Results
    <2> QED BY <2>1, <2>2, KeysOfType
<1>3. u = Apply([Closed(v) EXCEPT !.st = r.st], owner, out, <<>>)
    BY DEF InKana, Took
<1> HIDE DEF ks
<1>4. out \in Texts /\ KeysOf(out) = ks
    <2>1. "kana" \in Manners
        BY DEF Manners
    <2>2. out \in Pieces(Printable) /\ KeysOf(out) = ks
        BY <1>2, <2>1, KeysOfOne
    <2> QED BY <2>2, OursAreKeys
<1> HIDE DEF out, u
<1>5. IsDoneClosed(v, out, u)
    BY <1>2, <1>3, <1>4, ClosedDone
<1>6. v.text[owner] \o Letterly(out) = Whole(v, owner)
    BY <1>2, <1>4 DEF Letterly, Whole
<1>7. Sound(u, owner) /\ Idle(u.st) /\ Writes(v, u, owner, Whole(v, owner))
    BY <1>5, <1>6 DEF IsDoneClosed
<1> QED BY <1>7 DEF r, u

\* A step that writes what is due, and leaves no reading.
LEMMA GivenIdle ==
    ASSUME NEW v, NEW u, NEW key, Writes(v, u, owner, Due(v, key)), Idle(u.st)
    PROVE  IsGiven(v, key, u)
BY DEF IsGiven, OursOrIdle
LEMMA GivenOurs ==
    ASSUME NEW v, NEW u, NEW key, Writes(v, u, owner, Due(v, key)), Ours(v, u)
    PROVE  IsGiven(v, key, u)
BY DEF IsGiven, OursOrIdle, Ours

\* A key that is neither text nor takes any away.
LEMMA NothingDue ==
    ASSUME NEW v, NEW key, key \notin Printable \cup {"back", "esc"}
    PROVE  Due(v, key) = Whole(v, owner)
BY DEF Due

\* What a layout does not know, it neither drops nor refuses.
LEMMA NotOfTheLayout ==
    ASSUME NEW v, NEW key \in Printable, ~SeqKb_WouldEat(lay, v.st, key), ~Idle(v.st)
    PROVE  v.st.pending = <<>> /\ Due(v, key) = Whole(v, owner) \o NoSep(<<key>>)
<1>1. key # "back" /\ key # "esc"
    BY SeqAssumption
<1>2. v.st.pending = <<>>
    BY DEF SeqKb_WouldEat
<1>3. ~Drops(lay, v.st, key)
    BY <1>2 DEF Drops
<1>4. ~Refuses(lay, v.st, key)
    BY <1>2 DEF Refuses, IsVMode, SeqKb_WouldEat
<1> QED BY <1>1, <1>2, <1>3, <1>4 DEF Due

\* Without a reading, a key that prints follows the text.
LEMMA IdleDue ==
    ASSUME NEW v, NEW key \in Printable, Idle(v.st)
    PROVE  Due(v, key) = Whole(v, owner) \o NoSep(<<key>>)
<1>1. key # "back" /\ key # "esc"
    BY SeqAssumption
<1>2. v.st.pending = <<>> /\ v.st.reading = <<>>
    BY DEF Idle
<1>3. ~Drops(lay, v.st, key)
    BY <1>2 DEF Drops
<1>4. ~Refuses(lay, v.st, key)
    BY <1>2 DEF Refuses, IsVMode
<1> QED BY <1>1, <1>3, <1>4 DEF Due

\* What KES_OnKeyDown leaves: what is due; or the key, with nothing waiting, or with
\* candidates that have no style.
IsPassed(v, key, u) == u = Passed(v) /\ key \in Printable /\ ~Styled(lay)
IsDown(v, key, d) ==
    /\ Sound(d.v, owner)
    /\ d.eaten => IsGiven(v, key, d.v)
    /\ ~d.eaten => (d.v = v /\ Idle(v.st)) \/ IsPassed(v, key, d.v)

LEMMA DownIdle ==
    ASSUME NEW v, NEW key, NEW d, Sound(d.v, owner), Writes(v, d.v, owner, Due(v, key)),
           Idle(d.v.st), d.eaten
    PROVE  IsDown(v, key, d)
BY GivenIdle DEF IsDown
LEMMA DownNot ==
    ASSUME NEW v, NEW key, NEW d, Sound(d.v, owner), d.v = v, ~d.eaten, Idle(v.st)
    PROVE  IsDown(v, key, d)
BY DEF IsDown

\* The ledger starting over changes nothing else.
LEMMA PassedIs ==
    ASSUME NEW v, Sound(v, owner)
    PROVE  LET u == Passed(v)
           IN  /\ Sound(u, owner) /\ SameCore(v, u) /\ u.target = v.target /\ u.out = v.out
               /\ u.text = v.text /\ u.spilled = TRUE
<1> DEFINE u == Passed(v)
<1>1. /\ u \in Service /\ SameCore(v, u) /\ u.target = v.target /\ u.chip = v.chip
      /\ u.spilled = TRUE /\ u.out = v.out /\ u.text = v.text
    BY DEF Sound, Kept, Service, Passed, SameCore
<1> HIDE DEF u
<1>2. Kept(u) /\ ChipIs(u) /\ Home(u, owner)
    BY <1>1 DEF Sound, Kept, SameCore, Seated, Targeted, ChipIs, Home
<1>3. OwnList(u)
    <2> SUFFICES ASSUME u.win = "own" PROVE Listing(u)
        BY DEF OwnList
    <2>1. Listing(v)
        BY <1>1 DEF Sound, OwnList, SameCore
    <2> QED BY <1>1, <2>1, SameListing DEF SameCore
<1> QED BY <1>1, <1>2, <1>3 DEF Sound, u

\* What waits committed, and the keys the engine itself is given.
AllOf(st) == IF lay.zh THEN SeqKb_CommitBest(lay, st) ELSE SeqKb_Flush(lay, st)
KeyOf(st, key) ==
    IF key = "back" THEN SeqKb_Backspace(st)
    ELSE IF key = "esc" THEN SeqKb_Cancel(st) ELSE SeqKb_Key(lay, st, key)
\* A key the engine is given leaves what is due, or is not taken with nothing waiting.
LEMMA EngineKeyIs ==
    ASSUME Ready, owner \in Docs, NEW v, Sound(v, owner), v.win = "own" => lay.zh,
           NEW key \in Printable \cup {"back", "esc"},
           key \in Printable => SeqKb_WouldEat(lay, v.st, key), NEW kind \in Kinds, NEW r,
           r = KeyOf(v.st, key)
    PROVE  IsDown(v, key, Keyed(v, r, kind))
<1> DEFINE d == Keyed(v, r, kind)
<1>1. Kept(v) /\ Good(lay, v.st) /\ Layout(lay) /\ (lay.zh => lay.cand) /\ v.st \in Engine
    BY DEF Sound, Kept, Ready, Good
<1>2. Step(lay, v.st, r)
    BY <1>1, BackspaceIs, CancelIs, KeyIs DEF KeyOf
<1>3. IsKeyed(v, r, d)
    BY <1>2, KeyedIs
<1> HIDE DEF d
<1>4. Sound(d.v, owner)
    BY <1>3 DEF IsKeyed
<1>5. ASSUME r.eaten, v.text[owner] \o NoSep(After(r)) = Due(v, key) PROVE IsDown(v, key, d)
    <2>1. d.eaten /\ Writes(v, d.v, owner, Due(v, key)) /\ Ours(v, d.v)
        BY <1>3, <1>5 DEF IsKeyed
    <2> QED BY <1>4, <2>1, GivenOurs DEF IsDown
<1>6. ASSUME ~r.eaten, Idle(v.st) PROVE IsDown(v, key, d)
    <2>1. ~d.eaten /\ d.v = v
        BY <1>3, <1>6 DEF IsKeyed
    <2> QED BY <1>4, <1>6, <2>1, DownNot
<1>7. CASE key = "back"
    <2>1. IsTakenBack(v.st, r, LastWaiting(v.st))
        BY <1>1, <1>7, BackspaceLedger DEF KeyOf
    <2>2. v.text[owner] \o NoSep(After(r)) = Due(v, key)
        BY <1>1, <1>7, <2>1, TakenIsDue DEF Due
    <2> QED BY <1>5, <1>6, <2>1, <2>2 DEF IsTakenBack, d
<1>8. CASE key = "esc"
    <2>1. IsTakenBack(v.st, r, Typed(v.st))
        BY <1>1, <1>8, CancelLedger DEF KeyOf
    <2>2. v.text[owner] \o NoSep(After(r)) = Due(v, key)
        BY <1>1, <1>8, <2>1, TakenIsDue DEF Due
    <2> QED BY <1>5, <1>6, <2>1, <2>2 DEF IsTakenBack, d
<1>9. CASE key \in Printable
    <2>0. key # "back" /\ key # "esc"
        BY <1>9, SeqAssumption
    <2>1. IsTyped(lay, v.st, key, r)
        BY <1>1, <1>9, <2>0, KeyLedger DEF KeyOf
    <2>2. v.text[owner] \o NoSep(After(r)) = Due(v, key)
        BY <1>1, <1>9, <2>1, TypedIsDue
    <2> QED BY <1>5, <2>1, <2>2 DEF IsTyped, d
<1> QED BY <1>7, <1>8, <1>9

\* The branches of KES_OnKeyDown, and when each is taken.
DownCases(v, key, cut, kind, d) ==
    \/ key = "space" /\ d = AfterConvert(OnConvertKey(v, cut, kind))
    \/ /\ key \in Printable /\ ~SeqKb_WouldEat(lay, v.st, key) /\ ~Idle(v.st)
       /\ (lay.zh \/ lay.ja) /\ d = WithLiteral(Closed(v), key, AllOf(v.st))
    \/ /\ key \in Printable /\ ~SeqKb_WouldEat(lay, v.st, key)
       /\ ~((lay.zh \/ lay.ja) /\ ~Idle(v.st))
       /\ d = NotTaken(IF ~Idle(v.st) THEN Passed(v) ELSE v)
    \/ key = "fkey" /\ d = InKana(Closed(v), SeqKb_Flush(lay, v.st))
    \/ /\ key \in Printable \cup {"back", "esc"}
       /\ key \in Printable => SeqKb_WouldEat(lay, v.st, key)
       /\ d = Keyed(v, KeyOf(v.st, key), kind)
    \/ /\ key = "enter" /\ key \notin Printable
       /\ d = Took(LiveRefresh(OnBoundary(v, key).v, owner, kind))
    \/ key \notin Printable \cup {"back", "esc"} /\ d = OnBoundary(v, key)
    \/ key \notin Printable \cup {"back", "esc"} /\ Idle(v.st) /\ d = NotTaken(v)
\* OnKeyDown takes one of its branches.
LEMMA OnKeyDownCases ==
    \A v, key, cut, kind : DownCases(v, key, cut, kind, OnKeyDown(v, key, cut, kind))
BY DEF OnKeyDown, DownCases, AllOf, KeyOf

\* Enter after the reading it ends: a Chinese list is closed, the rest stays as it is.
LEMMA EnterIs ==
    ASSUME Ready, owner \in Docs, NEW v, Sound(v, owner), v.win = "own" => lay.zh /\ ~v.segMode,
           "enter" \notin Printable, NEW kind \in Kinds
    PROVE  LET u == LiveRefresh(OnBoundary(v, "enter").v, owner, kind)
           IN  Sound(u, owner) /\ Writes(v, u, owner, Whole(v, owner)) /\ OursOrIdle(v, u)
<1> DEFINE b == OnBoundary(v, "enter").v
           u == LiveRefresh(b, owner, kind)
<1>1. Kept(v) /\ Home(v, owner) /\ OwnList(v) /\ "enter" \in AnyKey
    BY DEF Sound, AnyKey, HookKeys
<1>2. IsBounded(v, "enter", b)
    BY <1>1, OnBoundaryIs
<1> HIDE DEF b
<1>3. /\ Sound(b, owner) /\ b.win = v.win /\ Idle(b.st) /\ Writes(v, b, owner, Whole(v, owner))
      /\ lay.zh => Ours(v, b)
    BY <1>2 DEF IsBounded
<1>4. Sound(u, owner) /\ Moves(b, u, owner)
    BY <1>3, LiveRefreshIs DEF Sound
<1>5. Writes(v, u, owner, Whole(v, owner))
    BY <1>3, <1>4, WritesThenMoves
<1>6. OursOrIdle(v, u)
    <2>1. CASE lay.zh
        BY <1>3, <1>4, <2>1 DEF Moves, Ours, OursOrIdle
    <2>2. CASE ~lay.zh
        <3>1. u = b
            BY <2>2 DEF LiveRefresh
        <3> QED BY <1>3, <3>1 DEF OursOrIdle
    <2> QED BY <2>1, <2>2
<1> QED BY <1>4, <1>5, <1>6 DEF u, b

LEMMA DownGiven ==
    ASSUME NEW v, NEW key, NEW d, Sound(d.v, owner), IsGiven(v, key, d.v), d.eaten
    PROVE  IsDown(v, key, d)
BY DEF IsDown

\* KES_OnKeyDown leaves what is due, or does not take the key and nothing waits.
LEMMA OnKeyDownIs ==
    ASSUME Ready, owner \in Docs, NEW v, Sound(v, owner), NEW key \in AnyKey, OpenToKeys(v, key),
           NEW cut, NEW kind \in Kinds
    PROVE  IsDown(v, key, OnKeyDown(v, key, cut, kind))
<1> DEFINE d == OnKeyDown(v, key, cut, kind)
<1>1. DownCases(v, key, cut, kind, d)
    BY OnKeyDownCases
<1>2. /\ Kept(v) /\ Home(v, owner) /\ OwnList(v) /\ Good(lay, v.st) /\ Layout(lay) /\ (lay.zh => lay.cand)
      /\ v.win = "own" => lay.zh /\ ~v.segMode
    BY DEF Sound, Kept, Ready, OpenToKeys
<1>3. Printable \cap {"space", "fkey", "back", "esc", "enter"} = {}
    BY SeqAssumption
<1> HIDE DEF d
<1>4. CASE key = "space" /\ d = AfterConvert(OnConvertKey(v, cut, kind))
    <2> DEFINE o == OnConvertKey(v, cut, kind)
    <2>1. v.win # "own"
        BY <1>4 DEF OpenToKeys
    <2>2. IsOpen(v, owner, o)
        BY <1>2, InSegmentsIs
    <2>3. Due(v, key) = Whole(v, owner)
        BY <1>3, <1>4, NothingDue
    <2>4. AfterConvert(o).eaten
        BY DEF AfterConvert, Took, OnBoundary, Bounded
    <2> HIDE DEF o
    <2>5. Sound(AfterConvert(o).v, owner) /\ Writes(v, AfterConvert(o).v, owner, Whole(v, owner))
          /\ OursOrIdle(v, AfterConvert(o).v)
        BY <1>2, <2>1, <2>2, AfterConvertIs
    <2>6. d = AfterConvert(o)
        BY <1>4 DEF o
    <2>7. IsDown(v, key, d)
        BY <2>3, <2>4, <2>5, <2>6, DownGiven DEF IsGiven
    <2> QED BY <2>7 DEF d
<1>5. CASE /\ key \in Printable /\ ~SeqKb_WouldEat(lay, v.st, key) /\ ~Idle(v.st)
           /\ d = WithLiteral(Closed(v), key, AllOf(v.st))
    <2>1. v.st.pending = <<>> /\ Due(v, key) = Whole(v, owner) \o NoSep(<<key>>)
        BY <1>5, NotOfTheLayout
    <2>2. Sound(d.v, owner) /\ Idle(d.v.st) /\ Writes(v, d.v, owner, Whole(v, owner) \o NoSep(<<key>>))
        BY <1>2, <1>5, <2>1, WithLiteralIs DEF AllOf
    <2>3. d.eaten
        BY <1>5 DEF WithLiteral, Took
    <2>4. IsDown(v, key, d)
        BY <2>1, <2>2, <2>3, DownIdle
    <2> QED BY <2>4 DEF d
<1>6. CASE d = NotTaken(v) /\ Idle(v.st)
    <2>1. d.v = v /\ ~d.eaten
        BY <1>6 DEF NotTaken
    <2>2. IsDown(v, key, d)
        BY <1>6, <2>1, DownNot
    <2> QED BY <2>2 DEF d
<1>7. CASE key = "fkey" /\ d = InKana(Closed(v), SeqKb_Flush(lay, v.st))
    <2>1. Due(v, key) = Whole(v, owner)
        BY <1>3, <1>7, NothingDue
    <2>2. Sound(d.v, owner) /\ Idle(d.v.st) /\ Writes(v, d.v, owner, Whole(v, owner))
        BY <1>2, <1>7, InKanaIs
    <2>3. d.eaten
        BY <1>7 DEF InKana, Took
    <2>4. IsDown(v, key, d)
        BY <2>1, <2>2, <2>3, DownIdle
    <2> QED BY <2>4 DEF d
<1>8. CASE /\ key \in Printable \cup {"back", "esc"}
           /\ key \in Printable => SeqKb_WouldEat(lay, v.st, key)
           /\ d = Keyed(v, KeyOf(v.st, key), kind)
    <2>1. IsDown(v, key, Keyed(v, KeyOf(v.st, key), kind))
        BY <1>2, <1>8, EngineKeyIs
    <2> QED BY <1>8, <2>1 DEF d
<1>9. CASE key = "enter" /\ d = Took(LiveRefresh(OnBoundary(v, key).v, owner, kind))
    <2> DEFINE u == LiveRefresh(OnBoundary(v, "enter").v, owner, kind)
    <2>1. d = Took(u)
        BY <1>9
    <2>2. Sound(u, owner) /\ Writes(v, u, owner, Whole(v, owner)) /\ OursOrIdle(v, u)
        BY <1>2, <1>3, EnterIs
    <2>3. Due(v, key) = Whole(v, owner)
        BY <1>3, <1>9, NothingDue
    <2> HIDE DEF u
    <2>4. IsDown(v, key, d)
        BY <2>1, <2>2, <2>3, DownGiven DEF IsGiven, Took
    <2> QED BY <2>4 DEF d
<1>10. CASE key \notin Printable \cup {"back", "esc"} /\ d = OnBoundary(v, key)
    <2>1. IsBounded(v, key, d.v)
        BY <1>2, <1>10, OnBoundaryIs
    <2>2. Due(v, key) = Whole(v, owner)
        BY <1>10, NothingDue
    <2>3. d.eaten
        BY <1>10 DEF OnBoundary, Bounded, Took
    <2>4. IsDown(v, key, d)
        BY <2>1, <2>2, <2>3, DownIdle DEF IsBounded
    <2> QED BY <2>4 DEF d
<1>11. CASE /\ key \in Printable /\ ~SeqKb_WouldEat(lay, v.st, key)
            /\ ~((lay.zh \/ lay.ja) /\ ~Idle(v.st))
            /\ d = NotTaken(IF ~Idle(v.st) THEN Passed(v) ELSE v)
    <2>1. CASE Idle(v.st)
        BY <1>6, <1>11, <2>1
    <2>2. CASE ~Idle(v.st)
        <3>1. ~Styled(lay)
            <4> SUFFICES ASSUME Styled(lay) PROVE FALSE
                OBVIOUS
            <4>1. ~lay.cand
                BY <1>11, <2>2 DEF Styled
            <4>2. v.st.reading = <<>>
                BY <1>2, <4>1 DEF Good
            <4>3. v.st.pending = <<>>
                BY <1>11, <2>2, NotOfTheLayout
            <4> QED BY <2>2, <4>2, <4>3 DEF Idle
        <3>2. d.v = Passed(v) /\ ~d.eaten
            BY <1>11, <2>2 DEF NotTaken
        <3>3. Sound(d.v, owner)
            BY <3>2, PassedIs
        <3>4. IsDown(v, key, d)
            BY <1>11, <3>1, <3>2, <3>3 DEF IsDown, IsPassed
        <3> QED BY <3>4 DEF d
    <2> QED BY <2>1, <2>2
<1>12. CASE Idle(v.st) /\ d = NotTaken(v)
    BY <1>6, <1>12
<1> QED BY <1>1, <1>4, <1>5, <1>7, <1>8, <1>9, <1>10, <1>11, <1>12 DEF d, DownCases

IsPlaced(v, d, out, u) ==
    /\ u \in Service /\ SameCore(v, u) /\ u.target = v.target /\ u.chip = v.chip
    /\ u.spilled = v.spilled /\ u.out = v.out \o out
    /\ u.text = [v.text EXCEPT ![d] = @ \o Letterly(out)]
\* An insertion, by parts.
LEMMA InsertedIs ==
    ASSUME NEW v \in Service, NEW d \in Docs, NEW out \in Texts
    PROVE  IsPlaced(v, d, out, Insert(v, d, out))
<1> DEFINE u == Insert(v, d, out)
<1>1. /\ u \in Service /\ SameCore(v, u)
      /\ u.target = v.target /\ u.chip = v.chip /\ u.spilled = v.spilled
      /\ u.out = v.out \o out /\ u.text = [v.text EXCEPT ![d] = @ \o Letterly(out)]
    BY InsertIs
<1> HIDE DEF u
<1>2. IsPlaced(v, d, out, u)
    BY <1>1 DEF IsPlaced
<1> QED BY <1>2 DEF u

\* The last of an output that ends in the application's key.
LEMMA LastIsKey ==
    ASSUME NEW out \in Texts, NEW key \in AnyKey
    PROVE  LET o == out \o InApp(key) IN o # <<>> /\ Last(o).keys = <<key>>
<1> DEFINE P == [keys : Seq(AnyKey), as : Manners \cup {"app"}]
           p == [keys |-> <<key>>, as |-> "app"]
           o == out \o InApp(key)
<1>1. out \in Seq(P) /\ p \in P /\ o = out \o <<p>> /\ p.keys = <<key>>
    BY DEF Texts, InApp
<1> HIDE DEF P, p, o
<1>2. o = Append(out, p)
    BY <1>1, AppendIsConcat
<1>3. o \in Seq(P) /\ Len(o) = Len(out) + 1 /\ Len(out) \in Nat /\ o[Len(out) + 1] = p
    BY <1>1, <1>2, AppendProperties, LenProperties
<1>4. Len(<<>>) = 0
    OBVIOUS
<1>5. o # <<>> /\ Last(o) = p
    BY <1>3, <1>4 DEF Last
<1> QED BY <1>1, <1>5 DEF o

\* A key the application gets leaves the window as it was; printed, it follows the text.
IsInserted(v, key, u) ==
    /\ Sound(u, owner) /\ u.st = v.st /\ u.out = v.out \o InApp(key) /\ SameWindow(v, u)
    /\ u.target = v.target /\ \A d \in Docs \ {owner} : u.text[d] = v.text[d]
    /\ u.out # <<>> /\ Last(u.out).keys = <<key>>
    /\ Idle(v.st) \/ key \notin Printable => Writes(v, u, owner, Whole(v, owner) \o NoSep(<<key>>))
\* A key that goes on to the application changes nothing of the service.
LEMMA InsertIsSound ==
    ASSUME Ready, owner \in Docs, NEW v, Sound(v, owner), NEW key \in AnyKey
    PROVE  IsInserted(v, key, Insert(v, owner, InApp(key)))
<1> DEFINE u == Insert(v, owner, InApp(key))
           t == v.text[owner]
           n == NoSep(Typed(v.st))
           k == NoSep(<<key>>)
<1>1. v \in Service /\ InApp(key) \in Texts /\ Letterly(InApp(key)) = k
    BY OneKey DEF Sound, Kept
<1>2. /\ u \in Service /\ SameCore(v, u) /\ u.target = v.target /\ u.chip = v.chip
      /\ u.spilled = v.spilled /\ u.out = v.out \o InApp(key)
      /\ u.text = [v.text EXCEPT ![owner] = @ \o k]
    <2>1. IsPlaced(v, owner, InApp(key), u)
        BY <1>1, InsertedIs
    <2> HIDE DEF u, k
    <2> QED BY <1>1, <2>1 DEF IsPlaced
<1> HIDE DEF u
<1>3. Kept(u)
    BY <1>2 DEF Sound, Kept, SameCore, Seated, Targeted
<1>4. ChipIs(u) /\ Home(u, owner)
    BY <1>2 DEF Sound, ChipIs, Home, SameCore
<1>5. OwnList(u)
    <2> SUFFICES ASSUME u.win = "own" PROVE Listing(u)
        BY DEF OwnList
    <2>1. Listing(v)
        BY <1>2 DEF Sound, OwnList, SameCore
    <2> QED BY <1>2, <2>1, SameListing DEF SameCore
<1>6. Sound(u, owner) /\ u.st = v.st /\ u.out = v.out \o InApp(key) /\ SameWindow(v, u)
    BY <1>2, <1>3, <1>4, <1>5 DEF Sound, SameCore, SameWindow
<1>7. t \in Words /\ n \in Words /\ k \in Words /\ v.text \in [Docs -> Words]
    <2>1. v.st \in Engine /\ v.text \in [Docs -> Words]
        BY <1>1 DEF Sound, Kept, Good, Service
    <2>2. k \in Words
        BY <1>1, LetterlyIs
    <2>3. n \in Words
        BY <2>1, EngineIs, NoSepWords
    <2> QED BY <2>1, <2>2, <2>3
<1>8. ASSUME Idle(v.st) \/ key \notin Printable PROVE (t \o k) \o n = (t \o n) \o k
    <2>1. n = <<>> \/ k = <<>>
        <3>1. CASE Idle(v.st)
            <4>1. Typed(v.st) = <<>>
                BY <3>1, IdleIs DEF Sound, Kept, Good
            <4> QED BY <4>1, NoSepWords
        <3>2. CASE key \notin Printable
            BY <3>2, NoText
        <3> QED BY <1>8, <3>1, <3>2
    <2> HIDE DEF t, n, k
    <2>2. CASE n = <<>>
        <3>1. t \o k \in Words /\ t \o n = t
            BY <1>7, <2>2, WordsJoin
        <3>2. (t \o k) \o n = t \o k
            BY <2>2, <3>1, WordsJoin
        <3> QED BY <3>1, <3>2
    <2>3. CASE k = <<>>
        <3>1. t \o n \in Words /\ t \o k = t
            BY <1>7, <2>3, WordsJoin
        <3>2. (t \o n) \o k = t \o n
            BY <2>3, <3>1, WordsJoin
        <3> QED BY <3>1, <3>2
    <2> QED BY <2>1, <2>2, <2>3
<1>9. ASSUME Idle(v.st) \/ key \notin Printable PROVE Writes(v, u, owner, Whole(v, owner) \o k)
    <2>1. Whole(u, owner) = (t \o k) \o n /\ Whole(v, owner) = t \o n
        BY <1>2, <1>6, <1>7 DEF Whole
    <2>2. \A d \in Docs \ {owner} : u.text[d] = v.text[d]
        BY <1>2, <1>7
    <2> QED BY <1>2, <1>8, <1>9, <2>1, <2>2 DEF Writes
<1>10. u.out # <<>> /\ Last(u.out).keys = <<key>>
    BY <1>1, <1>6, LastIsKey DEF Service
<1>11. u.target = v.target /\ \A d \in Docs \ {owner} : u.text[d] = v.text[d]
    BY <1>2, <1>7
<1>12. IsInserted(v, key, u)
    BY <1>6, <1>9, <1>10, <1>11 DEF IsInserted
<1> QED BY <1>12 DEF u

\* What becomes of the service after a key, the application's included.
Outcome(d, key) == IF d.eaten \/ key \in {"back", "esc"} THEN d.v ELSE Insert(d.v, owner, InApp(key))

\* Without a reading, Backspace and Esc take nothing back.
LEMMA NothingTaken ==
    ASSUME NEW v, Kept(v), owner \in Docs, Idle(v.st), NEW key \in {"back", "esc"}
    PROVE  Due(v, key) = Whole(v, owner)
<1> DEFINE t == v.text[owner]
<1>1. Typed(v.st) = <<>> /\ LastWaiting(v.st) = <<>>
    BY IdleIs DEF Kept, Good, Idle, LastWaiting
<1>2. t \in Words /\ <<>> \in Words /\ NoSep(<<>>) = <<>>
    BY NoSepWords, WordsJoin DEF Kept, Service
<1>3. Whole(v, owner) = t \o <<>>
    BY <1>1, <1>2 DEF Whole
<1>4. Due(v, key) = Without(Whole(v, owner), <<>>)
    BY <1>1 DEF Due
<1> HIDE DEF t
<1>5. Without(t \o NoSep(<<>> \o <<>>), <<>>) = t \o NoSep(<<>>)
    BY <1>2, WithoutIs
<1>6. <<>> \o <<>> = <<>>
    BY WordsJoin
<1> QED BY <1>2, <1>3, <1>4, <1>5, <1>6

\* Taken or gone on to the application, a key leaves what is due.
IsDue(v, key, u) ==
    Writes(v, u, owner, Due(v, key)) /\ (v.out \in Pieces(Printable) => Fits(u))
LEMMA GivenIsDue ==
    ASSUME NEW v, NEW key, NEW u, IsGiven(v, key, u)
    PROVE  IsDue(v, key, u)
BY DEF IsGiven, OursOrIdle, IsDue, Fits

LEMMA OutcomeIs ==
    ASSUME Ready, owner \in Docs, NEW v, Sound(v, owner), NEW key \in AnyKey, NEW d, IsDown(v, key, d)
    PROVE  Sound(Outcome(d, key), owner) /\ IsDue(v, key, Outcome(d, key))
<1> DEFINE u == Insert(d.v, owner, InApp(key))
<1>1. /\ Sound(d.v, owner) /\ Kept(v)
      /\ d.eaten => IsGiven(v, key, d.v)
      /\ ~d.eaten => (d.v = v /\ Idle(v.st)) \/ IsPassed(v, key, d.v)
    BY DEF IsDown, Sound
<1>2. CASE d.eaten
    BY <1>1, <1>2, GivenIsDue DEF Outcome
<1>3. CASE ~d.eaten /\ key \in {"back", "esc"}
    <2>1. Outcome(d, key) = d.v
        BY <1>3 DEF Outcome
    <2>2. d.v = v /\ Idle(v.st)
        BY <1>1, <1>3, SeqAssumption DEF IsPassed
    <2>3. Due(v, key) = Whole(v, owner)
        BY <1>1, <1>3, <2>2, NothingTaken
    <2>4. Writes(v, v, owner, Whole(v, owner))
        BY DEF Writes
    <2>5. IsDue(v, key, d.v)
        BY <2>2, <2>3, <2>4, GivenIdle, GivenIsDue
    <2> QED BY <1>1, <2>1, <2>5
<1>4. CASE ~d.eaten /\ key \notin {"back", "esc"}
    <2>1. Outcome(d, key) = u
        BY <1>4 DEF Outcome
    <2>2. IsInserted(d.v, key, u)
        BY <1>1, InsertIsSound
    <2> HIDE DEF u
    <2>3. ASSUME d.v = v, Idle(v.st) PROVE IsDue(v, key, u)
        <3>2. Idle(u.st) /\ Writes(v, u, owner, Whole(v, owner) \o NoSep(<<key>>))
            BY <2>2, <2>3 DEF IsInserted
        <3>3. Whole(v, owner) \o NoSep(<<key>>) = Due(v, key)
            <4>1. CASE key \in Printable
                BY <2>3, <4>1, IdleDue
            <4>2. CASE key \notin Printable
                <5>1. NoSep(<<key>>) = <<>> /\ Due(v, key) = Whole(v, owner)
                    BY <1>4, <4>2, NoText, NothingDue
                <5>2. Whole(v, owner) \in Words
                    <6>1. v.text[owner] \in Words /\ v.st \in Engine
                        BY <1>1 DEF Kept, Good, Service
                    <6>2. NoSep(Typed(v.st)) \in Words
                        BY <6>1, EngineIs, NoSepWords
                    <6> QED BY <6>1, <6>2, WordsJoin DEF Whole
                <5> QED BY <5>1, <5>2, WordsJoin
            <4> QED BY <4>1, <4>2
        <3> QED BY <3>2, <3>3, GivenIdle, GivenIsDue
    <2>4. ASSUME IsPassed(v, key, d.v) PROVE IsDue(v, key, u)
        <3>1. /\ d.v.target = v.target /\ d.v.text = v.text /\ d.v.spilled = TRUE
              /\ key \in Printable /\ ~Styled(lay)
            BY <2>4, PassedIs DEF IsPassed
        <3>2. u.spilled = TRUE /\ u.target = v.target /\ \A x \in Docs \ {owner} : u.text[x] = v.text[x]
            BY <2>2, <3>1 DEF IsInserted, SameWindow
        <3>3. Writes(v, u, owner, Due(v, key))
            BY <3>2 DEF Writes
        <3>4. Fits(u)
            BY <2>2, <3>1 DEF IsInserted, Fits
        <3> QED BY <3>3, <3>4 DEF IsDue
    <2> QED BY <1>1, <1>4, <2>1, <2>2, <2>3, <2>4 DEF IsInserted
<1> QED BY <1>2, <1>3, <1>4

------------------------------------------------------------------------------

(* The ledgers: what two words have in common is a word. *)

\* A part of a word is a word.
LEMMA PartOfWord ==
    ASSUME NEW s \in Words, NEW m \in Int, NEW n \in Int, m >= 1, n <= Len(s)
    PROVE  SubSeq(s, m, n) \in Words
<1>1. \A i \in 1 .. Len(s) : s[i] \in Printable
    BY ElementOfSeq DEF Words
<1>2. Len(s) \in Nat
    BY LenProperties DEF Words
<1>3. \A i \in m .. n : s[i] \in Printable
    BY <1>1, <1>2
<1> QED BY <1>3, SubSeqProperties DEF Words

IsCommon(a, b, x) == x \in Words /\ IsPrefix(x, a) /\ IsPrefix(x, b)

\* What two words begin with in common.
LEMMA CommonPrefixesAre ==
    ASSUME NEW a \in Words, NEW b \in Words
    PROVE  /\ \A x \in CommonPrefixes({a, b}) : IsCommon(a, b, x)
           /\ <<>> \in CommonPrefixes({a, b})
<1>1. \A s \in {a, b} : \A x \in Prefixes(s) : x \in Words
    <2> SUFFICES ASSUME NEW s \in {a, b}, NEW n \in 0 .. Len(s) PROVE SubSeq(s, 1, n) \in Words
        BY DEF Prefixes
    <2>1. s \in Words /\ Len(s) \in Nat
        BY LenProperties DEF Words
    <2> QED BY <2>1, PartOfWord
<1>2. \A x \in CommonPrefixes({a, b}) : IsCommon(a, b, x)
    BY <1>1, Zenon DEF CommonPrefixes, IsCommon
<1>3. <<>> \in Prefixes(a)
    <2>1. SubSeq(a, 1, 0) = <<>> /\ 0 \in 0 .. Len(a)
        BY SubSeqEmpty, LenProperties DEF Words
    <2> QED BY <2>1 DEF Prefixes
<1>4. \A s \in {a, b} : IsPrefix(<<>>, s)
    <2> SUFFICES ASSUME NEW s \in {a, b} PROVE IsPrefix(<<>>, s)
        OBVIOUS
    <2>1. SubSeq(s, 1, 0) = <<>> /\ SubSeq(<<>>, 1, 0) = <<>> /\ Len(<<>>) = 0 /\ Len(s) \in Nat
        BY SubSeqEmpty, LenProperties DEF Words
    <2> QED BY <2>1 DEF IsPrefix
<1>5. <<>> \in CommonPrefixes({a, b})
    BY <1>3, <1>4, Zenon DEF CommonPrefixes
<1> QED BY <1>2, <1>5

\* Of the common prefixes of two words, one is the longest.
LEMMA LongestExists ==
    ASSUME NEW a \in Words, NEW b \in Words
    PROVE  \E x \in CommonPrefixes({a, b}) : \A y \in CommonPrefixes({a, b}) : Len(y) <= Len(x)
<1> DEFINE P == CommonPrefixes({a, b})
           N == {n \in 0 .. Len(a) : \E x \in P : Len(x) = n}
<1>1. (\A x \in P : IsCommon(a, b, x)) /\ <<>> \in P
    BY CommonPrefixesAre
<1>2. Len(a) \in Nat /\ \A x \in P : Len(x) \in 0 .. Len(a)
    <2>1. Len(a) \in Nat
        BY LenProperties DEF Words
    <2>2. ASSUME NEW x \in P PROVE Len(x) \in 0 .. Len(a)
        <3>1. x \in Words /\ Len(x) <= Len(a)
            BY <1>1, Zenon DEF IsCommon, IsPrefix
        <3>2. Len(x) \in Nat
            BY <3>1, LenProperties DEF Words
        <3> QED BY <2>1, <3>1, <3>2
    <2> QED BY <2>1, <2>2
<1> HIDE DEF P
<1>4. N \in SUBSET (0 .. Len(a)) /\ N # {}
    BY <1>1, <1>2
<1>5. PICK n \in N : \A m \in N : m <= n
    <2> HIDE DEF N
    <2> QED BY <1>2, <1>4, GreatestNumber
<1>6. \E x \in P : \A y \in P : Len(y) <= Len(x)
    <2>1. PICK x \in P : Len(x) = n
        OBVIOUS
    <2>2. \A y \in P : Len(y) \in N
        BY <1>2
    <2> QED BY <1>5, <2>1, <2>2
<1> QED BY <1>6 DEF P

\* It begins both.
LEMMA LongestIs ==
    ASSUME NEW a \in Words, NEW b \in Words
    PROVE  IsCommon(a, b, LongestCommonPrefix({a, b}))
<1> DEFINE P == CommonPrefixes({a, b})
<1>1. \A x \in P : IsCommon(a, b, x)
    BY CommonPrefixesAre
<1>2. LongestCommonPrefix({a, b}) = CHOOSE x \in P : \A y \in P : Len(y) <= Len(x)
    BY Zenon DEF LongestCommonPrefix
<1>3. \E x \in P : \A y \in P : Len(y) <= Len(x)
    BY LongestExists
<1> HIDE DEF P
<1>4. LongestCommonPrefix({a, b}) \in P
    BY <1>2, <1>3, Zenon
<1> QED BY <1>1, <1>4

\* Dropped from both, it leaves words.
LEMMA CommonIs ==
    ASSUME NEW a \in Words, NEW b \in Words
    PROVE  LET k == Len(LongestCommonPrefix({a, b}))
           IN  /\ k \in Nat /\ k <= Len(a) /\ k <= Len(b) /\ SubSeq(a, 1, k) = SubSeq(b, 1, k)
               /\ SubSeq(a, k + 1, Len(a)) \in Words /\ SubSeq(b, k + 1, Len(b)) \in Words
<1> DEFINE k == Len(LongestCommonPrefix({a, b}))
<1>1. k \in Nat /\ k <= Len(a) /\ k <= Len(b) /\ SubSeq(a, 1, k) = SubSeq(b, 1, k)
    <2>1. IsCommon(a, b, LongestCommonPrefix({a, b}))
        BY LongestIs
    <2> QED BY <2>1, LenProperties DEF IsCommon, IsPrefix, Words
<1> HIDE DEF k
<1>2. Len(a) \in Nat /\ Len(b) \in Nat
    BY LenProperties DEF Words
<1>3. SubSeq(a, k + 1, Len(a)) \in Words /\ SubSeq(b, k + 1, Len(b)) \in Words
    BY <1>1, <1>2, PartOfWord
<1> QED BY <1>1, <1>3 DEF k

\* A word and a longer one have the word in common.
LEMMA HeadIsCommon ==
    ASSUME NEW a \in Words, NEW b \in Words
    PROVE  Len(LongestCommonPrefix({a, a \o b})) = Len(a)
<1> DEFINE c == a \o b
           P == CommonPrefixes({a, c})
           x == LongestCommonPrefix({a, c})
<1>1. c \in Words /\ Len(a) \in Nat /\ Len(b) \in Nat /\ Len(c) = Len(a) + Len(b)
    BY WordsJoin, LenProperties, ConcatProperties DEF Words
<1>2. SubSeq(c, 1, Len(a)) = a
    BY HeadPart DEF Words
<1> HIDE DEF c
<1>3. Len(x) \in Nat /\ Len(x) <= Len(a)
    BY <1>1, CommonIs
<1>4. SubSeq(a, 1, Len(a)) = a
    <2>1. a \o <<>> = a /\ <<>> \in Words
        BY WordsJoin
    <2> QED BY <2>1, HeadPart DEF Words
<1>5. IsPrefix(a, a) /\ IsPrefix(a, c) /\ a \in Prefixes(a)
    <2>1. Len(a) \in 0 .. Len(a) /\ Len(a) <= Len(c)
        BY <1>1
    <2>2. a \in Prefixes(a)
        BY <1>4, <2>1 DEF Prefixes
    <2> QED BY <1>1, <1>2, <1>4, <2>1, <2>2 DEF IsPrefix
<1>6. a \in P
    BY <1>5, Zenon DEF CommonPrefixes
<1>7. Len(a) <= Len(x)
    <2> DEFINE Longest(y) == \A z \in P : Len(z) <= Len(y)
    <2>1. \E y \in P : Longest(y)
        BY <1>1, LongestExists
    <2>2. x = CHOOSE y \in P : Longest(y)
        BY Zenon DEF LongestCommonPrefix
    <2> HIDE DEF P, x
    <2>3. Longest(x)
        BY <2>1, <2>2, Zenon
    <2> QED BY <1>6, <2>3
<1> QED BY <1>1, <1>3, <1>7 DEF x, c

\* What is left of the ledgers when what they share is dropped.
Owing == [Docs -> Words]
Left(v, owed, d, s) ==
    IF v.spilled THEN <<>>
    ELSE SubSeq(s, Len(LongestCommonPrefix({v.text[d], owed[d]})) + 1, Len(s))
\* What is left of a ledger is a word.
LEMMA LeftIs ==
    ASSUME NEW v \in Service, NEW owed \in Owing, NEW d \in Docs
    PROVE  Left(v, owed, d, v.text[d]) \in Words /\ Left(v, owed, d, owed[d]) \in Words
<1>1. v.text[d] \in Words /\ owed[d] \in Words /\ <<>> \in Words
    BY WordsJoin DEF Service, Owing
<1> QED BY <1>1, CommonIs DEF Left

\* A text without its newest keys is a word.
LEMMA LessIs ==
    ASSUME NEW old \in Words, NEW s \in Seq(AnyKey)
    PROVE  Without(old, s) \in Words
<1> DEFINE n == Len(NoSep(s))
<1>1. n \in Nat
    BY OnlyType, LenProperties DEF NoSep
<1> HIDE DEF n
<1>2. Len(old) \in Nat
    BY LenProperties DEF Words
<1>3. SubSeq(old, 1, Len(old) - n) \in Words
    BY <1>1, <1>2, PartOfWord
<1> QED BY <1>3 DEF n, Without

(* The end of a step: Renumber and Becomes. *)

\* Words are keys, and have text.
LEMMA WordsAreKeys == \A s \in Words : s \in Seq(AnyKey) /\ NoSep(s) \in Words
<1>1. ASSUME NEW s \in Words PROVE s \in Seq(AnyKey)
    <2>1. Printable \subseteq AnyKey
        BY DEF AnyKey
    <2> QED BY <2>1, SeqSub DEF Words
<1> QED BY <1>1, NoSepIs

\* What waited last is a word.
LEMMA LastWaitingIs == \A st \in Engine : LastWaiting(st) \in Words
<1> SUFFICES ASSUME NEW st \in Engine PROVE LastWaiting(st) \in Words
    OBVIOUS
<1>1. st.pending \in Words /\ st.reading \in Units
    BY EngineIs, ReadingsAre
<1>2. CASE st.pending # <<>>
    <2>1. Len(st.pending) \in 1 .. Len(st.pending)
        BY <1>1, <1>2, EmptySeq, LenProperties DEF Words
    <2>2. Last(st.pending) \in Printable
        BY <1>1, <2>1, ElementOfSeq DEF Last, Words
    <2> QED BY <1>2, <2>2 DEF LastWaiting, Words
<1>3. CASE st.pending = <<>> /\ st.reading # <<>>
    <2>1. Len(st.reading) \in 1 .. Len(st.reading)
        BY <1>1, <1>3, EmptySeq, LenProperties DEF Units
    <2>2. Last(st.reading) \in Unit
        BY <1>1, <2>1, ElementOfSeq DEF Last, Units
    <2> QED BY <1>3, <2>2 DEF LastWaiting, Unit
<1>4. CASE st.pending = <<>> /\ st.reading = <<>>
    BY <1>4, WordsJoin DEF LastWaiting
<1> QED BY <1>2, <1>3, <1>4

\* What a key owes, by the window that is open.
Offering == w.win = "own" /\ ~w.onKey
Editing == w.win = "own" /\ w.onSegKey
OwedOf(old, key) ==
    IF key = "back" THEN IF Offering \/ Editing THEN old ELSE Without(old, LastWaiting(w.st))
    ELSE IF key = "esc" THEN IF Offering THEN old ELSE Without(old, Typed(w.st))
    ELSE IF key \notin Printable \/ (Offering /\ ~Editing) THEN old
    ELSE IF Drops(lay, w.st, key) THEN Without(old, w.st.pending)
    ELSE IF Refuses(lay, w.st, key) THEN old ELSE old \o NoSep(<<key>>)
\* Owed, by the kind of key.
LEMMA OwedDef == ASSUME NEW old, NEW key PROVE Owed(old, key) = OwedOf(old, key)
<1> DEFINE drops == Drops(lay, w.st, key)
           refuses == Refuses(lay, w.st, key)
           A == key = "back" /\ ~Offering /\ ~Editing
           B == key = "esc" /\ ~Offering
           C == key \in Printable /\ (~Offering \/ Editing)
<1>1. Owed(old, key) = CASE A -> Without(old, LastWaiting(w.st))
                         [] B -> Without(old, Typed(w.st))
                         [] C -> IF drops THEN Without(old, w.st.pending)
                                 ELSE IF refuses THEN old ELSE old \o NoSep(<<key>>)
                         [] OTHER -> old
    BY DEF Owed, Without, LastWaiting, Drops, Refuses, Offering, Editing
<1>2. "back" \notin Printable /\ "esc" \notin Printable
    BY SeqAssumption
<1> HIDE DEF drops, refuses
<1>3. CASE key = "back"
    BY <1>1, <1>2, <1>3 DEF OwedOf, Offering, Editing
<1>4. CASE key = "esc"
    BY <1>1, <1>2, <1>4 DEF OwedOf, Offering, Editing
<1>5. CASE key \notin {"back", "esc"}
    BY <1>1, <1>5 DEF OwedOf, Offering, Editing, drops, refuses
<1> QED BY <1>3, <1>4, <1>5

\* What is owed is a word.
LEMMA OwedIs ==
    ASSUME NEW old \in Words, NEW key \in AnyKey, w.st \in Engine
    PROVE  Owed(old, key) \in Words
<1>1. /\ LastWaiting(w.st) \in Words /\ Typed(w.st) \in Words /\ w.st.pending \in Words
    BY LastWaitingIs, EngineIs
<1>2. \A s \in Words : Without(old, s) \in Words
    BY WordsAreKeys, LessIs
<1>3. old \o NoSep(<<key>>) \in Words
    <2>1. <<key>> \in Seq(AnyKey)
        OBVIOUS
    <2>2. NoSep(<<key>>) \in Words
        BY <2>1, NoSepIs
    <2> QED BY <2>2, WordsJoin
<1> QED BY <1>1, <1>2, <1>3, OwedDef DEF OwedOf

\* The numbers of the readings, told apart from the engine's only.
NewGen(v, g) == IF g = v.st.gen THEN 0 ELSE -1
NewSt(v) == [v.st EXCEPT !.gen = 0,
                 !.convGen = IF v.st.conv = <<>> THEN 0 ELSE NewGen(v, v.st.convGen)]
NewCands(v) == IF v.win = "none" THEN NoCands ELSE [v.cands EXCEPT !.gen = NewGen(v, @)]
NewSegs(v) == IF v.segMode THEN [v.segs EXCEPT !.gen = NewGen(v, @)] ELSE NoSegs
Renumbered(v, t) ==
    [v EXCEPT !.st = NewSt(v), !.cands = NewCands(v), !.segs = NewSegs(v), !.text = t,
              !.spilled = FALSE]

\* An engine with its generations renumbered.
LEMMA WithGens ==
    ASSUME NEW st \in Engine, NEW c \in Int
    PROVE  LET s == [st EXCEPT !.gen = 0, !.convGen = c]
           IN  /\ s \in Engine /\ s.gen = 0 /\ s.open = st.open /\ s.reading = st.reading
               /\ s.pending = st.pending /\ s.conv = st.conv /\ s.convGen = c
<1> DEFINE s == [st EXCEPT !.gen = 0, !.convGen = c]
<1> DEFINE T == [st EXCEPT !.gen = 0]
<1>1. T \in Engine /\ T.gen = 0 /\ T.open = st.open /\ T.reading = st.reading
      /\ T.pending = st.pending /\ T.conv = st.conv
    BY DEF Engine
<1>2. s = [T EXCEPT !.convGen = c]
    BY DEF Engine
<1> HIDE DEF T, s
<1>3. s \in Engine /\ s.gen = T.gen /\ s.open = T.open /\ s.reading = T.reading
      /\ s.pending = T.pending /\ s.conv = T.conv /\ s.convGen = c
    BY <1>1, <1>2 DEF Engine
<1> QED BY <1>1, <1>3 DEF s

\* Renumbering the engine keeps what it holds, and which generations are equal.
LEMMA NewStIs ==
    ASSUME NEW v, Good(lay, v.st)
    PROVE  LET s == NewSt(v)
           IN  /\ s \in Engine /\ Good(lay, s) /\ s.gen = 0 /\ s.open = v.st.open
               /\ s.reading = v.st.reading /\ s.pending = v.st.pending /\ s.conv = v.st.conv
               /\ v.st.conv # <<>> /\ v.st.convGen = v.st.gen => s.convGen = 0
               /\ Typed(s) = Typed(v.st) /\ (Idle(s) <=> Idle(v.st))
<1> DEFINE s == NewSt(v)
           c == IF v.st.conv = <<>> THEN 0 ELSE NewGen(v, v.st.convGen)
<1>1. v.st \in Engine /\ c \in Int /\ s = [v.st EXCEPT !.gen = 0, !.convGen = c]
    BY DEF Good, NewGen, NewSt
<1>2. /\ s \in Engine /\ s.gen = 0 /\ s.open = v.st.open /\ s.reading = v.st.reading
      /\ s.pending = v.st.pending /\ s.conv = v.st.conv
      /\ s.convGen = c
    <2> HIDE DEF c, s
    <2> QED BY <1>1, WithGens
<1> HIDE DEF s
<1>3. s.convGen <= 0 /\ (s.conv # <<>> /\ s.convGen = 0 => v.st.convGen = v.st.gen)
      /\ (v.st.conv # <<>> /\ v.st.convGen = v.st.gen => s.convGen = 0)
    BY <1>2 DEF NewGen
<1>4. Good(lay, s)
    BY <1>2, <1>3 DEF Good
<1> QED BY <1>2, <1>3, <1>4, SameTyped DEF s

\* Renumbering a list keeps its items.
LEMMA NewCandsIs ==
    ASSUME NEW v \in Service
    PROVE  LET c == NewCands(v)
           IN  /\ c \in Lists
               /\ v.win # "none" => c.items = v.cands.items /\ c.gen = NewGen(v, v.cands.gen)
<1>1. v.cands \in Lists /\ v.cands.items \in Seq(Items1)
    BY DEF Service, Lists
<1>2. CASE v.win = "none"
    BY <1>2 DEF NewCands, NoCands, Lists
<1>3. CASE v.win # "none"
    BY <1>1, <1>3 DEF NewCands, NewGen, Lists
<1> QED BY <1>2, <1>3

\* Renumbering segments keeps what they fit.
LEMMA NewSegsIs ==
    ASSUME NEW v \in Service
    PROVE  LET sg == NewSegs(v)
           IN  /\ sg \in SegsType
               /\ v.segMode => /\ sg.gen = NewGen(v, v.segs.gen)
                               /\ \A u : SegsFit(v.segs, u) => SegsFit(sg, u)
<1>1. v.segs \in SegsType
    BY DEF Service
<1>2. CASE ~v.segMode
    BY <1>2 DEF NewSegs, NoSegs, SegsType, Lens
<1>3. CASE v.segMode
    <2> DEFINE sg == NewSegs(v)
    <2>1. /\ sg \in SegsType /\ sg.gen = NewGen(v, v.segs.gen) /\ sg.lens = v.segs.lens
          /\ sg.as = v.segs.as /\ sg.focus = v.segs.focus
        BY <1>1, <1>3 DEF NewSegs, NewGen, SegsType
    <2> HIDE DEF sg
    <2>2. \A u : SegsFit(v.segs, u) => SegsFit(sg, u)
        BY <2>1 DEF SegsFit
    <2> QED BY <2>1, <2>2 DEF sg
<1> QED BY <1>2, <1>3

\* A service with its generations renumbered.
LEMMA RenumberedIs ==
    ASSUME NEW v \in Service, Good(lay, v.st), NEW t \in [Docs -> Words]
    PROVE  LET u == Renumbered(v, t)
           IN  /\ u \in Service /\ u.st = NewSt(v) /\ u.cands = NewCands(v) /\ u.segs = NewSegs(v)
               /\ u.segMode = v.segMode /\ u.win = v.win /\ u.onKey = v.onKey
               /\ u.onSegKey = v.onSegKey /\ u.ctx = v.ctx /\ u.text = t /\ u.target = v.target
               /\ u.chip = v.chip /\ u.out = v.out /\ u.spilled = FALSE
<1> DEFINE s == NewSt(v)
           c == NewCands(v)
           g == NewSegs(v)
<1>1. s \in Engine /\ c \in Lists /\ g \in SegsType
    BY NewStIs, NewCandsIs, NewSegsIs
<1> DEFINE u == [v EXCEPT !.st = s, !.cands = c, !.segs = g, !.text = t, !.spilled = FALSE]
<1>2. Renumbered(v, t) = u
    BY DEF Renumbered
<1> HIDE DEF s, c, g
<1>3. /\ u \in Service /\ u.st = s /\ u.cands = c /\ u.segs = g
      /\ u.segMode = v.segMode /\ u.win = v.win /\ u.onKey = v.onKey
      /\ u.onSegKey = v.onSegKey /\ u.ctx = v.ctx /\ u.text = t /\ u.target = v.target
      /\ u.chip = v.chip /\ u.out = v.out /\ u.spilled = FALSE
    BY <1>1 DEF Service
<1> QED BY <1>2, <1>3 DEF s, c, g

IsBecome(v, o, u) ==
    /\ Sound(u, o) /\ u.st.gen = 0 /\ u.win = v.win /\ u.ctx = v.ctx
    /\ u.out = v.out /\ u.chip = v.chip /\ (Idle(v.st) => Idle(u.st))
    /\ u.target = v.target /\ u.spilled = FALSE /\ Typed(u.st) = Typed(v.st)
    /\ v.win = "own" => u.cands.items = v.cands.items

\* Renumbering keeps a state sound.
LEMMA RenumberedIsSound ==
    ASSUME NEW o, NEW v, Sound(v, o), NEW t \in [Docs -> Words]
    PROVE  IsBecome(v, o, Renumbered(v, t)) /\ Renumbered(v, t).text = t
<1> DEFINE u == Renumbered(v, t)
           s == NewSt(v)
           c == NewCands(v)
           g == NewSegs(v)
<1>1. v \in Service /\ Good(lay, v.st) /\ Seated(v) /\ Targeted(v)
    BY DEF Sound, Kept
<1>2. /\ u \in Service /\ u.st = s /\ u.cands = c /\ u.segs = g
      /\ u.segMode = v.segMode /\ u.win = v.win /\ u.onKey = v.onKey
      /\ u.onSegKey = v.onSegKey /\ u.ctx = v.ctx /\ u.target = v.target /\ u.chip = v.chip
      /\ u.out = v.out /\ u.text = t /\ u.spilled = FALSE
    BY <1>1, RenumberedIs
<1>3. /\ Good(lay, s) /\ s.gen = 0 /\ s.open = v.st.open /\ s.reading = v.st.reading
      /\ s.pending = v.st.pending /\ s.conv = v.st.conv
      /\ v.st.conv # <<>> /\ v.st.convGen = v.st.gen => s.convGen = 0
      /\ Typed(s) = Typed(v.st) /\ (Idle(s) <=> Idle(v.st))
    BY <1>1, NewStIs
<1>4. v.win # "none" => c.items = v.cands.items /\ c.gen = NewGen(v, v.cands.gen)
    BY <1>1, NewCandsIs
<1>5. v.segMode => /\ g.gen = NewGen(v, v.segs.gen)
                   /\ \A x : SegsFit(v.segs, x) => SegsFit(g, x)
    BY <1>1, NewSegsIs
<1> HIDE DEF u, s, c, g
<1>6. \A x : /\ NewGen(v, x) <= 0
             /\ NewGen(v, x) = 0 => x = v.st.gen
             /\ x = v.st.gen => NewGen(v, x) = 0
    BY DEF NewGen
<1>7. Kept(u)
    <2>1. Seated(u)
        BY <1>1, <1>2, <1>3, <1>5, <1>6 DEF Seated
    <2>2. Targeted(u)
        BY <1>1, <1>2 DEF Targeted
    <2> QED BY <1>2, <1>3, <2>1, <2>2 DEF Kept
<1>8. ChipIs(u) /\ (ChipIs(v) => ChipIs(u))
    BY <1>2, <1>3 DEF Sound, ChipIs
<1>9. Home(u, o)
    BY <1>2 DEF Sound, Home
<1>10. ASSUME u.win = "own" PROVE Listing(u)
    <2>1. Listing(v)
        BY <1>2, <1>10 DEF Sound, OwnList
    <2>2. c.items = v.cands.items /\ c.gen = NewGen(v, v.cands.gen)
        BY <1>2, <1>4, <1>10
    <2>3. ASSUME v.segMode PROVE InSentence(u)
        <3> InSentence(v)
            BY <2>1, <2>3 DEF Listing
        <3>1. g.gen = 0 /\ s.convGen = 0
            BY <1>3, <1>5, <1>6, <2>3 DEF InSentence
        <3> QED BY <1>2, <1>3, <1>8, <3>1 DEF InSentence
    <2> QED BY <1>2, <1>3, <1>6, <2>1, <2>2, <2>3 DEF Listing
<1>11. IsBecome(v, o, u)
    BY <1>2, <1>3, <1>4, <1>7, <1>8, <1>9, <1>10 DEF IsBecome, Sound, OwnList
<1> QED BY <1>2, <1>11 DEF u

StillHeld(v, owed, d) == Left(v, owed, d, v.text[d])
StillOwed(v, owed, d) ==
    IF v.spilled /\ d = v.target THEN NoSep(Typed(v.st)) ELSE Left(v, owed, d, owed[d])
\* The end of a step keeps the state sound, and drops from the ledgers what they share.
LEMMA BecomesIs ==
    ASSUME NEW o, NEW v, Sound(v, o), NEW owed \in Owing, Becomes(v, owed)
    PROVE  /\ IsBecome(v, o, w') /\ typed' \in Owing
           /\ w'.text = [d \in Docs |-> StillHeld(v, owed, d)]
           /\ typed' = [d \in Docs |-> StillOwed(v, owed, d)]
<1> DEFINE t == [d \in Docs |-> Left(v, owed, d, v.text[d])]
<1>1. v \in Service /\ v.st \in Engine
    BY DEF Sound, Kept, Good
<1>2. t \in [Docs -> Words]
    BY <1>1, LeftIs
<1>3. w' = Renumbered(v, t)
    <2> DEFINE R == Renumber(v)
               S == [v EXCEPT !.st = NewSt(v), !.cands = NewCands(v), !.segs = NewSegs(v)]
    <2>1. R = S
        BY DEF Renumber, NewSt, NewCands, NewSegs, NewGen
    <2>2. S.text = v.text
        BY <1>1 DEF Service
    <2>3. w' = [R EXCEPT !.text = [d \in Docs |-> Left(v, owed, d, R.text[d])], !.spilled = FALSE]
        BY DEF Becomes, Left
    <2>4. w' = [S EXCEPT !.text = t, !.spilled = FALSE]
        BY <2>1, <2>2, <2>3
    <2> QED BY <2>4 DEF Renumbered
<1>4. t = [d \in Docs |-> StillHeld(v, owed, d)]
    BY DEF StillHeld
<1> HIDE DEF t
<1>5. IsBecome(v, o, w') /\ w'.text = t
    BY <1>2, <1>3, RenumberedIsSound
<1>6. typed' = [d \in Docs |-> StillOwed(v, owed, d)]
    BY DEF Becomes, Left, StillOwed
<1>7. \A d \in Docs : NoSep(Typed(v.st)) \in Words /\ Left(v, owed, d, owed[d]) \in Words
    BY <1>1, LeftIs, EngineIs, WordsAreKeys
<1>8. typed' \in Owing
    BY <1>6, <1>7 DEF Owing, StillOwed
<1> QED BY <1>4, <1>5, <1>6, <1>8

------------------------------------------------------------------------------
(* The ledger. *)

\* The part of a concatenation that was behind.
LEMMA TailPart ==
    ASSUME NEW a \in Words, NEW b \in Words
    PROVE  SubSeq(a \o b, Len(a) + 1, Len(a \o b)) = b
<1> DEFINE s == a \o b
           t == SubSeq(s, Len(a) + 1, Len(s))
<1>1. /\ Len(a) \in Nat /\ Len(b) \in Nat /\ s \in Words /\ Len(s) = Len(a) + Len(b)
      /\ \A i \in 1 .. Len(b) : s[Len(a) + i] = b[i]
    BY LenProperties, ConcatProperties, WordsJoin DEF Words
<1>2. \A i \in 1 .. Len(s) : s[i] \in Printable
    BY <1>1, ElementOfSeq DEF Words
<1> HIDE DEF s
<1>3. /\ t \in Words /\ Len(t) = Len(b) /\ \A i \in 1 .. Len(b) : t[i] = s[Len(a) + i]
    <2>1. /\ SubSeq(s, Len(a) + 1, Len(s)) \in Seq(Printable)
          /\ Len(SubSeq(s, Len(a) + 1, Len(s))) =
                 IF Len(a) + 1 <= Len(s) THEN Len(s) - (Len(a) + 1) + 1 ELSE 0
          /\ \A i \in 1 .. Len(s) - (Len(a) + 1) + 1 :
                 SubSeq(s, Len(a) + 1, Len(s))[i] = s[Len(a) + 1 + i - 1]
        <3>1. Len(a) + 1 \in Int /\ Len(s) \in Int
            BY <1>1
        <3>2. \A i \in Len(a) + 1 .. Len(s) : s[i] \in Printable
            BY <1>1, <1>2
        <3> HIDE DEF t
        <3>3. s \in Seq(Printable)
            BY <1>1 DEF Words
        <3> QED BY <3>1, <3>2, <3>3, SubSeqProperties
    <2> QED BY <1>1, <2>1 DEF Words
<1> HIDE DEF t
<1>4. t = b
    BY <1>1, <1>3, SeqEqual DEF Words
<1> QED BY <1>4 DEF t, s

\* What two ledgers share is dropped from both: the longer keeps the rest.
LEMMA SharedIsDropped ==
    ASSUME NEW a \in Words, NEW b \in Words
    PROVE  LET k == Len(LongestCommonPrefix({a, a \o b}))
           IN  SubSeq(a, k + 1, Len(a)) = <<>> /\ SubSeq(a \o b, k + 1, Len(a \o b)) = b
<1>1. Len(LongestCommonPrefix({a, a \o b})) = Len(a)
    BY HeadIsCommon
<1>2. a \o <<>> = a /\ <<>> \in Words
    BY WordsJoin
<1>3. SubSeq(a \o <<>>, Len(a) + 1, Len(a \o <<>>)) = <<>>
    BY <1>2, TailPart
<1>4. SubSeq(a, Len(a) + 1, Len(a)) = <<>>
    BY <1>2, <1>3
<1> QED BY <1>1, <1>4, TailPart

(***************************************************************************)
(* The ledger.  Between two steps the documents agree with the keys typed  *)
(* for them but for what waits in the engine.  After a handler, and before *)
(* the shared keys are dropped, they do so with what the step owes.        *)
(***************************************************************************)
Told(v, o, ty) ==
    /\ v.spilled = FALSE /\ v.target \in {NoDoc, o}
    /\ \A d \in Docs : v.text[d] = <<>>
    /\ \A d \in Docs : ty[d] = IF d = o THEN NoSep(Typed(v.st)) ELSE <<>>
Even(v, o, owed) ==
    /\ v.target \in {NoDoc, o}
    /\ \/ v.spilled
       \/ (\A d \in Docs \ {o} : v.text[d] = owed[d]) /\ Whole(v, o) = owed[o]

\* Nothing waits without a document of its own.
LEMMA NoneWaits ==
    ASSUME NEW v, NEW o, Sound(v, o), v.target = NoDoc
    PROVE  Typed(v.st) = <<>>
<1>1. v.chip = <<>> /\ KeysOf(<<>>) = <<>>
    BY PiecesJoin DEF Sound, Kept, Targeted
<1> QED BY <1>1 DEF Sound, ChipIs

\* Nothing has no text.
LEMMA NoSepOfNone == NoSep(<<>>) = <<>>
BY NoSepWords, WordsJoin

\* A step that leaves the text it owes leaves the ledgers in agreement.
LEMMA EvenIsTold ==
    ASSUME NEW o \in Docs, NEW v, Sound(v, o), NEW owed \in Owing, Becomes(v, owed), Even(v, o, owed)
    PROVE  Told(w', o, typed')
<1>1. /\ IsBecome(v, o, w') /\ w'.text = [d \in Docs |-> StillHeld(v, owed, d)]
      /\ typed' = [d \in Docs |-> StillOwed(v, owed, d)]
    BY BecomesIs
<1>2. /\ w'.spilled = FALSE /\ w'.target = v.target /\ Typed(w'.st) = Typed(v.st)
    BY <1>1 DEF IsBecome
<1>3. v \in Service /\ NoDoc \notin Docs /\ NoSep(Typed(v.st)) \in Words
    BY SeqAssumption, EngineIs, WordsAreKeys DEF Sound, Kept, Good
<1>4. CASE v.spilled
    <2>1. \A d \in Docs : StillHeld(v, owed, d) = <<>>
        BY <1>4 DEF StillHeld, Left
    <2>2. ASSUME NEW d \in Docs
          PROVE  StillOwed(v, owed, d) = IF d = o THEN NoSep(Typed(v.st)) ELSE <<>>
        <3>1. CASE v.target = o
            BY <1>4, <3>1 DEF StillOwed, Left
        <3>2. CASE v.target = NoDoc
            <4>1. NoSep(Typed(v.st)) = <<>>
                BY <3>2, NoneWaits, NoSepOfNone
            <4> QED BY <1>3, <1>4, <3>2, <4>1 DEF StillOwed, Left
        <3> QED BY <3>1, <3>2 DEF Even
    <2> QED BY <1>1, <1>2, <2>1, <2>2 DEF Told, Even
<1>5. CASE ~v.spilled
    <2> DEFINE b == NoSep(Typed(v.st))
    <2>1. owed[o] = v.text[o] \o b /\ v.text[o] \in Words /\ b \in Words
        BY <1>3, <1>5 DEF Even, Whole, Service
    <2>2. ASSUME NEW d \in Docs
          PROVE  /\ StillHeld(v, owed, d) = <<>>
                 /\ StillOwed(v, owed, d) = IF d = o THEN b ELSE <<>>
        <3> DEFINE a == v.text[d]
        <3>1. a \in Words
            BY <1>3 DEF Service
        <3>2. CASE d = o
            <4>1. owed[d] = a \o b
                BY <2>1, <3>2
            <4> HIDE DEF b
            <4> DEFINE k == Len(LongestCommonPrefix({a, a \o b})) + 1
            <4>2. SubSeq(a, k, Len(a)) = <<>> /\ SubSeq(a \o b, k, Len(a \o b)) = b
                BY <2>1, <3>1, SharedIsDropped
            <4>3. StillHeld(v, owed, d) = SubSeq(a, k, Len(a))
                BY <1>5, <4>1 DEF StillHeld, Left
            <4>4. StillOwed(v, owed, d) = SubSeq(a \o b, k, Len(a \o b))
                BY <1>5, <4>1 DEF StillOwed, Left
            <4> QED BY <3>2, <4>2, <4>3, <4>4
        <3>3. CASE d # o
            <4>1. a \o <<>> = a /\ <<>> \in Words /\ owed[d] = a
                BY <1>5, <3>1, <3>3, WordsJoin DEF Even
            <4>2. LET k == Len(LongestCommonPrefix({a, a \o <<>>}))
                  IN  SubSeq(a, k + 1, Len(a)) = <<>>
                BY <3>1, <4>1, SharedIsDropped
            <4>3. SubSeq(a, Len(LongestCommonPrefix({a, a})) + 1, Len(a)) = <<>>
                BY <4>1, <4>2
            <4>4. StillHeld(v, owed, d) = <<>> /\ StillOwed(v, owed, d) = <<>>
                BY <1>5, <4>1, <4>3 DEF StillHeld, StillOwed, Left
            <4> QED BY <3>3, <4>4
        <3> QED BY <3>2, <3>3
    <2> QED BY <1>1, <1>2, <2>1, <2>2 DEF Told, Even
<1> QED BY <1>4, <1>5

------------------------------------------------------------------------------

(* The boundaries. *)

Untouched(e) == [pending |-> <<>>, reading |-> <<>>, gen |-> 0, open |-> e,
                 conv |-> <<>>, convGen |-> 0]
Unused(e, g) == [Untouched(e) EXCEPT !.gen = g]
\* An engine that was never used, or restarted.
LEMMA UntouchedIs ==
    ASSUME NEW e \in BOOLEAN
    PROVE  LET s == Untouched(e)
           IN  /\ s \in Engine /\ s.gen = 0 /\ s.pending = <<>> /\ s.reading = <<>> /\ s.conv = <<>>
               /\ s.convGen = 0
<1>1. <<>> \in Words /\ <<>> \in Readings /\ <<>> \in Pieces(Printable)
    BY ReadingsAre, WordsJoin, PiecesJoin
<1> QED BY <1>1 DEF Untouched, Engine

LEMMA UnusedIs ==
    ASSUME NEW e \in BOOLEAN, NEW g \in Int
    PROVE  LET s == Unused(e, g)
           IN  /\ s \in Engine /\ s.gen = g /\ s.pending = <<>> /\ s.reading = <<>> /\ s.conv = <<>>
               /\ s.convGen = 0
<1>1. <<>> \in Words /\ <<>> \in Readings /\ <<>> \in Pieces(Printable)
    BY ReadingsAre, WordsJoin, PiecesJoin
<1> QED BY <1>1 DEF Unused, Untouched, Engine

\* Restarted, the engine holds nothing, and nothing of before is current.
LEMMA RestartIs ==
    ASSUME NEW l, NEW st \in Engine, st.gen >= 0
    PROVE  LET s == Restart(st)
           IN  Good(l, s) /\ Idle(s) /\ Typed(s) = <<>> /\ s.gen = st.gen + 1
<1> DEFINE s == Restart(st)
<1>1. st.gen \in Int /\ <<>> \in Words /\ <<>> \in Readings /\ <<>> \in Pieces(Printable)
    BY ReadingsAre, WordsJoin, PiecesJoin DEF Engine
<1>2. \A e \in BOOLEAN, g \in Int :
          /\ Unused(e, g) \in Engine /\ Unused(e, g).gen = g /\ Unused(e, g).pending = <<>>
          /\ Unused(e, g).reading = <<>> /\ Unused(e, g).conv = <<>> /\ Unused(e, g).convGen = 0
    BY UnusedIs
<1>3. s = Unused(FALSE, st.gen + 1)
    BY Zenon DEF Restart, Empty, Unused, Untouched
<1>6. /\ s \in Engine /\ s.gen = st.gen + 1 /\ s.pending = <<>> /\ s.reading = <<>> /\ s.conv = <<>>
      /\ s.convGen = 0
    <2>1. st.gen + 1 \in Int /\ FALSE \in BOOLEAN
        BY <1>1
    <2> QED BY <1>2, <1>3, <2>1, ZenonT(40)
<1> HIDE DEF s
<1>4. Typed(s) = <<>>
    BY <1>6, FlatEmpty, WordsJoin DEF Typed
<1>5. Good(l, s) /\ Idle(s)
    BY <1>1, <1>6 DEF Good, Idle
<1> QED BY <1>4, <1>5, <1>6 DEF s

\* An idle engine fits any layout.
LEMMA IdleIsGood == \A l, st : Good(lay, st) /\ Idle(st) => Good(l, st)
BY DEF Good, Idle

\* A window closed with nothing waiting leaves nothing waiting.
LEMMA CancelledIdle ==
    ASSUME Ready, NEW v, Kept(v), Idle(v.st)
    PROVE  Idle(OnCancelled(v).st)
<1> DEFINE x == LeaveSegments(v)
           r == SeqKb_CancelCandidates(x.st)
           a == ApplyResult(x, x.ctx, r)
           m == IF r.eaten THEN a ELSE x
<1>1. OnCancelled(v) = ReleaseCtx(m)
    BY DEF OnCancelled, Cancelled
<1>2. IsLeft(v, x)
    BY LeaveSegmentsIs
<1> HIDE DEF x
<1>3. Kept(x) /\ Idle(x.st) /\ Good(lay, x.st) /\ x.ctx \in Ctxs
    BY <1>2, SameTyped DEF IsLeft, Kept, Service
<1>4. Step(lay, x.st, r) /\ Idle(r.st)
    BY <1>3, CancelCandidatesIs
<1> HIDE DEF r
<1>5. IsAnswered(x, x.ctx, r, a)
    BY <1>3, <1>4, ApplyResultIs
<1> HIDE DEF a
<1>6. Kept(m) /\ Idle(m.st)
    BY <1>3, <1>4, <1>5 DEF IsAnswered
<1> HIDE DEF m
<1>7. ReleaseCtx(m).st = m.st
    BY <1>6, ReleaseCtxIs
<1> QED BY <1>1, <1>6, <1>7

\* And no window, no document and no change of the text.
LEMMA CancelWindowIdle ==
    ASSUME Ready, NEW v, Kept(v), ChipIs(v), Idle(v.st), v.win = "none" => v.ctx = NoDoc
    PROVE  LET c == CancelWindow(v)
           IN  /\ Kept(c) /\ Idle(c.st) /\ c.win = "none" /\ c.ctx = NoDoc /\ c.out = v.out
               /\ c.text = v.text /\ (v.spilled => c.spilled)
<1>1. CASE v.win = "none"
    BY <1>1 DEF CancelWindow
<1>2. CASE v.win # "none"
    <2> DEFINE u == OnCancelled(v)
    <2>1. CancelWindow(v) = Hide(u)
        BY <1>2 DEF CancelWindow
    <2>2. IsEnded(v, u) /\ Idle(u.st)
        BY OnCancelledIs, CancelledIdle
    <2> HIDE DEF u
    <2>3. LET h == Hide(u)
          IN  /\ Kept(h) /\ h.win = "none" /\ h.st = u.st /\ h.ctx = u.ctx /\ SameText(u, h)
              /\ h.spilled = u.spilled
        BY <2>2, HideIs DEF IsEnded
    <2> QED BY <2>1, <2>2, <2>3 DEF IsEnded, SameText, Quiet
<1> QED BY <1>1, <1>2

\* Everything folded: no window, no list, nothing on screen.
IsFolded(v, f) ==
    /\ Kept(f) /\ Idle(f.st) /\ f.win = "none" /\ f.ctx = NoDoc /\ f.chip = <<>>
    /\ f.out = v.out /\ f.text = v.text /\ f.target = NoDoc /\ (v.spilled => f.spilled)

\* Folding the input leaves nothing behind but the text.
LEMMA FoldInputIs ==
    ASSUME Ready, NEW v \in Service, v.st.gen >= 0, v.segMode => v.segs.gen <= v.st.gen,
           v.win = "none" => v.ctx = NoDoc
    PROVE  IsFolded(v, FoldInput(v))
<1> DEFINE s == Restart(v.st)
           i == [v EXCEPT !.st = s, !.target = NoDoc, !.chip = <<>>]
           c == CancelWindow(i)
           f == [c EXCEPT !.target = NoDoc, !.chip = <<>>]
<1>1. v.st \in Engine /\ v.st.gen \in Int /\ v.segs.gen \in Int
    BY DEF Service, Engine, SegsType
<1>2. Good(lay, s) /\ Idle(s) /\ Typed(s) = <<>> /\ s.gen = v.st.gen + 1 /\ s \in Engine
    <2>1. Good(lay, s) /\ Idle(s) /\ Typed(s) = <<>> /\ s.gen = v.st.gen + 1
        BY <1>1, RestartIs
    <2> QED BY <2>1 DEF Good
<1>3. <<>> \in Pieces(Printable) /\ KeysOf(<<>>) = <<>>
    BY PiecesJoin
<1>4. FoldInput(v) = f
    BY DEF FoldInput
<1> HIDE DEF s
<1>5. /\ i \in Service /\ i.st = s /\ i.chip = <<>> /\ i.segs = v.segs /\ i.segMode = v.segMode
      /\ i.win = v.win /\ i.ctx = v.ctx /\ i.out = v.out /\ i.text = v.text
      /\ i.spilled = v.spilled
    BY <1>2, <1>3 DEF Service, Ctxs
<1> HIDE DEF i
<1>6. Kept(i) /\ ChipIs(i) /\ Idle(i.st)
    <2>1. Seated(i)
        BY <1>1, <1>2, <1>5 DEF Seated
    <2> QED BY <1>2, <1>3, <1>5, <2>1 DEF Kept, Targeted, ChipIs
<1>7. /\ Kept(c) /\ Idle(c.st) /\ c.win = "none" /\ c.ctx = NoDoc /\ c.out = v.out
      /\ c.text = v.text /\ (v.spilled => c.spilled)
    BY <1>5, <1>6, CancelWindowIdle
<1> HIDE DEF c
<1>8. /\ f \in Service /\ f.st = c.st /\ f.chip = <<>> /\ f.segs = c.segs /\ f.segMode = c.segMode
      /\ f.win = c.win /\ f.ctx = c.ctx /\ f.out = c.out /\ f.text = c.text
      /\ f.target = NoDoc /\ f.spilled = c.spilled
    BY <1>3, <1>7 DEF Kept, Service, Ctxs
<1> HIDE DEF f
<1>9. Kept(f)
    BY <1>7, <1>8 DEF Kept, Seated, Targeted
<1>10. IsFolded(v, f)
    BY <1>7, <1>8, <1>9 DEF IsFolded
<1> QED BY <1>4, <1>10

\* Folded is sound for any document.
LEMMA FoldedIsSound ==
    ASSUME Ready, NEW v, NEW f, IsFolded(v, f), NEW o
    PROVE  Sound(f, o)
<1>1. Typed(f.st) = <<>> /\ KeysOf(<<>>) = <<>>
    BY FlatEmpty, WordsJoin, PiecesJoin DEF IsFolded, Idle, Typed
<1> QED BY <1>1, NoWindowIsSound DEF IsFolded, ChipIs

\* What waits committed to d, if there is one.
Commits(v, d, u) ==
    \A x \in Docs : u.text[x] = IF x = d THEN v.text[x] \o NoSep(Typed(v.st)) ELSE v.text[x]
IsFlushedTo(v, d, u) ==
    /\ u \in Service /\ SameWindow(v, u) /\ v.st.gen <= u.st.gen /\ Commits(v, d, u)
    /\ d # NoDoc /\ v.st.reading # <<>> /\ v.st.pending = <<>> => u.out = v.out \o Shown(v.st)
    /\ v.out \in Pieces(Printable) => u.out \in Pieces(Printable)

\* A flush to a document adds to it what waits, in the form it is shown.
LEMMA FlushToIs ==
    ASSUME Ready, NEW v, Kept(v), NEW d \in Ctxs
    PROVE  IsFlushedTo(v, d, FlushTo(v, d))
<1> DEFINE r == SeqKb_Flush(lay, v.st)
           i == [v EXCEPT !.st = r.st]
           j == Insert(i, d, r.out)
<1>1. FlushTo(v, d) = IF d = NoDoc THEN i ELSE j
    BY DEF FlushTo, Flushed
<1>2. IsFlush(lay, v.st, r) /\ Good(lay, v.st) /\ v \in Service
    BY FlushIs DEF Kept, Ready
<1> HIDE DEF r
<1>3. r.st \in Engine /\ r.out \in Texts /\ r.out \in Pieces(Printable) /\ v.st.gen <= r.st.gen
    <2>1. r.st \in Engine /\ r.out \in Pieces(Printable) /\ Newer(v.st, r.st) /\ v.st \in Engine
        BY <1>2 DEF IsFlush, Step, Results, Good
    <2> QED BY <2>1, OursAreKeys DEF Newer, Engine
<1>4. i \in Service /\ i.st = r.st /\ SameWindow(v, i) /\ SameText(v, i)
    BY <1>2, <1>3, WithStIs
<1> HIDE DEF i
<1>5. CASE d = NoDoc
    <2>1. Commits(v, d, i)
        BY <1>4, <1>5 DEF Commits, SameText, Ready
    <2>2. IsFlushedTo(v, d, i)
        BY <1>3, <1>4, <1>5, <2>1 DEF IsFlushedTo, SameText
    <2> QED BY <1>1, <1>5, <2>2
<1>6. CASE d # NoDoc
    <2>1. d \in Docs
        BY <1>6 DEF Ctxs
    <2>2. IsPlaced(i, d, r.out, j)
        BY <1>3, <1>4, <2>1, InsertedIs
    <2> HIDE DEF j
    <2>3. SameWindow(v, j) /\ j.st = r.st /\ j.out = v.out \o r.out /\ j \in Service
        BY <1>4, <2>2 DEF IsPlaced, SameCore, SameWindow, SameText
    <2>4. v.st.reading # <<>> /\ v.st.pending = <<>> => r.out = Shown(v.st)
        BY <1>2 DEF IsFlush
    <2>5. Letterly(r.out) = NoSep(Typed(v.st))
        BY <1>2 DEF IsFlush, Letterly
    <2>6. Commits(v, d, j)
        <3>1. j.text = [v.text EXCEPT ![d] = @ \o NoSep(Typed(v.st))] /\ v.text \in [Docs -> Words]
            BY <1>2, <1>4, <2>2, <2>5 DEF IsPlaced, SameText, Service
        <3> QED BY <2>1, <3>1 DEF Commits
    <2>7. v.out \in Pieces(Printable) => j.out \in Pieces(Printable)
        BY <1>3, <2>3, PiecesJoin
    <2>8. IsFlushedTo(v, d, j)
        BY <1>3, <2>3, <2>4, <2>6, <2>7 DEF IsFlushedTo
    <2> QED BY <1>1, <1>6, <2>8
<1> QED BY <1>5, <1>6

------------------------------------------------------------------------------

(***************************************************************************)
(* The invariant of the states.                                            *)
(***************************************************************************)
PostedKeys == Seq([key : HookKeys, seen : Seq(Items1)])
SeqWaiting ==
    /\ inbox \in Seq(AnyKey) /\ posted \in PostedKeys
    /\ Len(inbox) + Len(posted) <= MaxWaiting
\* The keys posted to a window were pressed on the list it shows.
SeenIsShown ==
    posted # <<>> => w.win = "own" /\ \A i \in 1 .. Len(posted) : posted[i].seen = w.cands.items
SeqHolds == lay \in SeqLayouts /\ owner \in Docs /\ typed \in Owing /\ w.st.gen = 0
SeqIInv == SeqHolds /\ Sound(w, owner) /\ SeqWaiting /\ SeenIsShown

\* The layouts are what their parser lets through.
LEMMA ReadyIs == ASSUME NEW l \in SeqLayouts PROVE Layout(l) /\ (l.zh => l.cand) /\ (l.ja => ~l.zh) /\ NoDoc \notin Docs
BY SeqAssumption DEF Layout

\* Sound in the next state.
LEMMA PrimedSound ==
    ASSUME lay' = lay, Sound(w', owner')
    PROVE  Sound(w, owner)'
BY DEF Sound, Kept, ChipIs, Home, OwnList, Listing, InSentence, Seated, Targeted

\* What is on screen when no window is.
LEMMA PrimedFolded ==
    ASSUME Kept(w'), Idle(w'.st), w'.win = "none", w'.ctx = NoDoc, w'.chip = <<>>
    PROVE  Sound(w, owner)'
<1>1. Good(lay', w'.st)
    BY IdleIsGood DEF Kept
<1>2. Typed(w'.st) = <<>> /\ KeysOf(<<>>) = <<>>
    BY FlatEmpty, WordsJoin, PiecesJoin DEF Idle, Typed
<1> QED BY <1>1, <1>2 DEF Sound, Kept, ChipIs, Home, OwnList, Seated, Targeted

\* A handler starts with no output of its own.
LEMMA FreshIs ==
    ASSUME NEW o, Sound(w, o)
    PROVE  /\ Sound(Fresh, o) /\ Fresh.win = w.win /\ Fresh.cands = w.cands /\ Fresh.st = w.st
           /\ Fresh.segs = w.segs /\ Fresh.segMode = w.segMode /\ Fresh.ctx = w.ctx
           /\ Fresh.chip = w.chip /\ Fresh.target = w.target /\ Fresh.out = <<>>
           /\ Fresh.text = w.text /\ Fresh.spilled = w.spilled /\ Fresh.onKey = w.onKey
           /\ Fresh.onSegKey = w.onSegKey
<1> DEFINE u == Fresh
<1>1. w \in Service /\ <<>> \in Texts
    BY KeysJoin DEF Sound, Kept
<1>2. /\ u \in Service /\ SameWindow(w, u) /\ u.st = w.st /\ u.chip = w.chip /\ u.target = w.target
      /\ u.out = <<>> /\ u.text = w.text
    BY <1>1 DEF Fresh, Service, SameWindow
<1> HIDE DEF u
<1>3. Kept(u)
    BY <1>2 DEF Sound, Kept, Seated, Targeted, SameWindow
<1>4. ChipIs(u) /\ Home(u, o)
    BY <1>2 DEF Sound, ChipIs, Home, SameWindow
<1>5. OwnList(u)
    <2> SUFFICES ASSUME u.win = "own" PROVE Listing(u)
        BY DEF OwnList
    <2>1. Listing(w)
        BY <1>2 DEF Sound, OwnList, SameWindow
    <2> QED BY <1>2, <2>1, SameListing DEF SameWindow
<1>6. Sound(u, o)
    BY <1>3, <1>4, <1>5 DEF Sound
<1> QED BY <1>2, <1>6 DEF u, SameWindow

\* The first state.
Beginning(e, words) ==
    [st |-> Untouched(e), cands |-> NoCands, segs |-> NoSegs, segMode |-> e, win |-> "none",
     onKey |-> e, onSegKey |-> e, ctx |-> NoDoc, target |-> NoDoc, chip |-> <<>>,
     text |-> words, out |-> <<>>, spilled |-> e]
\* The first state of the service.
LEMMA BeginningIs ==
    ASSUME NEW e \in BOOLEAN, NEW words \in [Docs -> Words]
    PROVE  LET v == Beginning(e, words)
           IN  /\ Kept(v) /\ Idle(v.st) /\ v.win = "none" /\ v.ctx = NoDoc /\ v.chip = <<>>
               /\ v.st.gen = 0
<1> DEFINE s == Untouched(e)
           v == Beginning(e, words)
<1>1. /\ s \in Engine /\ s.gen = 0 /\ s.pending = <<>> /\ s.reading = <<>> /\ s.conv = <<>>
      /\ s.convGen = 0
    BY UntouchedIs
<1> HIDE DEF s
<1>2. /\ NoCands \in Lists /\ NoSegs \in SegsType /\ NoSegs.gen = -1 /\ "none" \in Kinds
      /\ NoDoc \in Ctxs /\ <<>> \in Pieces(Printable) /\ <<>> \in Texts
    BY PiecesJoin, KeysJoin DEF NoCands, NoSegs, Lists, SegsType, Lens, Kinds, Ctxs
<1>3. v = [st |-> s, cands |-> NoCands, segs |-> NoSegs, segMode |-> e, win |-> "none",
           onKey |-> e, onSegKey |-> e, ctx |-> NoDoc, target |-> NoDoc, chip |-> <<>>,
           text |-> words, out |-> <<>>, spilled |-> e]
    BY DEF Beginning, s
<1> HIDE DEF v
<1>4. /\ v \in Service /\ v.st = s /\ v.segs = NoSegs /\ v.win = "none" /\ v.ctx = NoDoc
      /\ v.chip = <<>>
    <2> HIDE DEF NoCands, NoSegs
    <2> QED BY <1>1, <1>2, <1>3 DEF Service
<1>5. Kept(v)
    BY <1>1, <1>2, <1>4 DEF Kept, Good, Seated, Targeted
<1> QED BY <1>1, <1>4, <1>5 DEF v, Idle

------------------------------------------------------------------------------

(* Every step keeps the invariant. *)

\* The first states are in the invariant.
LEMMA SeqInitHolds == ASSUME SeqInit PROVE SeqIInv
<1> DEFINE t == [d \in Docs |-> <<>>]
<1>1. t \in [Docs -> Words]
    BY WordsJoin
<1>2. \A e \in BOOLEAN : \A x \in [Docs -> Words] :
          /\ Kept(Beginning(e, x)) /\ Idle(Beginning(e, x).st) /\ Beginning(e, x).win = "none"
          /\ Beginning(e, x).ctx = NoDoc /\ Beginning(e, x).chip = <<>>
          /\ Beginning(e, x).st.gen = 0
    BY BeginningIs
<1>3. w = Beginning(FALSE, t)
    <2>1. Empty = Untouched(FALSE)
        BY Zenon DEF Empty, Untouched
    <2> QED BY <2>1, Zenon DEF SeqInit, Beginning
<1>4. Kept(w) /\ Idle(w.st) /\ w.win = "none" /\ w.ctx = NoDoc /\ w.chip = <<>> /\ w.st.gen = 0
    <2> HIDE DEF t
    <2>1. FALSE \in BOOLEAN
        OBVIOUS
    <2> QED BY <1>1, <1>2, <1>3, <2>1, Zenon
<1>5. Sound(w, owner)
    <2>1. Typed(w.st) = <<>> /\ KeysOf(<<>>) = <<>>
        BY <1>4, FlatEmpty, WordsJoin, PiecesJoin DEF Idle, Typed
    <2> QED BY <1>4, <2>1, NoWindowIsSound DEF ChipIs
<1>6. SeqWaiting /\ SeenIsShown
    BY SeqAssumption DEF SeqInit, SeqWaiting, SeenIsShown, PostedKeys
<1>7. SeqHolds
    BY <1>1, <1>4 DEF SeqInit, SeqHolds, Owing
<1> QED BY <1>5, <1>6, <1>7 DEF SeqIInv

\* What the invariant says of the state a handler finds.
Found(n, kind) ==
    /\ Ready /\ owner \in Docs /\ Sound(Fresh, owner) /\ Sound(w, owner)
    /\ n \in ItemsOf(Fresh) /\ kind \in Kinds
\* What the invariant says to a handler.
LEMMA FoundIs ==
    ASSUME SeqIInv, NEW n \in Items, NEW kind \in WindowKinds
    PROVE  Found(n, kind)
<1>1. Ready /\ owner \in Docs /\ Sound(w, owner)
    BY ReadyIs DEF SeqIInv, SeqHolds, Ready
<1>2. Sound(Fresh, owner) /\ Fresh.cands = w.cands
    BY <1>1, FreshIs
<1>3. n \in ItemsOf(Fresh)
    BY <1>2 DEF Items, ItemsOf
<1> QED BY <1>1, <1>2, <1>3 DEF Found, Kinds

\* What is owed after a key is a ledger again.
LEMMA OwedIsOwing ==
    ASSUME SeqIInv, NEW key \in AnyKey
    PROVE  [typed EXCEPT ![owner] = Owed(@, key)] \in Owing
<1>1. w.st \in Engine /\ typed \in [Docs -> Words] /\ owner \in Docs
    BY DEF SeqIInv, SeqHolds, Sound, Kept, Good, Owing
<1>2. Owed(typed[owner], key) \in Words
    BY <1>1, OwedIs
<1> QED BY <1>1, <1>2 DEF Owing

(***************************************************************************)
(* The ledger of the states, and what keeps it: a handler that leaves the  *)
(* user's text as the key says, and no reading under a key that went on.   *)
(***************************************************************************)
Ledger == Told(w, owner, typed) /\ NoKeyOvertakesTheReading
KeepsLedger(v, owed) == Even(v, owner, owed) /\ Fits(v)

\* Output that is ours, or finds no reading: no key overtakes it.
LEMMA FitsIs ==
    ASSUME NEW v, Fits(v), w'.out = v.out, Idle(v.st) => Idle(w'.st), Idle(v.st) \/ lay' = lay
    PROVE  NoKeyOvertakesTheReading'
<1>1. ASSUME w'.out # <<>>, w'.out \in Pieces(Printable) PROVE Last(w'.out).as # "app"
    <2> DEFINE P == [keys : Seq(Printable), as : Manners]
    <2>1. w'.out \in Seq(P) /\ \A x \in P : x.as # "app"
        BY <1>1 DEF Pieces, Manners
    <2> HIDE DEF P
    <2>2. Len(w'.out) \in 1 .. Len(w'.out)
        BY <1>1, <2>1, EmptySeq, LenProperties
    <2>3. Last(w'.out) \in P
        BY <2>1, <2>2, ElementOfSeq DEF Last
    <2> QED BY <2>1, <2>3
<1>2. CASE Idle(v.st)
    BY <1>2 DEF NoKeyOvertakesTheReading, Idle
<1>3. CASE lay' = lay
    BY <1>1, <1>3 DEF Fits, NoKeyOvertakesTheReading, Idle, Styled
<1> QED BY <1>2, <1>3

\* A step that ends in v, in the same layout and document.
LEMMA StepHolds ==
    ASSUME SeqIInv, NEW v, Sound(v, owner), NEW owed \in Owing, Becomes(v, owed),
           lay' = lay, owner' = owner
    PROVE  /\ SeqHolds' /\ Sound(w, owner)' /\ IsBecome(v, owner, w')
           /\ KeepsLedger(v, owed) => Ledger'
<1>1. IsBecome(v, owner, w') /\ typed' \in Owing
    BY BecomesIs
<1>2. Sound(w, owner)'
    BY <1>1, PrimedSound DEF IsBecome
<1>3. SeqHolds'
    BY <1>1 DEF SeqIInv, SeqHolds, IsBecome
<1>4. ASSUME KeepsLedger(v, owed) PROVE Ledger'
    <2>1. Told(w', owner, typed')
        BY <1>4, EvenIsTold DEF SeqIInv, SeqHolds, KeepsLedger
    <2>2. Told(w', owner', typed')
        BY <2>1
    <2>3. NoKeyOvertakesTheReading'
        BY <1>1, <1>4, FitsIs DEF KeepsLedger, IsBecome
    <2> QED BY <2>2, <2>3 DEF Ledger, Told
<1> QED BY <1>1, <1>2, <1>3, <1>4

\* The oldest posted key and the ones after it.
LEMMA PostedIs ==
    ASSUME SeqWaiting, posted # <<>>
    PROVE  /\ Head(posted) \in [key : HookKeys, seen : Seq(Items1)] /\ Tail(posted) \in PostedKeys
           /\ Head(posted).key \in AnyKey /\ Len(Tail(posted)) = Len(posted) - 1 /\ Len(posted) \in Nat /\ Len(posted) > 0
           /\ Len(inbox) \in Nat
           /\ \A i \in 1 .. Len(Tail(posted)) : Tail(posted)[i] = posted[i + 1]
<1> DEFINE S == [key : HookKeys, seen : Seq(Items1)]
<1>1. posted \in Seq(S) /\ Len(inbox) \in Nat /\ Len(posted) \in Nat
    BY LenProperties DEF SeqWaiting, PostedKeys
<1> HIDE DEF S
<1>2. /\ Head(posted) \in S /\ Tail(posted) \in Seq(S) /\ Len(Tail(posted)) = Len(posted) - 1
      /\ \A i \in 1 .. Len(Tail(posted)) : Tail(posted)[i] = posted[i + 1]
    BY <1>1, HeadTailProperties
<1>3. Len(posted) > 0
    BY <1>1, EmptySeq
<1> QED BY <1>1, <1>2, <1>3 DEF S, PostedKeys, AnyKey

\* A key pressed: the hook posts it with the list of now.
LEMMA PressHolds == ASSUME SeqIInv, NEW key \in AnyKey, Press(key) PROVE SeqIInv'
<1>1. lay' = lay /\ owner' = owner /\ w' = w /\ typed' = typed
    BY DEF Press
<1>2. SeqHolds' /\ Sound(w, owner)'
    <2>1. Sound(w', owner')
        BY <1>1 DEF SeqIInv
    <2> QED BY <1>1, <2>1, PrimedSound DEF SeqIInv, SeqHolds
<1> DEFINE S == [key : HookKeys, seen : Seq(Items1)]
           p == [key |-> key, seen |-> w.cands.items]
<1>3. posted \in Seq(S) /\ inbox \in Seq(AnyKey) /\ Len(posted) \in Nat /\ Len(inbox) \in Nat
      /\ (key \in HookKeys => p \in S)
    BY LenProperties DEF SeqIInv, SeqWaiting, PostedKeys, Sound, Kept, Service, Lists
<1>4. CASE w.win = "own" /\ key \in HookKeys
    <2>1. posted' = Append(posted, p) /\ inbox' = inbox /\ Len(inbox) + Len(posted) < MaxWaiting
        BY <1>4 DEF Press
    <2>2. /\ posted' \in Seq(S) /\ Len(posted') = Len(posted) + 1
          /\ \A i \in 1 .. Len(posted) + 1 : posted'[i] = IF i <= Len(posted) THEN posted[i] ELSE p
        <3>1. p \in S
            BY <1>3, <1>4
        <3> HIDE DEF S, p
        <3> QED BY <1>3, <2>1, <3>1, AppendProperties
    <2>3. SeqWaiting'
        BY <1>3, <2>1, <2>2, SeqAssumption DEF SeqWaiting, PostedKeys
    <2>4. SeenIsShown'
        <3>1. \A i \in 1 .. Len(posted) : posted[i].seen = w.cands.items
            BY <1>3 DEF SeqIInv, SeenIsShown
        <3>2. \A i \in 1 .. Len(posted) + 1 : posted'[i].seen = w.cands.items
            <4>1. p.seen = w.cands.items
                OBVIOUS
            <4> HIDE DEF p, S
            <4>2. ASSUME NEW i \in 1 .. Len(posted) + 1 PROVE posted'[i].seen = w.cands.items
                <5>1. posted'[i] = IF i <= Len(posted) THEN posted[i] ELSE p
                    BY <2>2
                <5>2. CASE i <= Len(posted)
                    BY <1>3, <3>1, <5>1, <5>2
                <5>3. CASE ~(i <= Len(posted))
                    BY <4>1, <5>1, <5>3
                <5> QED BY <5>2, <5>3
            <4> QED BY <4>2
        <3> QED BY <1>1, <1>4, <2>2, <3>2 DEF SeenIsShown
    <2> QED BY <1>2, <2>3, <2>4 DEF SeqIInv
<1>5. CASE ~(w.win = "own" /\ key \in HookKeys)
    <2>1. inbox = <<>> /\ inbox' = <<key>> /\ posted' = posted /\ Len(inbox) + Len(posted) < MaxWaiting
        BY <1>5 DEF Press
    <2>2. SeqWaiting'
        BY <1>3, <2>1, SeqAssumption DEF SeqIInv, SeqWaiting
    <2>3. SeenIsShown'
        BY <1>1, <2>1 DEF SeqIInv, SeenIsShown
    <2> QED BY <1>2, <2>2, <2>3 DEF SeqIInv
<1> QED BY <1>4, <1>5

\* The owner's text is what waits for it.
LEMMA OldIs ==
    ASSUME SeqIInv, Told(w, owner, typed)
    PROVE  /\ typed[owner] \in Words /\ owner \in Docs /\ typed \in [Docs -> Words]
           /\ typed[owner] = NoSep(Typed(w.st)) /\ Whole(Fresh, owner) = typed[owner]
           /\ Fresh.text[owner] = <<>> /\ Without(typed[owner], Typed(w.st)) = <<>>
           /\ w.st \in Engine
<1> DEFINE s == Typed(w.st)
           y == NoSep(s)
<1>1. owner \in Docs /\ typed \in [Docs -> Words] /\ Sound(w, owner) /\ w.st \in Engine
    BY DEF SeqIInv, SeqHolds, Owing, Sound, Kept, Good
<1>2. /\ Fresh.text = w.text /\ Fresh.st = w.st
    BY <1>1, FreshIs
<1>3. s \in Words /\ y \in Words /\ <<>> \o y = y /\ <<>> \in Words
    BY <1>1, EngineIs, WordsAreKeys, WordsJoin
<1>4. typed[owner] = y /\ w.text[owner] = <<>>
    BY <1>1 DEF Told
<1>5. Whole(Fresh, owner) = <<>> \o y
    BY <1>2, <1>4 DEF Whole
<1>6. Without(y, s) = <<>>
    <2> HIDE DEF s, y
    <2>1. Without(<<>> \o NoSep(<<>> \o s), s) = <<>> \o NoSep(<<>>)
        BY <1>3, WithoutIs
    <2>2. <<>> \o s = s /\ <<>> \o <<>> = <<>> /\ NoSep(<<>>) = <<>>
        BY <1>3, WordsJoin, NoSepOfNone
    <2>3. <<>> \o NoSep(<<>> \o s) = y
        BY <1>3, <2>2 DEF y
    <2> QED BY <2>1, <2>2, <2>3
<1> HIDE DEF s, y
<1> QED BY <1>1, <1>2, <1>3, <1>4, <1>5, <1>6 DEF s, y

\* A handler that leaves the text x owes x.
LEMMA WritesKeep ==
    ASSUME SeqIInv, Told(w, owner, typed), NEW u, NEW x, Writes(Fresh, u, owner, x)
    PROVE  Even(u, owner, [typed EXCEPT ![owner] = x])
<1> DEFINE t == [typed EXCEPT ![owner] = x]
<1>1. owner \in Docs /\ typed \in [Docs -> Words]
    BY OldIs
<1>2. t[owner] = x /\ \A d \in Docs \ {owner} : t[d] = typed[d]
    BY <1>1
<1> HIDE DEF t
<1>3. Fresh.target = w.target /\ Fresh.text = w.text
    BY FreshIs DEF SeqIInv
<1>4. u.target \in {NoDoc, owner} /\ \A d \in Docs \ {owner} : u.text[d] = t[d]
    BY <1>2, <1>3 DEF Told, Writes
<1>5. Even(u, owner, t)
    BY <1>2, <1>4 DEF Writes, Even
<1> QED BY <1>5 DEF t

\* Output that is only ours overtakes nothing.
LEMMA OursFit ==
    ASSUME SeqIInv, NEW u, Ours(Fresh, u)
    PROVE  Fits(u) /\ u.out \in Pieces(Printable)
<1>1. Fresh.out \in Pieces(Printable)
    BY FreshIs, PiecesJoin DEF SeqIInv
<1> QED BY <1>1 DEF Ours, Fits

\* A step that only moves keys owes nothing.
LEMMA MovesKeep ==
    ASSUME SeqIInv, Told(w, owner, typed), NEW u, Moves(Fresh, u, owner)
    PROVE  KeepsLedger(u, typed)
<1>1. Whole(Fresh, owner) = typed[owner] /\ typed \in [Docs -> Words]
    BY OldIs
<1>2. Writes(Fresh, u, owner, typed[owner]) /\ Ours(Fresh, u)
    BY <1>1 DEF Moves
<1>3. [typed EXCEPT ![owner] = typed[owner]] = typed
    BY <1>1
<1>4. Even(u, owner, [typed EXCEPT ![owner] = typed[owner]])
    BY <1>2, WritesKeep
<1> QED BY <1>2, <1>3, <1>4, OursFit DEF KeepsLedger

\* What is owed for a key the window keeps.
LEMMA KeptOwed ==
    ASSUME SeqIInv, NEW key, KeptFromLayout(Fresh, key), NEW old
    PROVE  /\ TakesBack(Fresh, key) => Owed(old, key) = Without(old, Typed(w.st))
           /\ ~TakesBack(Fresh, key) => Owed(old, key) = old
<1>1. Fresh.win = w.win /\ Fresh.onKey = w.onKey /\ Fresh.onSegKey = w.onSegKey
    BY FreshIs DEF SeqIInv
<1>2. Owed(old, key) = OwedOf(old, key)
    BY OwedDef
<1>3. "esc" \notin Printable /\ "back" \notin Printable
    BY SeqAssumption
<1>4. CASE key = "back"
    BY <1>1, <1>2, <1>3, <1>4 DEF OwedOf, Offering, Editing, KeptFromLayout, TakesBack
<1>5. CASE key = "esc"
    BY <1>1, <1>2, <1>3, <1>5 DEF OwedOf, Offering, Editing, KeptFromLayout, TakesBack
<1>6. CASE key \notin {"back", "esc"}
    BY <1>1, <1>2, <1>3, <1>6 DEF OwedOf, Offering, Editing, KeptFromLayout, TakesBack
<1> QED BY <1>4, <1>5, <1>6

\* A key the window keeps leaves the text it owes.
LEMMA HandledKeeps ==
    ASSUME SeqIInv, Told(w, owner, typed), NEW key, NEW h, IsHandled(Fresh, key, owner, h),
           KeptFromLayout(Fresh, key)
    PROVE  KeepsLedger(h.v, [typed EXCEPT ![owner] = Owed(@, key)])
<1> DEFINE old == typed[owner]
           x == Owed(old, key)
<1>1. [typed EXCEPT ![owner] = Owed(@, key)] = [typed EXCEPT ![owner] = x]
    BY OldIs
<1>2. Writes(Fresh, h.v, owner, x)
    <2>1. CASE TakesBack(Fresh, key)
        <3>1. x = <<>>
            BY <2>1, KeptOwed, OldIs
        <3>2. Writes(Fresh, h.v, owner, <<>>)
            <4>1. Fresh.text[owner] = <<>>
                BY OldIs
            <4>2. Writes(Fresh, h.v, owner, Fresh.text[owner])
                BY <2>1 DEF IsHandled
            <4> QED BY <4>1, <4>2
        <3> QED BY <3>1, <3>2
    <2>2. CASE ~TakesBack(Fresh, key)
        <3>1. x = old
            BY <2>2, KeptOwed
        <3>2. Whole(Fresh, owner) = old
            BY OldIs
        <3>3. Moves(Fresh, h.v, owner)
            BY <2>2 DEF IsHandled
        <3>4. Writes(Fresh, h.v, owner, Whole(Fresh, owner))
            BY <3>3 DEF Moves
        <3> QED BY <3>1, <3>2, <3>4
    <2> QED BY <2>1, <2>2
<1> HIDE DEF x
<1>3. Even(h.v, owner, [typed EXCEPT ![owner] = x])
    BY <1>2, WritesKeep
<1>4. Fits(h.v)
    BY OursFit DEF IsHandled
<1> QED BY <1>1, <1>3, <1>4 DEF KeepsLedger

\* What is owed for a key the layout gets is what is due to the service it finds.
LEMMA DueIsOwed ==
    ASSUME SeqIInv, NEW key, NEW v, LeftToLayout(Fresh, key, v), w.win # "own" => v = Fresh
    PROVE  Due(v, key) = Owed(Whole(v, owner), key)
<1> DEFINE old == Whole(v, owner)
<1>1. /\ Fresh.win = w.win /\ Fresh.onKey = w.onKey /\ Fresh.onSegKey = w.onSegKey
      /\ Fresh.st = w.st /\ Sound(Fresh, owner)
    BY FreshIs DEF SeqIInv
<1>2. Owed(old, key) = OwedOf(old, key)
    BY OwedDef
<1>3. "esc" \notin Printable /\ "back" \notin Printable
    BY SeqAssumption
<1>4. v.st.pending = w.st.pending /\ (lay.zh => v.st.reading = w.st.reading)
    BY <1>1 DEF LeftToLayout, SameKeys
<1>5. w.win # "own" => v.st = w.st
    BY <1>1
<1>6. w.win = "own" /\ w.onKey => lay.zh
    BY <1>1, OwnChip DEF Listing
<1> HIDE DEF old
<1>7. CASE key = "back"
    <2>1. ~Offering /\ ~Editing
        BY <1>1, <1>7 DEF Offering, Editing, LeftToLayout, EditKeys
    <2>2. LastWaiting(v.st) = LastWaiting(w.st)
        <3>1. v.st.reading = w.st.reading
            BY <1>4, <1>5, <1>6, <2>1 DEF Offering
        <3> QED BY <1>4, <3>1 DEF LastWaiting
    <2> QED BY <1>2, <1>7, <2>1, <2>2 DEF Due, OwedOf, old
<1>8. CASE key = "esc"
    <2>1. w.win # "own"
        BY <1>1, <1>8 DEF LeftToLayout
    <2> QED BY <1>2, <1>5, <1>8, <2>1 DEF Due, OwedOf, Offering, old
<1>9. CASE key \notin {"back", "esc"} /\ key \notin Printable
    BY <1>2, <1>9 DEF Due, OwedOf, old
<1>10. CASE key \in Printable
    <2>1. ~(Offering /\ ~Editing)
        BY <1>1 DEF Offering, Editing, LeftToLayout
    <2>2. Drops(lay, v.st, key) <=> Drops(lay, w.st, key)
        BY <1>4 DEF Drops
    <2>3. Refuses(lay, v.st, key) <=> Refuses(lay, w.st, key)
        BY <1>4 DEF Refuses, IsVMode
    <2> QED BY <1>2, <1>3, <1>4, <1>10, <2>1, <2>2, <2>3 DEF Due, OwedOf, old
<1> QED BY <1>7, <1>8, <1>9, <1>10 DEF old

\* Nothing is posted, nothing pressed.
LEMMA NothingPosted == <<>> \in PostedKeys /\ <<>> \in Seq(AnyKey) /\ Len(<<>>) = 0
BY DEF PostedKeys

\* A posted key handled.
LEMMA HandlePostedHolds ==
    ASSUME SeqIInv, NEW n \in Items, NEW cut, NEW kind \in WindowKinds, HandlePosted(n, cut, kind)
    PROVE  SeqIInv' /\ (Ledger => Ledger')
<1> DEFINE key == Head(posted).key
           h == HandleKey(Fresh, key, n, cut, kind)
           owed == [typed EXCEPT ![owner] = Owed(@, key)]
<1>1. posted # <<>> /\ lay' = lay /\ owner' = owner /\ inbox' = inbox
    BY DEF HandlePosted
<1>2. Becomes(h.v, owed) /\ posted' = StillPosted(h)
    BY DEF HandlePosted
<1>3. /\ key \in AnyKey /\ key \in HookKeys /\ Tail(posted) \in PostedKeys /\ Len(Tail(posted)) = Len(posted) - 1
      /\ Len(posted) \in Nat /\ Len(posted) > 0 /\ Len(inbox) \in Nat
      /\ \A i \in 1 .. Len(Tail(posted)) : Tail(posted)[i] = posted[i + 1]
    BY <1>1, PostedIs DEF SeqIInv
<1> HIDE DEF key, h
<1>4. IsHandled(Fresh, key, owner, h)
    BY FoundIs, HandleKeyIs DEF Found, h
<1>5. owed \in Owing
    BY <1>3, OwedIsOwing
<1>9. ASSUME Ledger PROVE KeepsLedger(h.v, owed)
    <2>1. key \notin Printable /\ key # "back"
        BY <1>3, PrintableKeys DEF HookKeys
    <2>2. Fresh.win = "own"
        BY <1>1, FreshIs DEF SeqIInv, SeenIsShown
    <2>3. KeptFromLayout(Fresh, key)
        BY <2>1, <2>2 DEF KeptFromLayout
    <2> QED BY <1>4, <1>9, <2>3, HandledKeeps DEF Ledger
<1> HIDE DEF owed
<1>6. /\ SeqHolds' /\ Sound(w, owner)' /\ IsBecome(h.v, owner, w')
      /\ Ledger => Ledger'
    BY <1>1, <1>2, <1>4, <1>5, <1>9, StepHolds DEF IsHandled
<1>7. SeqWaiting'
    <2>1. posted' = <<>> \/ posted' = Tail(posted)
        BY <1>2 DEF StillPosted
    <2>2. Len(inbox) + Len(posted) <= MaxWaiting /\ inbox' \in Seq(AnyKey)
        BY <1>1 DEF SeqIInv, SeqWaiting
    <2>3. posted' \in PostedKeys /\ Len(posted') <= Len(posted)
        <3>1. CASE posted' = <<>>
            <4>1. Len(posted') = 0 /\ posted' \in PostedKeys
                BY <3>1, NothingPosted
            <4> QED BY <1>3, <4>1
        <3>2. CASE posted' = Tail(posted)
            <4>1. Len(posted') = Len(posted) - 1 /\ posted' \in PostedKeys
                BY <1>3, <3>2
            <4> QED BY <1>3, <4>1
        <3> QED BY <2>1, <3>1, <3>2
    <2>4. Len(posted') \in Nat
        <3>1. Len(Tail(posted)) \in Nat
            BY <1>3
        <3> QED BY <2>1, <3>1, NothingPosted
    <2>5. Len(inbox') + Len(posted') <= MaxWaiting
        <3>1. Len(inbox) \in Nat /\ Len(posted) \in Nat /\ MaxWaiting \in Nat /\ inbox' = inbox
            BY <1>1, <1>3, SeqAssumption
        <3> QED BY <2>2, <2>3, <2>4, <3>1
    <2> QED BY <2>2, <2>3, <2>5 DEF SeqWaiting
<1>8. SeenIsShown'
    <2> SUFFICES ASSUME posted' # <<>> PROVE w'.win = "own" /\ \A i \in 1 .. Len(posted') : posted'[i].seen = w'.cands.items
        BY DEF SeenIsShown
    <2>1. posted' = Tail(posted) /\ ~h.hidden
        BY <1>2 DEF StillPosted
    <2>2. h.v.win = w.win /\ h.v.cands = w.cands
        BY <1>4, <2>1, FreshIs DEF IsHandled, SeqIInv
    <2>3. w.win = "own" /\ \A i \in 1 .. Len(posted) : posted[i].seen = w.cands.items
        BY <1>1 DEF SeqIInv, SeenIsShown
    <2>4. w'.win = "own" /\ w'.cands.items = w.cands.items
        BY <1>6, <2>2, <2>3 DEF IsBecome
    <2>5. ASSUME NEW i \in 1 .. Len(posted') PROVE posted'[i].seen = w.cands.items
        <3>1. i \in 1 .. Len(Tail(posted)) /\ i + 1 \in 1 .. Len(posted)
            BY <1>3, <2>1
        <3>2. posted'[i] = posted[i + 1]
            BY <1>3, <2>1, <3>1
        <3> QED BY <2>3, <3>1, <3>2
    <2> QED BY <2>4, <2>5
<1> QED BY <1>6, <1>7, <1>8 DEF SeqIInv

Stepped(key, u) ==
    /\ Sound(u, owner)
    /\ Ledger => KeepsLedger(u, [typed EXCEPT ![owner] = Owed(@, key)])

\* A key of the input queue that the window keeps.
LEMMA KeptByWindow ==
    ASSUME SeqIInv, NEW key, NEW h, IsHandled(Fresh, key, owner, h), key \in h.taken
    PROVE  Stepped(key, h.v)
<1>1. KeptFromLayout(Fresh, key) /\ Sound(h.v, owner)
    BY DEF IsHandled
<1> QED BY <1>1, HandledKeeps DEF Stepped, Ledger

\* A key the layout gets.
LEMMA LeftIsStepped ==
    ASSUME SeqIInv, NEW key \in AnyKey, NEW h, IsHandled(Fresh, key, owner, h), key \notin h.taken,
           w.win # "own" => h.v = Fresh, NEW d, IsDown(h.v, key, d)
    PROVE  Stepped(key, Outcome(d, key))
<1> DEFINE u == Outcome(d, key)
           x == Owed(typed[owner], key)
<1>1. Ready /\ owner \in Docs
    BY ReadyIs DEF SeqIInv, SeqHolds, Ready
<1>2. Sound(u, owner) /\ IsDue(h.v, key, u)
    BY <1>1, OutcomeIs DEF IsHandled
<1> HIDE DEF u
<1>3. ASSUME Ledger PROVE KeepsLedger(u, [typed EXCEPT ![owner] = Owed(@, key)])
    <2>1. LeftToLayout(Fresh, key, h.v)
        BY DEF IsHandled
    <2>2. Moves(Fresh, h.v, owner)
        BY <2>1 DEF LeftToLayout, TakesBack, IsHandled
    <2>3. Writes(h.v, u, owner, Due(h.v, key)) /\ (h.v.out \in Pieces(Printable) => Fits(u))
        BY <1>2 DEF IsDue
    <2>4. Due(h.v, key) = Owed(Whole(h.v, owner), key)
        BY <2>1, DueIsOwed
    <2>5. Writes(Fresh, u, owner, Due(h.v, key))
        BY <2>2, <2>3, MovesThenWrites
    <2>6. Whole(Fresh, owner) = typed[owner]
        BY <1>3, OldIs DEF Ledger
    <2>7. Writes(Fresh, u, owner, x)
        <3>1. CASE h.v.spilled
            <4>1. u.spilled
                BY <2>3, <3>1 DEF Writes
            <4> QED BY <2>5, <4>1 DEF Writes
        <3>2. CASE ~h.v.spilled
            <4>1. Whole(h.v, owner) = typed[owner]
                BY <2>2, <2>6, <3>2 DEF Moves, Writes
            <4> QED BY <2>4, <2>5, <4>1
        <3> QED BY <3>1, <3>2
    <2>8. [typed EXCEPT ![owner] = Owed(@, key)] = [typed EXCEPT ![owner] = x]
        BY <1>3, OldIs DEF Ledger
    <2> HIDE DEF x
    <2>9. Even(u, owner, [typed EXCEPT ![owner] = x])
        BY <1>3, <2>7, WritesKeep DEF Ledger
    <2>10. Fits(u)
        <3>1. h.v.out \in Pieces(Printable)
            BY <2>2, OursFit DEF Moves
        <3> QED BY <2>3, <3>1
    <2> QED BY <2>8, <2>9, <2>10 DEF KeepsLedger
<1> QED BY <1>2, <1>3 DEF Stepped, u

\* Pending keys flushed before an application's shortcut, or nothing at all; then the
\* shortcut itself.
LEMMA ShortcutIsStepped ==
    ASSUME SeqIInv, NEW v, Sound(v, owner), Moves(Fresh, v, owner), "app" \in AnyKey
    PROVE  Stepped("app", Insert(v, owner, InApp("app")))
<1> DEFINE key == "app"
           u == Insert(v, owner, InApp(key))
           x == Owed(typed[owner], key)
<1>1. Ready /\ owner \in Docs
    BY ReadyIs DEF SeqIInv, SeqHolds, Ready
<1>2. IsInserted(v, key, u)
    BY <1>1, InsertIsSound
<1>3. key \notin Printable
    BY SeqAssumption
<1> HIDE DEF u
<1>4. ASSUME Ledger PROVE KeepsLedger(u, [typed EXCEPT ![owner] = Owed(@, key)])
    <2>1. Writes(v, u, owner, Whole(v, owner) \o NoSep(<<key>>))
        BY <1>2, <1>3 DEF IsInserted
    <2>2. Whole(v, owner) \o NoSep(<<key>>) = Whole(v, owner)
        <3>1. NoSep(<<key>>) = <<>>
            BY <1>3, NoText
        <3>2. v.text[owner] \in Words /\ v.st \in Engine
            BY <1>1 DEF Sound, Kept, Good, Service
        <3>3. NoSep(Typed(v.st)) \in Words
            BY <3>2, EngineIs, NoSepWords
        <3>4. Whole(v, owner) \in Words
            BY <3>2, <3>3, WordsJoin DEF Whole
        <3> QED BY <3>1, <3>4, WordsJoin
    <2>3. Writes(Fresh, u, owner, Whole(Fresh, owner))
        BY <2>1, <2>2 DEF Moves, Writes
    <2>4. Whole(Fresh, owner) = typed[owner]
        BY <1>4, OldIs DEF Ledger
    <2>5. x = typed[owner]
        BY <1>3, OwedDef DEF OwedOf
    <2>6. [typed EXCEPT ![owner] = Owed(@, key)] = [typed EXCEPT ![owner] = x]
        BY <1>4, OldIs DEF Ledger
    <2> HIDE DEF x
    <2>7. Even(u, owner, [typed EXCEPT ![owner] = x])
        BY <1>4, <2>3, <2>4, <2>5, WritesKeep DEF Ledger
    <2>8. Fits(u)
        BY <1>2 DEF IsInserted, Fits
    <2> QED BY <2>6, <2>7, <2>8 DEF KeepsLedger
<1>5. Sound(u, owner)
    BY <1>2 DEF IsInserted
<1> QED BY <1>4, <1>5 DEF Stepped, u

\* A key of the input queue, whoever takes it, leaves the text it owes.
LEMMA AfterWindowIs ==
    ASSUME SeqIInv, NEW key \in AnyKey, NEW n \in Items, NEW cut, NEW kind \in WindowKinds
    PROVE  Stepped(key, Outcome(AfterWindow(HandleKey(Fresh, key, n, cut, kind), key, cut, kind), key))
<1> DEFINE h == HandleKey(Fresh, key, n, cut, kind)
           r == SeqKb_Flush(lay, w.st)
           a == ApplyResult(Fresh, owner, r)
           d == AfterWindow(h, key, cut, kind)
<1>1. Found(n, kind) /\ Fresh.win = w.win
    BY FoundIs, FreshIs DEF SeqIInv
<1>2. IsHandled(Fresh, key, owner, h)
    BY <1>1, HandleKeyIs DEF Found
<1>0. w.win # "own" => h.v = Fresh
    BY <1>1 DEF HandleKey
<1> HIDE DEF h
<1>3. Sound(h.v, owner)
    BY <1>2 DEF IsHandled
<1>4. CASE key \in h.taken
    <2>1. Outcome(d, key) = h.v
        BY <1>4 DEF AfterWindow, Took, Outcome
    <2> QED BY <1>2, <1>4, <2>1, KeptByWindow DEF h
<1>5. CASE key \notin h.taken /\ key # "app"
    <2>1. d = OnKeyDown(h.v, key, cut, kind)
        BY <1>5 DEF AfterWindow
    <2>2. OpenToKeys(h.v, key)
        BY <1>2, <1>5 DEF IsHandled, LeftToLayout
    <2>3. IsDown(h.v, key, d)
        BY <1>1, <1>3, <2>1, <2>2, OnKeyDownIs DEF Found
    <2> HIDE DEF d
    <2>4. Stepped(key, Outcome(d, key))
        BY <1>0, <1>2, <1>5, <2>3, LeftIsStepped
    <2> QED BY <2>4 DEF d, h
<1>6. CASE key \notin h.taken /\ key = "app"
    <2> DEFINE v == IF w.win = "none" /\ w.st.pending # <<>> THEN a ELSE h.v
    <2>1. Outcome(d, key) = Insert(v, owner, InApp("app"))
        BY <1>6 DEF AfterWindow, NotTaken, Outcome
    <2>2. Sound(v, owner) /\ Moves(Fresh, v, owner)
        <3>1. CASE w.win = "none" /\ w.st.pending # <<>>
            <4>1. /\ Ready /\ owner \in Docs /\ Kept(Fresh) /\ Fresh.st = w.st /\ Fresh.win = "none"
                  /\ Fresh.ctx = NoDoc /\ Good(lay, w.st)
                BY <1>1, <3>1, FreshIs DEF Found, Sound, Home, Kept
            <4>2. Step(lay, Fresh.st, r) /\ After(r) = Typed(Fresh.st)
                BY <4>1, FlushIs, FlushLedger DEF IsFlush, Ready
            <4> HIDE DEF r
            <4>3. IsAnswered(Fresh, owner, r, a)
                BY <4>1, <4>2, ApplyResultIs DEF Ctxs
            <4> HIDE DEF a
            <4>4. Kept(a) /\ ChipIs(a) /\ a.win = "none" /\ a.ctx = NoDoc
                BY <4>1, <4>3 DEF IsAnswered, SameWindow, Ready
            <4>5. Writes(Fresh, a, owner, Fresh.text[owner] \o NoSep(After(r))) /\ Ours(Fresh, a)
                BY <4>1, <4>2, <4>3, AnsweredWrites DEF Ready
            <4>6. Moves(Fresh, a, owner)
                BY <4>2, <4>5 DEF Moves, Whole
            <4> QED BY <3>1, <4>4, <4>6, NoWindowIsSound
        <3>2. CASE ~(w.win = "none" /\ w.st.pending # <<>>)
            <4>1. Moves(Fresh, h.v, owner)
                BY <1>2, <1>6 DEF IsHandled, TakesBack
            <4>2. v = h.v
                BY <3>2
            <4> QED BY <1>3, <4>1, <4>2
        <3> QED BY <3>1, <3>2
    <2> HIDE DEF v, d
    <2>3. Stepped("app", Insert(v, owner, InApp("app")))
        BY <1>6, <2>2, ShortcutIsStepped
    <2> QED BY <1>6, <2>1, <2>3 DEF d, h
<1> QED BY <1>4, <1>5, <1>6

\* A key of the input queue handled.
LEMMA HandleKeyDownHolds ==
    ASSUME SeqIInv, NEW n \in Items, NEW cut, NEW kind \in WindowKinds, HandleKeyDown(n, cut, kind)
    PROVE  SeqIInv' /\ (Ledger => Ledger')
<1> DEFINE key == Head(inbox)
           d == AfterWindow(HandleKey(Fresh, key, n, cut, kind), key, cut, kind)
           u == Outcome(d, key)
           owed == [typed EXCEPT ![owner] = Owed(@, key)]
<1>1. /\ inbox # <<>> /\ posted = <<>> /\ lay' = lay /\ owner' = owner /\ posted' = posted
      /\ inbox' = Tail(inbox) /\ Becomes(u, owed)
    BY DEF HandleKeyDown, Outcome
<1>2. /\ key \in AnyKey /\ Tail(inbox) \in Seq(AnyKey) /\ Len(Tail(inbox)) = Len(inbox) - 1
      /\ Len(inbox) \in Nat /\ Len(posted) = 0
    BY <1>1, HeadTailProperties, LenProperties DEF SeqIInv, SeqWaiting
<1> HIDE DEF key
<1>3. Stepped(key, u)
    BY <1>2, AfterWindowIs
<1> HIDE DEF u
<1>4. Sound(u, owner) /\ (Ledger => KeepsLedger(u, owed))
    BY <1>3 DEF Stepped
<1>5. owed \in Owing
    BY <1>2, OwedIsOwing
<1> HIDE DEF owed
<1>6. SeqHolds' /\ Sound(w, owner)' /\ (Ledger => Ledger')
    BY <1>1, <1>4, <1>5, StepHolds
<1>7. SeqWaiting' /\ SeenIsShown'
    <2>1. Len(inbox) + Len(posted) <= MaxWaiting /\ MaxWaiting \in Nat
        BY SeqAssumption DEF SeqIInv, SeqWaiting
    <2>2. posted' \in PostedKeys /\ Len(posted') = 0
        BY <1>1, NothingPosted
    <2> QED BY <1>1, <1>2, <2>1, <2>2 DEF SeqWaiting, SeenIsShown
<1> QED BY <1>6, <1>7 DEF SeqIInv

\* A step that takes the posted keys away with the window.
LEMMA DroppedHolds ==
    ASSUME SeqIInv, posted' = <<>>, inbox' \in {inbox, <<>>}
    PROVE  SeqWaiting' /\ SeenIsShown'
<1>1. inbox \in Seq(AnyKey) /\ Len(inbox) \in Nat /\ Len(posted) \in Nat
      /\ Len(inbox) + Len(posted) <= MaxWaiting /\ MaxWaiting \in Nat
    BY LenProperties, SeqAssumption DEF SeqIInv, SeqWaiting, PostedKeys
<1>2. SeqWaiting'
    <2>1. Len(inbox') \in Nat /\ Len(inbox') <= Len(inbox) /\ inbox' \in Seq(AnyKey)
        <3>1. CASE inbox' = inbox
            BY <1>1, <3>1
        <3>2. CASE inbox' = <<>>
            <4>1. Len(inbox') = 0 /\ inbox' \in Seq(AnyKey)
                BY <3>2, NothingPosted
            <4> QED BY <1>1, <4>1
        <3> QED BY <3>1, <3>2
    <2>2. posted' \in PostedKeys /\ Len(posted') = 0
        BY NothingPosted
    <2>3. Len(inbox') + Len(posted') <= MaxWaiting
        BY <1>1, <2>1, <2>2
    <2> QED BY <2>1, <2>2, <2>3 DEF SeqWaiting
<1> QED BY <1>2 DEF SeenIsShown

\* An item clicked.
LEMMA ClickHolds ==
    ASSUME SeqIInv, NEW n \in Items, NEW kind \in WindowKinds, Click(n, kind)
    PROVE  SeqIInv' /\ (Ledger => Ledger')
<1> DEFINE u == OnSelected(Fresh, n, kind)
<1>1. w.win = "own" /\ Becomes(u, typed) /\ posted' = <<>> /\ lay' = lay /\ owner' = owner /\ inbox' = inbox
    BY DEF Click
<1>2. Found(n, kind) /\ Fresh.win = w.win
    BY FoundIs, FreshIs DEF SeqIInv
<1>3. Sound(u, owner) /\ Moves(Fresh, u, owner)
    BY <1>1, <1>2, OnSelectedIs DEF Found
<1> HIDE DEF u
<1>5. Ledger => KeepsLedger(u, typed)
    BY <1>3, MovesKeep DEF Ledger
<1>4. SeqHolds' /\ Sound(w, owner)' /\ (Ledger => Ledger')
    BY <1>1, <1>3, <1>5, StepHolds DEF SeqIInv, SeqHolds
<1> QED BY <1>1, <1>4, DroppedHolds DEF SeqIInv

\* The window closed by its button, or with its owner.
LEMMA CloseWindowHolds == ASSUME SeqIInv, CloseWindow PROVE SeqIInv' /\ (Ledger => Ledger')
<1> DEFINE u == CancelWindow(Fresh)
<1>1. w.win = "own" /\ Becomes(u, typed) /\ posted' = <<>> /\ lay' = lay /\ owner' = owner /\ inbox' = inbox
    BY DEF CloseWindow
<1>2. Ready /\ Sound(Fresh, owner) /\ Fresh.win = "own"
    BY <1>1, FreshIs, ReadyIs DEF SeqIInv, SeqHolds, Ready
<1>3. Sound(u, owner) /\ Moves(Fresh, u, owner)
    <2>1. Kept(Fresh) /\ ChipIs(Fresh) /\ Fresh.ctx = owner
        BY <1>2, OwnChip DEF Sound
    <2>2. Sound(u, owner) /\ Quiet(Fresh, u, owner)
        BY <1>2, <2>1, CancelWindowIs
    <2> QED BY <2>2, QuietMoves
<1> HIDE DEF u
<1>5. Ledger => KeepsLedger(u, typed)
    BY <1>3, MovesKeep DEF Ledger
<1>4. SeqHolds' /\ Sound(w, owner)' /\ (Ledger => Ledger')
    BY <1>1, <1>3, <1>5, StepHolds DEF SeqIInv, SeqHolds
<1> QED BY <1>1, <1>4, DroppedHolds DEF SeqIInv

------------------------------------------------------------------------------
(* Boundaries keep them, and the theorems. *)

\* A boundary: what waits is committed, and everything folded.
LEMMA FoldedAt ==
    ASSUME SeqIInv, NEW d \in Ctxs
    PROVE  LET u == FlushTo(Fresh, d)
           IN  IsFlushedTo(Fresh, d, u) /\ IsFolded(u, FoldInput(u)) /\ Ready
<1> DEFINE u == FlushTo(Fresh, d)
<1>1. Ready /\ w.st.gen = 0 /\ Sound(w, owner)
    BY ReadyIs DEF SeqIInv, SeqHolds, Ready
<1>2. /\ Sound(Fresh, owner) /\ Fresh.st = w.st /\ Fresh.win = w.win /\ Fresh.segs = w.segs
      /\ Fresh.segMode = w.segMode /\ Fresh.ctx = w.ctx
    BY <1>1, FreshIs
<1>3. IsFlushedTo(Fresh, d, u)
    BY <1>1, <1>2, FlushToIs DEF Sound
<1> HIDE DEF u
<1>4. u \in Service /\ SameWindow(Fresh, u) /\ 0 <= u.st.gen
    BY <1>1, <1>2, <1>3 DEF IsFlushedTo
<1>5. u.segMode => u.segs.gen <= u.st.gen
    <2>1. u.segMode => u.segs.gen <= 0
        BY <1>1, <1>2, <1>4 DEF Sound, Kept, Seated, SameWindow
    <2>2. u.segs.gen \in Int /\ u.st.gen \in Int
        BY <1>4 DEF Service, SegsType, Engine
    <2> QED BY <1>4, <2>1, <2>2
<1>6. u.win = "none" => u.ctx = NoDoc
    BY <1>1, <1>2, <1>4 DEF Sound, Home, SameWindow
<1>7. u.st.gen >= 0
    <2>1. u.st.gen \in Int
        BY <1>4 DEF Service, Engine
    <2> QED BY <1>4, <2>1
<1>8. IsFolded(u, FoldInput(u))
    BY <1>1, <1>4, <1>5, <1>6, <1>7, FoldInputIs
<1> QED BY <1>1, <1>3, <1>8 DEF u

\* Folding brings what waited to the document it waited for: nothing is owed.
LEMMA FoldedIsEven ==
    ASSUME SeqIInv, Told(w, owner, typed), NEW d \in {owner, w.target}, NEW o \in Docs, NEW u, NEW f,
           IsFlushedTo(Fresh, d, u), IsFolded(u, f), Ready
    PROVE  Even(f, o, typed)
<1> DEFINE y == NoSep(Typed(w.st))
<1>1. /\ y \in Words /\ <<>> \o y = y /\ <<>> \in Words
      /\ \A x \in Docs : w.text[x] = <<>> /\ typed[x] = IF x = owner THEN y ELSE <<>>
    <2>1. w.st \in Engine
        BY OldIs
    <2> QED BY <2>1, EngineIs, WordsAreKeys, WordsJoin DEF Told
<1>2. Fresh.text = w.text /\ Fresh.st = w.st /\ Sound(w, owner)
    BY FreshIs DEF SeqIInv
<1>3. \A x \in Docs : u.text[x] = IF x = d THEN <<>> \o y ELSE <<>>
    BY <1>1, <1>2 DEF IsFlushedTo, Commits
<1>4. ASSUME NEW x \in Docs PROVE f.text[x] = typed[x]
    <2>1. f.text[x] = IF x = d THEN y ELSE <<>>
        BY <1>1, <1>3 DEF IsFolded
    <2>2. CASE d = owner
        BY <1>1, <2>1, <2>2
    <2>3. CASE d # owner
        <3>1. w.target = NoDoc /\ d = NoDoc /\ NoDoc \notin Docs
            BY <2>3 DEF Told, Ready
        <3>2. y = <<>>
            BY <1>2, <3>1, NoneWaits, NoSepOfNone
        <3> QED BY <1>1, <2>1, <3>2
    <2> QED BY <2>2, <2>3
<1>5. Whole(f, o) = typed[o]
    <2>1. Typed(f.st) = <<>>
        BY IdleIs DEF IsFolded, Kept, Good
    <2>2. f.text[o] = typed[o] /\ f.text[o] \in Words
        BY <1>4 DEF IsFolded, Kept, Service
    <2>3. Whole(f, o) = f.text[o] \o <<>>
        BY <2>1, NoSepOfNone DEF Whole
    <2> QED BY <2>2, <2>3, WordsJoin
<1> QED BY <1>4, <1>5 DEF Even, IsFolded

\* So the ledgers agree in whatever document follows.
LEMMA FoldedIsTold ==
    ASSUME SeqIInv, Ledger, NEW d \in {owner, w.target}, NEW o \in Docs,
           Becomes(FoldInput(FlushTo(Fresh, d)), typed)
    PROVE  Told(w', o, typed') /\ NoKeyOvertakesTheReading'
<1> DEFINE u == FlushTo(Fresh, d)
           f == FoldInput(u)
<1>1. d \in Ctxs /\ typed \in Owing
    BY DEF SeqIInv, SeqHolds, Sound, Kept, Service, Ctxs
<1>2. IsFlushedTo(Fresh, d, u) /\ IsFolded(u, f) /\ Ready
    BY <1>1, FoldedAt
<1>3. Becomes(f, typed)
    OBVIOUS
<1> HIDE DEF u, f
<1>4. Sound(f, o)
    BY <1>2, FoldedIsSound
<1>5. Even(f, o, typed)
    BY <1>2, FoldedIsEven DEF Ledger
<1>6. Told(w', o, typed')
    BY <1>1, <1>3, <1>4, <1>5, EvenIsTold
<1>7. IsBecome(f, o, w') /\ Fits(f) /\ Idle(f.st)
    BY <1>1, <1>2, <1>3, <1>4, BecomesIs DEF IsFolded, Fits
<1> QED BY <1>6, <1>7, FitsIs DEF IsBecome

\* Another document gets the focus.
LEMMA FocusToHolds == ASSUME SeqIInv, NEW d \in Docs, FocusTo(d) PROVE SeqIInv' /\ (Ledger => Ledger')
<1> DEFINE u == FlushTo(Fresh, w.target)
           f == FoldInput(u)
<1>1. owner' = d /\ Becomes(f, typed) /\ inbox' = <<>> /\ posted' = <<>> /\ lay' = lay
    BY DEF FocusTo
<1>2. Ready /\ IsFolded(u, f)
    BY FoldedAt DEF SeqIInv, Sound, Kept, Service
<1> HIDE DEF u, f
<1>3. Sound(f, d)
    BY <1>2, FoldedIsSound
<1>4. IsBecome(f, d, w') /\ typed' \in Owing
    BY <1>1, <1>3, BecomesIs DEF SeqIInv, SeqHolds
<1>5. Sound(w, owner)'
    BY <1>1, <1>4, PrimedSound DEF IsBecome
<1>6. SeqHolds'
    BY <1>1, <1>4 DEF SeqIInv, SeqHolds, IsBecome
<1>7. ASSUME Ledger PROVE Ledger'
    <2>1. Told(w', d, typed') /\ NoKeyOvertakesTheReading'
        BY <1>1, <1>7, FoldedIsTold DEF u, f
    <2> QED BY <1>1, <2>1 DEF Ledger, Told
<1> QED BY <1>1, <1>5, <1>6, <1>7, DroppedHolds DEF SeqIInv

\* Another layout, by a key or from outside.
LEMMA SwitchLayoutHolds ==
    ASSUME SeqIInv, NEW l \in SeqLayouts, SwitchLayout(l)
    PROVE  SeqIInv' /\ (Ledger => Ledger')
<1>1. PICK d \in {owner, w.target} : d \in Ctxs /\ Becomes(FoldInput(FlushTo(Fresh, d)), typed)
    <2>1. owner \in Ctxs /\ w.target \in Ctxs
        BY DEF SeqIInv, SeqHolds, Sound, Kept, Service, Ctxs
    <2> QED BY <2>1 DEF SwitchLayout
<1>2. lay' = l /\ posted' = <<>> /\ owner' = owner /\ inbox' = inbox
    BY DEF SwitchLayout
<1> DEFINE u == FlushTo(Fresh, d)
           f == FoldInput(u)
<1>3. Ready /\ IsFolded(u, f)
    BY <1>1, FoldedAt
<1>4. Becomes(f, typed)
    BY <1>1
<1> HIDE DEF u, f
<1>5. Sound(f, owner)
    BY <1>3, FoldedIsSound
<1>6. IsBecome(f, owner, w') /\ typed' \in Owing
    BY <1>4, <1>5, BecomesIs DEF SeqIInv, SeqHolds
<1>7. Sound(w, owner)'
    BY <1>3, <1>6, PrimedFolded DEF IsBecome, IsFolded, Sound
<1>8. SeqHolds'
    BY <1>2, <1>6 DEF SeqIInv, SeqHolds, IsBecome
<1>9. ASSUME Ledger PROVE Ledger'
    <2>1. owner \in Docs
        BY DEF SeqIInv, SeqHolds
    <2>2. Told(w', owner, typed') /\ NoKeyOvertakesTheReading'
        BY <1>1, <1>9, <2>1, FoldedIsTold
    <2>3. Told(w', owner', typed')
        BY <1>2, <2>2
    <2> QED BY <2>2, <2>3 DEF Ledger, Told
<1> QED BY <1>2, <1>7, <1>8, <1>9, DroppedHolds DEF SeqIInv

\* Every step keeps the invariant, and with it the ledger.
LEMMA SeqNextHolds ==
    ASSUME SeqIInv, [SeqNext]_seqVars
    PROVE  SeqIInv' /\ (Ledger => Ledger')
<1> DEFINE Goal == SeqIInv' /\ (Ledger => Ledger')
<1>1. CASE UNCHANGED seqVars
    <2>1. lay' = lay /\ w' = w /\ owner' = owner /\ inbox' = inbox /\ posted' = posted /\ typed' = typed
        BY <1>1 DEF seqVars
    <2>2. Sound(w', owner')
        BY <2>1 DEF SeqIInv
    <2>3. Sound(w, owner)'
        BY <2>1, <2>2, PrimedSound
    <2>4. SeqIInv'
        BY <2>1, <2>3 DEF SeqIInv, SeqHolds, SeqWaiting, SeenIsShown
    <2>5. Ledger => Ledger'
        BY <2>1 DEF Ledger, Told, NoKeyOvertakesTheReading, Idle, Styled
    <2> QED BY <2>4, <2>5
<1>2. ASSUME NEW key \in AnyKey, Press(key) PROVE Goal
    <2>1. SeqIInv'
        BY <1>2, PressHolds
    <2>2. w' = w /\ owner' = owner /\ typed' = typed /\ lay' = lay
        BY <1>2 DEF Press
    <2>3. Ledger => Ledger'
        BY <2>2 DEF Ledger, Told, NoKeyOvertakesTheReading, Idle, Styled
    <2> QED BY <2>1, <2>3
<1>3. ASSUME NEW n \in Items, NEW cut \in Cuts, NEW kind \in WindowKinds, HandlePosted(n, cut, kind)
      PROVE  Goal
    BY <1>3, HandlePostedHolds
<1>4. ASSUME NEW n \in Items, NEW cut \in Cuts, NEW kind \in WindowKinds, HandleKeyDown(n, cut, kind)
      PROVE  Goal
    BY <1>4, HandleKeyDownHolds
<1>5. ASSUME NEW n \in Items, NEW kind \in WindowKinds, Click(n, kind) PROVE Goal
    BY <1>5, ClickHolds
<1>6. ASSUME CloseWindow PROVE Goal
    BY <1>6, CloseWindowHolds
<1>7. ASSUME NEW d \in Docs, FocusTo(d) PROVE SeqIInv' /\ (Ledger => Ledger')
    BY <1>7, FocusToHolds
<1>8. ASSUME NEW l \in SeqLayouts, SwitchLayout(l) PROVE Goal
    BY <1>8, SwitchLayoutHolds
<1> QED BY <1>1, <1>2, <1>3, <1>4, <1>5, <1>6, <1>7, <1>8 DEF SeqNext

\* In the first states the ledgers agree: nothing is typed.
LEMMA SeqInitTold == ASSUME SeqInit, SeqIInv PROVE Ledger
<1>1. Told(w, owner, typed)
    <2>1. NoSep(Typed(w.st)) = <<>>
        <3>1. Typed(w.st) = <<>>
            BY FlatEmpty, WordsJoin DEF SeqInit, Empty, Typed
        <3> QED BY <3>1, NoSepOfNone
    <2> QED BY <2>1 DEF SeqInit, Told
<1>2. NoKeyOvertakesTheReading
    BY DEF SeqInit, NoKeyOvertakesTheReading
<1> QED BY <1>1, <1>2 DEF Ledger

\* The invariant, of every behaviour and for any layout.
LEMMA SeqIInvIsInvariant == SeqSpec => []SeqIInv
<1>1. SeqInit => SeqIInv
    BY SeqInitHolds
<1>2. SeqIInv /\ [SeqNext]_seqVars => SeqIInv'
    BY SeqNextHolds
<1> QED BY <1>1, <1>2, PTL DEF SeqSpec

\* So is the ledger.
LEMMA LedgerIsInvariant == SeqSpec => []Ledger
<1>1. SeqInit => Ledger
    BY SeqInitHolds, SeqInitTold
<1>2. SeqIInv /\ Ledger /\ [SeqNext]_seqVars => Ledger'
    BY SeqNextHolds
<1> QED BY <1>1, <1>2, SeqIInvIsInvariant, PTL DEF SeqSpec

\* The ledger is the order of the keys typed.
LEMMA TypedInOrderHolds == ASSUME SeqIInv, Ledger PROVE TypedInOrder
<1> SUFFICES ASSUME NEW d \in Docs
             PROVE  w.text[d] \o (IF d = w.target THEN NoSep(Typed(w.st)) ELSE <<>>) = typed[d]
    BY DEF TypedInOrder
<1> DEFINE y == NoSep(Typed(w.st))
<1>1. y \in Words /\ <<>> \o y = y /\ <<>> \o <<>> = <<>>
    BY OldIs, WordsJoin DEF Ledger
<1>2. w.text[d] = <<>> /\ typed[d] = IF d = owner THEN y ELSE <<>>
    BY DEF Ledger, Told
<1>3. CASE w.target = owner
    BY <1>1, <1>2, <1>3
<1>4. CASE w.target = NoDoc
    <2>1. NoDoc \notin Docs
        BY SeqAssumption
    <2>2. y = <<>>
        BY <1>4, NoneWaits, NoSepOfNone DEF SeqIInv
    <2> QED BY <1>1, <1>2, <1>4, <2>1, <2>2
<1> QED BY <1>3, <1>4 DEF Ledger, Told

\* What the invariant says of the screen.
LEMMA WindowIsCurrentHolds == SeqIInv => WindowIsCurrent
<1> SUFFICES ASSUME SeqIInv PROVE WindowIsCurrent
    OBVIOUS
<1>1. w \in Service /\ w.st \in Engine
    BY DEF SeqIInv, Sound, Kept, Good
<1>2. SeqTypeOK
    <2>1. w.win \in WindowKinds \cup {"none"} /\ w.ctx \in Docs \cup {NoDoc}
          /\ w.target \in Docs \cup {NoDoc} /\ DOMAIN w.text = Docs
        BY <1>1 DEF Service, Kinds, Ctxs
    <2>2. Len(w.st.reading) <= MaxReading
        BY <1>1, EngineIs, ReadingsAre
    <2> QED BY <2>1, <2>2 DEF SeqIInv, SeqHolds, SeqWaiting, SeqTypeOK
<1>3. WindowHoldsItsDocument
    BY DEF SeqIInv, Sound, Home, WindowHoldsItsDocument
<1>4. ListIsCurrent
    BY DEF SeqIInv, Sound, OwnList, Listing, ListIsCurrent
<1> QED BY <1>2, <1>3, <1>4 DEF WindowIsCurrent

\* What it says of the composition.
LEMMA ChipIsWhatWaitsHolds == SeqIInv => ChipIsWhatWaits
<1> SUFFICES ASSUME SeqIInv PROVE ChipIsWhatWaits
    OBVIOUS
<1>1. ChipShowsWhatWaits
    BY DEF SeqIInv, Sound, ChipIs, ChipShowsWhatWaits
<1>2. SegmentsAreTheSentence
    BY DEF SeqIInv, Sound, OwnList, Listing, InSentence, ChipIs, SegmentsAreTheSentence
<1> QED BY <1>1, <1>2 DEF ChipIsWhatWaits

\* What it says of a posted key.
LEMMA PicksWhatWasSeenHolds == SeqIInv => PicksWhatWasSeen
<1> SUFFICES ASSUME SeqIInv, posted # <<>> PROVE w.win = "own" /\ Head(posted).seen = w.cands.items
    BY DEF PicksWhatWasSeen
<1>1. Len(posted) \in Nat /\ Len(posted) > 0 /\ Head(posted) = posted[1]
    <2>1. Len(posted) \in Nat /\ Len(posted) > 0
        BY PostedIs DEF SeqIInv
    <2> QED BY <2>1 DEF SeqIInv, SeqWaiting, PostedKeys
<1> QED BY <1>1 DEF SeqIInv, SeenIsShown

\* A boundary commits the sentence shown.
LEMMA SentenceIsKept == ASSUME SeqIInv, [SeqNext]_seqVars PROVE BoundaryKeepsTheSentence
<1> SUFFICES ASSUME owner' # owner, w.win = "own", w.segMode PROVE w'.out = w.chip
    BY DEF BoundaryKeepsTheSentence
<1>1. PICK d \in Docs : FocusTo(d)
    BY DEF SeqNext, seqVars, Press, HandlePosted, HandleKeyDown, Click, CloseWindow, SwitchLayout
<1> DEFINE u == FlushTo(Fresh, w.target)
           f == FoldInput(u)
<1>2. owner' = d /\ Becomes(f, typed)
    BY <1>1 DEF FocusTo
<1>3. Ready /\ IsFlushedTo(Fresh, w.target, u) /\ IsFolded(u, f)
    BY FoldedAt DEF SeqIInv, Sound, Kept, Service
<1> HIDE DEF u, f
<1>4. w'.out = u.out
    <2>1. Sound(f, d)
        BY <1>3, FoldedIsSound
    <2>2. IsBecome(f, d, w')
        BY <1>2, <2>1, BecomesIs DEF SeqIInv, SeqHolds
    <2> QED BY <1>3, <2>2 DEF IsBecome, IsFolded
<1>5. /\ w.st.pending = <<>> /\ w.st.reading # <<>> /\ w.chip # <<>> /\ w.chip = w.st.conv
      /\ w.st.convGen = w.st.gen /\ w.target # NoDoc
    BY DEF SeqIInv, Sound, OwnList, Listing, InSentence, Kept, Targeted
<1>6. Fresh.st = w.st /\ Fresh.out = <<>>
    BY FreshIs DEF SeqIInv
<1>7. Shown(w.st) = w.chip
    BY <1>5 DEF Shown
<1>8. u.out = <<>> \o w.chip
    BY <1>3, <1>5, <1>6, <1>7 DEF IsFlushedTo
<1>9. <<>> \o w.chip = w.chip
    BY PiecesJoin DEF SeqIInv, Sound, Kept, Service
<1> QED BY <1>4, <1>8, <1>9

\* A window on screen holds the document of the focus and shows the list of the reading in
\* the engine, after every step (SeqOpenCandidates, SeqShowSegments, CandidateUI_Show and
\* all that releases candCtx.pic).
THEOREM WindowIsCurrentAlways == SeqSpec => []WindowIsCurrent
BY SeqIInvIsInvariant, WindowIsCurrentHolds, PTL

\* The composition shows the keys that wait in the engine, and under a segment window the
\* sentence that a flush commits (SeqApply, SeqShowSegments, SyncConversion).
THEOREM ChipIsWhatWaitsAlways == SeqSpec => []ChipIsWhatWaits
BY SeqIInvIsInvariant, ChipIsWhatWaitsHolds, PTL

\* In any layout the parser lets through, every key typed for a document is in its text or
\* waits in the engine for it: in the order typed, none lost or doubled by a conversion, a
\* window, a cancel, a pick or a boundary, but for the three losses that the property names
\* (text_service.c with seq_layout.c).
THEOREM TypedInOrderAlways == SeqSpec => []TypedInOrder
<1>1. SeqIInv /\ Ledger => TypedInOrder
    BY TypedInOrderHolds
<1> QED BY <1>1, SeqIInvIsInvariant, LedgerIsInvariant, PTL

\* In any such layout a key that goes on to the application finds no reading in front of it,
\* unless the layout has candidates without a style and the key prints (KES_OnKeyDown, the
\* boundary keys and the keys no layout takes).
THEOREM NoKeyOvertakesAlways == SeqSpec => []NoKeyOvertakesTheReading
<1>1. Ledger => NoKeyOvertakesTheReading
    BY DEF Ledger
<1> QED BY <1>1, LedgerIsInvariant, PTL

\* A key the hook posted is handled on the list its presser saw, and a boundary in the
\* middle of a segmented sentence commits the sentence on the chip, form by form
\* (CANDMSG_HOOKKEY, Jamotong_Transition).
THEOREM ScreenIsKeptAlways == SeqSpec => ScreenIsKept
<1>1. SeqIInv /\ [SeqNext]_seqVars => [PicksWhatWasSeen /\ BoundaryKeepsTheSentence]_seqVars
    BY PicksWhatWasSeenHolds, SentenceIsKept
<1> QED BY <1>1, SeqIInvIsInvariant, PTL DEF SeqSpec, ScreenIsKept
==============================================================================

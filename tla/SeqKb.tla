-------------------------------- MODULE SeqKb --------------------------------
(***************************************************************************)
(* The engine of the sequence layouts (seq_layout.c): Japanese, Chinese    *)
(* and plain transliteration.  Typed keys wait in `pending' until the      *)
(* layout's dictionary turns them into a unit; with a candidate dictionary *)
(* units gather in `reading' until the user converts them, without one     *)
(* they go to the document at once.                                        *)
(*                                                                         *)
(* A unit is the sequence of keys it stands for, so a reading, a candidate *)
(* and a committed text all say which keys they come from: a dictionary    *)
(* value is abstracted to the keys that found it.  A committed text is a   *)
(* sequence of pieces, each some keys and the form they went in as.        *)
(*                                                                         *)
(* Each operation returns the new state, the text it commits and whether   *)
(* it took the key.  A layout is a record: cand, zh, ja, conn and cancel   *)
(* (BOOLEAN), words (the key sequences of its dictionary) and known (the   *)
(* unit sequences its candidate dictionary has).                           *)
(***************************************************************************)
EXTENDS Integers, Sequences, SequencesExt

CONSTANTS
    Printable,           \* the printable keys
    MaxReading           \* SEQ_MAX_READING, in units

Sep == "'"               \* SEQ_SEPARATOR
Digits == {"1"}          \* the keys IsVChar accepts

\* The elements of s that are in K.
Only(K, s) ==
    LET only[n \in 0 .. Len(s)] ==
            IF n = 0 THEN <<>>
            ELSE only[n - 1] \o (IF s[n] \in K THEN <<s[n]>> ELSE <<>>)
    IN  only[Len(s)]

Flat(units)     == FlattenSeq(units)
KeysOf(pieces)  == FlattenSeq([n \in DOMAIN pieces |-> pieces[n].keys])
AsTyped(units)  == [n \in DOMAIN units |-> [keys |-> units[n], as |-> "typed"]]

Empty   == [pending |-> <<>>, reading |-> <<>>, gen |-> 0, open |-> FALSE,
            conv |-> <<>>, convGen |-> 0]
NoCands == [gen |-> -1, items |-> <<>>]
Idle(st)  == st.pending = <<>> /\ st.reading = <<>>
Typed(st) == Flat(st.reading) \o st.pending
Restart(st) == [Empty EXCEPT !.gen = st.gen + 1]
NewReading(st, units) == [st EXCEPT !.reading = units, !.gen = @ + 1]
Result(st, out, eaten) == [st |-> st, out |-> out, eaten |-> eaten]

(***************************************************************************)
(* The dictionary of keys, and the cutting of a buffer: the longest entry  *)
(* at its head, a key that starts none as itself.  Away from a boundary a  *)
(* tail that may still grow goes back to waiting.                          *)
(***************************************************************************)
HasLonger(l, s) == \E w \in l.words : IsStrictPrefix(s, w)
Exact(l, s)     == s \in l.words
LongestPrefix(l, s) ==
    CHOOSE w \in l.words \cup {<<s[1]>>} :
        /\ IsPrefix(w, s)
        /\ \A v \in l.words : IsPrefix(v, s) => Len(v) <= Len(w)

Cut(l, at, buf) ==
    LET cut[n \in 0 .. Len(buf)] ==          \* of the last n keys
            LET s == SubSeq(buf, Len(buf) - n + 1, Len(buf)) IN
            IF n = 0 \/ (at # "boundary" /\ HasLonger(l, s))
            THEN [units |-> <<>>, tail |-> s]
            ELSE LET w == LongestPrefix(l, s)
                     rest == cut[n - Len(w)]
                 IN  [rest EXCEPT !.units = <<w>> \o @]
    IN  cut[Len(buf)]

\* A unit joins the reading.  A full reading is committed to make room.
Deliver(l, r, unit) ==
    IF ~l.cand THEN [r EXCEPT !.out = @ \o AsTyped(<<unit>>)]
    ELSE IF Len(r.st.reading) = MaxReading
         THEN [r EXCEPT !.out = @ \o AsTyped(r.st.reading),
                        !.st = NewReading(@, <<unit>>)]
         ELSE [r EXCEPT !.st = NewReading(@, Append(@.reading, unit))]

DeliverAll(l, r, units) ==
    LET after[n \in 0 .. Len(units)] ==
            IF n = 0 THEN r ELSE Deliver(l, after[n - 1], units[n])
    IN  after[Len(units)]
FlushCut(l, st, cut) ==
    DeliverAll(l, Result([st EXCEPT !.pending = cut.tail], <<>>, TRUE), cut.units)
FlushBuf(l, st, buf, at) == FlushCut(l, st, Cut(l, at, buf))

Settle(l, st) == FlushBuf(l, st, st.pending, "boundary")  \* pending into the reading

IsVMode(l, units) ==
    /\ l.zh /\ units # <<>> /\ units[1] = <<"v">>
    /\ \A n \in 2 .. Len(units) : units[n][1] \in Digits

\* SeqKb_WouldEat
SeqKb_WouldEat(l, st, ch) ==
    \/ l.zh /\ ch = Sep /\ ~Idle(st)
    \/ l.zh /\ st.pending = <<>> /\ IsVMode(l, st.reading) /\ ch \in Digits
    \/ ~(l.zh /\ ch = Sep) /\ (st.pending # <<>> \/ HasLonger(l, <<ch>>) \/ Exact(l, <<ch>>))

WithSep(r) ==
    IF r.st.reading # <<>> /\ Len(r.st.reading) < MaxReading /\ Last(r.st.reading) # <<Sep>>
    THEN [r EXCEPT !.st = NewReading(@, Append(@.reading, <<Sep>>))] ELSE r
\* SeqKb_Key, for a printable key
SeqKb_Key(l, st, ch) ==
    LET buf == Append(st.pending, ch) IN
    IF l.zh /\ ch = Sep /\ ~Idle(st) THEN WithSep(Settle(l, st))
    ELSE IF l.zh /\ st.pending = <<>> /\ IsVMode(l, st.reading) /\ ch \in Digits THEN
        Result(IF Len(st.reading) < MaxReading
               THEN NewReading(st, Append(st.reading, <<ch>>)) ELSE st, <<>>, TRUE)
    ELSE IF ~SeqKb_WouldEat(l, st, ch) THEN Result(st, <<>>, FALSE)
    ELSE IF HasLonger(l, buf) THEN Result([st EXCEPT !.pending = buf], <<>>, TRUE)
    ELSE IF Exact(l, buf)
         THEN Deliver(l, Result([st EXCEPT !.pending = <<>>], <<>>, TRUE), buf)
    ELSE IF l.cancel THEN Result([st EXCEPT !.pending = <<>>], <<>>, TRUE)
    ELSE FlushBuf(l, st, buf, "key")

\* SeqKb_Backspace: the last waiting key, else the last unit of the reading
SeqKb_Backspace(st) ==
    IF st.pending # <<>> THEN Result([st EXCEPT !.pending = Front(@)], <<>>, TRUE)
    ELSE IF st.reading # <<>>
         THEN Result([NewReading(st, Front(st.reading)) EXCEPT !.open = FALSE], <<>>, TRUE)
    ELSE Result(st, <<>>, FALSE)

\* SeqKb_Cancel
SeqKb_Cancel(st) ==
    IF Idle(st) THEN Result(st, <<>>, FALSE)
    ELSE Result([NewReading(st, <<>>) EXCEPT !.pending = <<>>, !.open = FALSE], <<>>, TRUE)

Shown(st) == IF st.conv # <<>> /\ st.convGen = st.gen THEN st.conv ELSE AsTyped(st.reading)
Emptied(r) ==
    IF r.st.reading = <<>> THEN r
    ELSE Result([NewReading(r.st, <<>>) EXCEPT !.conv = <<>>, !.open = FALSE],
                r.out \o Shown(r.st), TRUE)
\* SeqKb_Flush: everything as it is typed, or the converted sentence on show
SeqKb_Flush(l, st) == IF Idle(st) THEN Result(st, <<>>, FALSE) ELSE Emptied(Settle(l, st))

(***************************************************************************)
(* Candidates.  Each covers the first `used' units of the reading: the     *)
(* sentence, the whole reading, the first word of the best cut, the other  *)
(* prefixes from the longest.  Which cut is best is a matter of costs; the *)
(* model takes the longest first word whose rest can be cut.               *)
(***************************************************************************)
SeqKb_CanConvert(l, st) == l.cand /\ ~Idle(st)
Bare(units) == SelectSeq(units, LAMBDA u : u # <<Sep>>)       \* StripKey
SegRange(l, units) ==
    /\ units # <<>> /\ (l.zh => units[1] # <<Sep>> /\ Last(units) # <<Sep>>)
    /\ (IF l.zh THEN Bare(units) ELSE units) \in l.known
Splits(l, units) ==                \* the reading can be cut into known words
    LET ok[n \in 0 .. Len(units)] ==
            \/ n = 0
            \/ l.zh /\ units[n] = <<Sep>> /\ ok[n - 1]
            \/ \E m \in 0 .. n - 1 : ok[m] /\ SegRange(l, SubSeq(units, m + 1, n))
    IN  ok[Len(units)]

Candidates(l, units) ==
    LET n == Len(units)
        Covers(k, as) == [keys |-> Flat(SubSeq(units, 1, k)), as |-> as, used |-> k]
        words == {k \in 1 .. n - 1 : SegRange(l, SubSeq(units, 1, k))}
        firsts == {k \in words : Splits(l, SubSeq(units, k + 1, n))}
        Longest(S) == IF S = {} THEN <<>> ELSE <<Max(S)>>
        rest == Only(words \ Range(Longest(firsts)), [k \in 1 .. n |-> n - k])
    IN  IF IsVMode(l, units) THEN IF n > 1 THEN <<Covers(n, "word")>> ELSE <<>>
        ELSE (IF firsts # {} THEN <<Covers(n, "sentence")>> ELSE <<>>)
             \o (IF SegRange(l, units) THEN <<Covers(n, "word")>> ELSE <<>>)
             \o [i \in DOMAIN (Longest(firsts) \o rest) |->
                     Covers((Longest(firsts) \o rest)[i], "word")]

\* SeqKb_ConvertEx.  Without candidates nothing changes; with them the pending
\* keys are in the reading, and what a full reading pushed out is in `spilled'.
Converted(st, r, ok, items) ==
    [ok |-> ok, spilled |-> ok /\ r.out # <<>>,
     st |-> IF ok THEN [r.st EXCEPT !.open = TRUE] ELSE st,
     cands |-> [gen |-> r.st.gen, items |-> items]]
Listed(l, st, r, how, items) ==
    Converted(st, r, /\ l.cand /\ (how = "live" => st.reading # <<>>)
                     /\ r.st.reading # <<>> /\ items # <<>>, items)
Searched(l, st, r, how) == Listed(l, st, r, how, Candidates(l, r.st.reading))
Convert(l, st, how) ==
    Searched(l, st, IF how = "live" THEN Result(st, <<>>, TRUE) ELSE Settle(l, st), how)

\* SeqKb_Choose.  The candidates of another reading choose nothing.
SeqKb_Choose(l, st, cands, n) ==
    LET c == cands.items[n]
        used == CHOOSE u \in c.used .. Len(st.reading) :
                       /\ \A k \in c.used + 1 .. u : st.reading[k] = <<Sep>>
                       /\ u = Len(st.reading) \/ st.reading[u + 1] # <<Sep>>
    IN  IF cands.gen # st.gen THEN Result(st, <<>>, FALSE)
        ELSE Result([NewReading(st, SubSeq(st.reading, used + 1, Len(st.reading)))
                        EXCEPT !.open = FALSE,
                               !.pending = IF used < Len(st.reading) THEN @ ELSE <<>>],
                    <<[keys |-> c.keys, as |-> c.as]>>, TRUE)

\* SeqKb_CommitBest: convert and take the first candidate until nothing is left;
\* a tail without candidates goes as it was typed
BestOf(l, r, c) ==
    IF c.ok THEN [SeqKb_Choose(l, c.st, c.cands, 1) EXCEPT !.out = r.out \o @]
    ELSE [SeqKb_Flush(l, r.st) EXCEPT !.out = r.out \o @]
BestOrDone(l, r) == IF Idle(r.st) THEN r ELSE BestOf(l, r, Convert(l, r.st, "asked"))
SeqKb_CommitBest(l, st) ==
    LET best[n \in 0 .. MaxReading + 1] ==
            IF n = 0 THEN Result(st, <<>>, TRUE) ELSE BestOrDone(l, best[n - 1])
    IN  [best[MaxReading + 1] EXCEPT !.eaten = TRUE]

\* SeqKb_CancelCandidates
SeqKb_CancelCandidates(st) ==
    IF st.open THEN Result([st EXCEPT !.open = FALSE, !.gen = @ + 1], <<>>, TRUE)
    ELSE Result(st, <<>>, FALSE)

(***************************************************************************)
(* Segments of a converted Japanese sentence: lengths that add up to the   *)
(* reading, the form chosen for each, and the one being edited.  How the   *)
(* lattice cuts a reading is a matter of costs; the model is given a cut.  *)
(***************************************************************************)
NoSegs == [gen |-> -1, focus |-> 1, lens |-> <<>>, as |-> <<>>]
OneMore(lens, new) ==
    IF new THEN Append(lens, 1) ELSE [lens EXCEPT ![Len(lens)] = @ + 1]
LensOf(cut, from, n) ==                    \* the pieces of from+1 .. n cut at `cut'
    LET lens[k \in from .. n] ==
            IF k = from THEN <<>> ELSE OneMore(lens[k - 1], k - 1 \in cut \cup {from})
    IN  IF from >= n THEN <<>> ELSE lens[n]
StartOf(lens, i) ==
    LET start[n \in 1 .. i] == IF n = 1 THEN 0 ELSE start[n - 1] + lens[n - 1]
    IN  start[i]
SegStart(sg, i) == StartOf(sg.lens, i)
Forms(n) == [i \in 1 .. n |-> "word"]

\* SeqKb_JaSegments: at least two segments, else the list of before
Segmented(st, r, ok, lens) ==
    [ok |-> ok, spilled |-> ok /\ r.out # <<>>,
     st |-> IF ok THEN [r.st EXCEPT !.open = TRUE] ELSE st,
     segs |-> [gen |-> r.st.gen, focus |-> 1, lens |-> lens, as |-> Forms(Len(lens))]]
CutAt(l, st, r, lens) == Segmented(st, r, l.ja /\ l.conn /\ Len(lens) >= 2, lens)
SettledAt(l, st, r, cut) == CutAt(l, st, r, LensOf(cut, 0, Len(r.st.reading)))
Segments(l, st, cut) == SettledAt(l, st, Settle(l, st), cut)

\* SeqKb_JaSegResize: the segment grows or shrinks by one, the rest is cut anew
Resize(st, sg, delta, cut) ==
    LET len == sg.lens[sg.focus] + delta
        end == SegStart(sg, sg.focus) + len
        lens == Append(SubSeq(sg.lens, 1, sg.focus - 1), len)
                  \o LensOf(cut, end, Len(st.reading))
    IN  IF sg.gen # st.gen \/ len < 1 \/ end > Len(st.reading) THEN sg
        ELSE [sg EXCEPT !.lens = lens,
                        !.as = SubSeq(@, 1, sg.focus - 1) \o Forms(Len(lens) - sg.focus + 1)]

\* SeqKb_JaSegMove
Move(sg, delta) == IF sg.focus + delta \in DOMAIN sg.lens
                   THEN [sg EXCEPT !.focus = @ + delta] ELSE sg

\* SeqKb_JaSegCands: the segment as it is first, then its other forms
SegCands(st, sg) ==
    LET at == SegStart(sg, sg.focus)
        keys == Flat(SubSeq(st.reading, at + 1, at + sg.lens[sg.focus]))
        forms == <<sg.as[sg.focus]>> \o Only({"word", "kana"} \ {sg.as[sg.focus]},
                                             <<"word", "kana">>)
    IN  [gen |-> st.gen,
         items |-> [i \in DOMAIN forms |->
                       [keys |-> keys, as |-> forms[i], used |-> sg.lens[sg.focus]]]]

\* SeqKb_JaSegChoose
SegChoose(st, sg, cands, n) ==
    IF sg.gen = st.gen /\ cands.gen = st.gen
    THEN [sg EXCEPT !.as[sg.focus] = cands.items[n].as] ELSE sg

\* SeqKb_JaSegText
SegText(st, sg) ==
    [i \in DOMAIN sg.lens |->
        [keys |-> Flat(SubSeq(st.reading, SegStart(sg, i) + 1, SegStart(sg, i) + sg.lens[i])),
         as |-> sg.as[i]]]

NoSync(st, sg) == st                                    \* mutant of Sync
\* SeqKb_JaSegSync: the sentence a later flush commits
Sync(st, sg) == IF sg.gen # st.gen THEN [st EXCEPT !.conv = <<>>]
                ELSE [st EXCEPT !.conv = SegText(st, sg), !.convGen = st.gen]
=============================================================================

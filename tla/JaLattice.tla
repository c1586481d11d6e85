----------------------------- MODULE JaLattice -----------------------------
(***************************************************************************)
(* How a Japanese reading is cut into words (JaLatticeWords of             *)
(* seq_layout.c): at every place of the reading the Beam cheapest words    *)
(* that end there are kept, a word costing its own cost and what the       *)
(* connection table says of the class before it.  The table is baked with  *)
(* a step (JConn_BuildEx of jdict_build.c) and read back in place          *)
(* (JConn_Cost of jdict.c).  A word of the dictionary is [cost, lid, rid]; *)
(* what it writes is not needed here.                                      *)
(***************************************************************************)
EXTENDS Integers, Sequences, FiniteSets, SequencesExt

CONSTANTS Letters,     \* the letters of a reading
          Dictionaries,\* the dictionaries: functions from readings to sequences of words
          Tables,      \* the connection tables: functions from pairs of ids to costs
          MaxId,       \* ids are 0..MaxId; 0 is the start and the end of a sentence
          Steps,       \* the steps a table is baked with
          Cell,        \* the largest number in a cell (255)
          UnkId,       \* JA_UNK_ID
          UnkCost,     \* JA_UNK_COST
          Beams,       \* JA_BEAM, and smaller ones
          MaxSeg,      \* JA_MAXSEG: letters in a word
          SegCands,    \* JA_SEG_CANDS: words looked at of one piece
          MaxReading   \* SEQ_MAX_READING

JaLatticeAssumption ==
  /\ MaxId \in Nat /\ Cell \in Nat /\ UnkId \in Nat /\ UnkCost \in Nat
  /\ Steps \subseteq Nat \ {0} /\ Beams \subseteq Nat \ {0}
  /\ MaxSeg \in Nat \ {0} /\ SegCands \in Nat \ {0} /\ MaxReading \in Nat

-----------------------------------------------------------------------------
(* The connection table: one byte for each pair, in steps *)

Baked(table, step) ==
  [step |-> step, cell |-> [pair \in DOMAIN table |->
                              LET q == table[pair] \div step IN IF q > Cell THEN Cell ELSE q]]
(* A pair outside the table is as dear as the table can say *)
ConnCost(conn, rid, lid) ==
  conn.step * (IF <<rid, lid>> \in DOMAIN conn.cell THEN conn.cell[rid, lid] ELSE Cell)

-----------------------------------------------------------------------------
(* The lattice: nodes[j] are the words kept that end at j *)

Node(cost, lid, rid, start, prev) ==
  [cost |-> cost, lid |-> lid, rid |-> rid, start |-> start, prev |-> prev]

(* Mutant of Dearest: the place that was filled last *)
LastFilled(list) == Len(list)
(* The dearest of a list, the first of them *)
Dearest(list) == CHOOSE k \in DOMAIN list : /\ \A i \in DOMAIN list : list[i].cost <= list[k].cost
                                            /\ \A i \in 1..(k - 1) : list[i].cost < list[k].cost

JaPut(list, node, beam) ==
  IF Len(list) < beam THEN Append(list, node)
  ELSE IF node.cost >= list[Dearest(list)].cost THEN list
  ELSE [list EXCEPT ![Dearest(list)] = node]

(* The words of a piece; a letter the dictionary does not know passes as a  *)
(* dear noun                                                                 *)
PieceWords(dict, piece) ==
  IF piece \in DOMAIN dict
  THEN SubSeq(dict[piece], 1, IF Len(dict[piece]) < SegCands THEN Len(dict[piece]) ELSE SegCands)
  ELSE IF Len(piece) = 1 THEN <<[cost |-> UnkCost, lid |-> UnkId, rid |-> UnkId]>> ELSE <<>>

(* Mutant of Through: the class that follows is asked before the one before *)
ThroughSwapped(conn, p, w) == p.cost + ConnCost(conn, w.lid, p.rid) + w.cost
(* What a word costs behind a node *)
Through(conn, p, w) == p.cost + ConnCost(conn, p.rid, w.lid) + w.cost
CostsBehind(conn, list, w) == [k \in DOMAIN list |-> Through(conn, list[k], w)]
(* The first of the least costs *)
Cheapest(costs) ==
  CHOOSE k \in DOMAIN costs : /\ \A i \in DOMAIN costs : costs[k] <= costs[i]
                              /\ \A i \in 1..(k - 1) : costs[k] < costs[i]

(* One word of the piece i..j behind its cheapest node *)
AddWord(nodes, conn, beam, i, j, w) ==
  LET k == Cheapest(CostsBehind(conn, nodes[i], w))
  IN  [nodes EXCEPT ![j] = JaPut(@, Node(Through(conn, nodes[i][k], w), w.lid, w.rid, i, k), beam)]

Pieces(n) == FlattenSeq([i \in 1..n |-> [d \in 1..(IF n - i + 1 < MaxSeg THEN n - i + 1 ELSE MaxSeg)
                                           |-> <<i - 1, i - 1 + d>>]])
Lattice(dict, conn, beam, leftRid, reading) ==
  FoldLeft(LAMBDA nodes, piece :
             IF nodes[piece[1]] = <<>> THEN nodes
             ELSE FoldLeft(LAMBDA ns, w : AddWord(ns, conn, beam, piece[1], piece[2], w),
                           nodes, PieceWords(dict, SubSeq(reading, piece[1] + 1, piece[2]))),
           [j \in 0..Len(reading) |-> IF j = 0 THEN <<Node(0, 0, leftRid, 0, 0)>> ELSE <<>>],
           Pieces(Len(reading)))

(* The words of the cheapest path, the end of the sentence counted *)
JaLatticeWords(dict, conn, beam, leftRid, reading) ==
  LET nodes == Lattice(dict, conn, beam, leftRid, reading)
      back[j \in 0..Len(reading), k \in 1..beam] ==
        IF j = 0 THEN <<>>
        ELSE LET p == nodes[j][k]
             IN  Append(back[p.start, p.prev], [start |-> p.start, end |-> j, lid |-> p.lid,
                                                rid |-> p.rid])
      last == nodes[Len(reading)]
  IN  IF reading = <<>> \/ last = <<>> THEN <<>>
      ELSE back[Len(reading), Cheapest([k \in DOMAIN last |->
                                            last[k].cost + ConnCost(conn, last[k].rid, 0)])]

-----------------------------------------------------------------------------
VARIABLES reading,     \* what was typed
          dict, table, step, beam, left,   \* what the layout has; the class before the reading
          words        \* the words the reading was cut into
vars == <<reading, dict, table, step, beam, left, words>>

Init == /\ reading = <<>> /\ words = <<>>
        /\ dict \in Dictionaries /\ table \in Tables /\ step \in Steps
        /\ beam \in Beams /\ left = 0

(* A letter is typed and the reading is cut again; a reading that is full   *)
(* takes no more                                                             *)
Type == /\ Len(reading) < MaxReading
        /\ \E c \in Letters : reading' = Append(reading, c)
        /\ words' = JaLatticeWords(dict, Baked(table, step), beam, left, reading')
        /\ UNCHANGED <<dict, table, step, beam, left>>

(* The first word stands; what follows it is cut again behind its class *)
(* (JaFillFrom, when a segment before it was resized or chosen)         *)
Fix == /\ Len(words) > 1
       /\ left' = words[1].rid
       /\ reading' = SubSeq(reading, words[1].end + 1, Len(reading))
       /\ words' = JaLatticeWords(dict, Baked(table, step), beam, left', reading')
       /\ UNCHANGED <<dict, table, step, beam>>

Next == Type \/ Fix
Spec == Init /\ [][Next]_vars

-----------------------------------------------------------------------------
(* Properties *)

WordsAt(i, j) == Range(PieceWords(dict, SubSeq(reading, i + 1, j)))
(* Every way to cut the first j letters, and what it costs with its last class *)
Ways(conn) ==
  LET ways[j \in 0..Len(reading)] ==
        IF j = 0 THEN {[cost |-> 0, rid |-> left]}
        ELSE UNION {{[cost |-> p.cost + ConnCost(conn, p.rid, w.lid) + w.cost, rid |-> w.rid] :
                       p \in ways[i], w \in WordsAt(i, j)} :
                    i \in {k \in 0..(j - 1) : j - k <= MaxSeg}}
  IN  ways[Len(reading)]
CostOfWords(conn, ws) ==
  LET sum[k \in 0..Len(ws)] ==
        IF k = 0 THEN 0
        ELSE sum[k - 1] + ConnCost(conn, IF k = 1 THEN left ELSE ws[k - 1].rid, ws[k].lid)
               + (CHOOSE c \in {w.cost : w \in {v \in WordsAt(ws[k].start, ws[k].end) :
                                                  v.lid = ws[k].lid /\ v.rid = ws[k].rid}} :
                    \A w \in WordsAt(ws[k].start, ws[k].end) :
                       w.lid = ws[k].lid /\ w.rid = ws[k].rid => c <= w.cost)
  IN  sum[Len(ws)] + ConnCost(conn, ws[Len(ws)].rid, 0)
(* Nothing that was dropped at a place costs less than what was kept there *)
KeptAreTheCheapest(nodes, conn) ==
  \A i, j \in 0..Len(reading) : i < j /\ j - i <= MaxSeg =>
    \A w \in WordsAt(i, j) :
      LET k == Cheapest(CostsBehind(conn, nodes[i], w))
          node == Node(Through(conn, nodes[i][k], w), w.lid, w.rid, i, k)
      IN  node \in Range(nodes[j]) \/ \A p \in Range(nodes[j]) : p.cost <= node.cost

(* Every reading is cut: into words of the dictionary (or letters it does    *)
(* not know) that follow one another over the whole reading.  At every place *)
(* the cheapest are kept, and where the beam dropped nothing no other way to *)
(* cut the reading costs less (JaLatticeWords, JaPut, JConn_Cost)            *)
CutIsWholeAndCheapest ==
  reading # <<>> =>
    LET conn == Baked(table, step)
        nodes == Lattice(dict, conn, beam, left, reading)
        roomy == \A j \in DOMAIN nodes : Len(nodes[j]) < beam
    IN  /\ words # <<>> /\ words[1].start = 0 /\ words[Len(words)].end = Len(reading)
        /\ \A k \in 2..Len(words) : words[k].start = words[k - 1].end
        /\ \A k \in DOMAIN words : \E w \in WordsAt(words[k].start, words[k].end) :
                                     w.lid = words[k].lid /\ w.rid = words[k].rid
        /\ KeptAreTheCheapest(nodes, conn)
        /\ roomy => \A p \in Ways(conn) : CostOfWords(conn, words) <= p.cost + ConnCost(conn, p.rid, 0)
=============================================================================

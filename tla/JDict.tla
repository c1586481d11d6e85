------------------------------- MODULE JDict -------------------------------
(***************************************************************************)
(* Conversion dictionaries: a tool bakes a source of rows (.jdt) into one  *)
(* sorted file (.jdb, jdict_build.c) and every program that takes text     *)
(* maps that file and searches it in place (jdict.c).  A key is a sequence *)
(* of characters, a value is the number of the source line that gave it.   *)
(* The index entries carry offsets into blocks in the file; here an entry  *)
(* holds its key and its value, and a file cut short is `whole' FALSE.     *)
(***************************************************************************)
EXTENDS Integers, Sequences, FiniteSets, SequencesExt, Functions

CONSTANTS Sources,     \* the sources: sequences of Type lines and rows
          Probes,      \* the keys that are looked up (sequences of characters)
          Wide,        \* the characters outside printable ASCII: two bytes each
          Readers,     \* the newest format of the programs that open the file
          MaxSeq,      \* JDICT_MAX_KEY: bytes in a key of a sequence dictionary
          MaxCand,     \* JDICT_MAX_KEY_CANDIDATES
          MaxRows,     \* JD_MAX_ROWS
          MaxBakes     \* bound: times a source is baked

JDictAssumption ==
  /\ MaxSeq \in Nat \ {0} /\ MaxCand > MaxSeq /\ MaxRows \in Nat \ {0}
  /\ Readers \subseteq 1..4 /\ MaxBakes \in Nat

Bytes(key) == Len(key) + Cardinality({i \in DOMAIN key : key[i] \in Wide})
MaxKeyBytes(kind) == IF kind = "candidates" THEN MaxCand ELSE MaxSeq
Typed(key) == Range(key) \cap Wide = {}

(* Byte order is character order, and the shorter of two keys comes first *)
Before(a, b) == \/ IsStrictPrefix(a, b)
                \/ \E i \in DOMAIN a \cap DOMAIN b :
                     a[i] < b[i] /\ SubSeq(a, 1, i - 1) = SubSeq(b, 1, i - 1)
(* A mutant of the order below: qsort by the key alone leaves the rows of a *)
(* key in any order                                                         *)
RowBeforeByKey(x, y) == Before(x.key, y.key) \/ (x.key = y.key /\ x.val > y.val)
(* The rows of one key keep the order the source gives them *)
RowBefore(x, y) == Before(x.key, y.key) \/ (x.key = y.key /\ x.val < y.val)

-----------------------------------------------------------------------------
(* The builder *)

(* A row is read with the limits of the Type seen SO FAR *)
RowFits(kind, row, n) ==
  /\ Bytes(row.key) <= MaxKeyBytes(kind)
  /\ kind = "sequence" => Typed(row.key)
  /\ row.cost >= 0 \/ row.pos => kind = "candidates"
  /\ n < MaxRows

ReadLine(st, line, at) ==
  IF line.kind # "row" THEN [st EXCEPT !.kind = line.kind]
  ELSE IF RowFits(st.kind, line, Len(st.rows))
       THEN [st EXCEPT !.rows = Append(@, [key |-> line.key, val |-> at,
                                           cost |-> line.cost, pos |-> line.pos])]
       ELSE [st EXCEPT !.ok = FALSE]
ReadSource(src) ==
  FoldLeft(LAMBDA st, at : IF st.ok THEN ReadLine(st, src[at], at) ELSE st,
           [kind |-> "none", rows |-> <<>>, ok |-> TRUE], [at \in DOMAIN src |-> at])

Distinct(rows) == \A i, j \in DOMAIN rows : rows[i].key = rows[j].key => i = j
AllOrNone(marks) == marks # BOOLEAN
HasCost(row) == row.cost >= 0
HasPos(row) == row.pos

Accepted(st) ==
  /\ st.ok /\ st.kind # "none" /\ st.rows # <<>>
  /\ st.kind = "sequence" => Distinct(st.rows)
  /\ LET costs == st.kind = "candidates" /\ HasCost(st.rows[1])
     IN  /\ st.kind = "candidates" => AllOrNone({HasCost(row) : row \in Range(st.rows)})
         /\ IF costs THEN AllOrNone({HasPos(row) : row \in Range(st.rows)}) ELSE ~HasPos(st.rows[1])

Longest(rows) == LET lens == {Bytes(rows[i].key) : i \in DOMAIN rows}
                 IN  CHOOSE n \in lens : \A m \in lens : m <= n
(* A mutant of the choice below: the format is raised for the costs only *)
FormatWithoutKeys(costs, pos, maxKeyLen) == IF pos THEN 4 ELSE IF costs THEN 3 ELSE 1
(* The oldest format that can say what the file holds *)
FormatOf(costs, pos, maxKeyLen) ==
  IF pos THEN 4 ELSE IF costs THEN 3 ELSE IF maxKeyLen > MaxSeq THEN 2 ELSE 1

Assemble(st) ==
  LET rows == SortSeq(st.rows, RowBefore)
      costs == st.kind = "candidates" /\ HasCost(rows[1])
      pos == costs /\ HasPos(rows[1])
  IN  [whole |-> TRUE, kind |-> st.kind, entries |-> rows, maxKeyLen |-> Longest(rows),
       format |-> FormatOf(costs, pos, Longest(rows)), costs |-> costs, pos |-> pos]

-----------------------------------------------------------------------------
(* The reader *)

(* The magic, the file size and the places of the blocks: what JDict_Open  *)
(* checks of a file of version at most `known'                             *)
CheckLayout(f, known) ==
  /\ f.whole
  /\ f.format \in 1..known
  /\ f.maxKeyLen <= MaxKeyBytes(f.kind)
  /\ f.pos => f.costs /\ f.format >= 4
  /\ f.costs => f.kind = "candidates" /\ f.format >= 3

(* The full check a tool makes and the input method does not *)
Verify(f) ==
  /\ \A i \in 2..Len(f.entries) :
       \/ Before(f.entries[i - 1].key, f.entries[i].key)
       \/ f.kind = "candidates" /\ f.entries[i - 1].key = f.entries[i].key
  /\ f.kind = "sequence" => \A i \in DOMAIN f.entries : Typed(f.entries[i].key)

KeyAt(f, i) == f.entries[i + 1].key
ValAt(f, i) == f.entries[i + 1].val
Count(f) == Len(f.entries)

(* The first place whose key is not before `key' *)
LowerBound(f, key) ==
  LET find[lo \in 0..Count(f), hi \in 0..Count(f)] ==
        IF lo >= hi THEN lo
        ELSE LET mid == lo + (hi - lo) \div 2
             IN  IF Before(KeyAt(f, mid), key) THEN find[mid + 1, hi] ELSE find[lo, mid]
  IN  find[0, Count(f)]

HasKey(f, key, i) == i < Count(f) /\ KeyAt(f, i) = key
Exact(f, key) == HasKey(f, key, LowerBound(f, key))

(* The values of the run of equal keys *)
Candidates(f, key) ==
  LET at == LowerBound(f, key)
      run == {n \in 0..Count(f) : \A i \in at..(at + n - 1) : HasKey(f, key, i)}
      n == CHOOSE m \in run : \A k \in run : k <= m
  IN  [i \in 1..n |-> ValAt(f, at + i - 1)]

HasLonger(f, key) ==
  LET lb == LowerBound(f, key)
      at == IF HasKey(f, key, lb) THEN lb + 1 ELSE lb
  IN  at < Count(f) /\ IsStrictPrefix(key, KeyAt(f, at))

(* Lengths are tried from the longest key of the file down *)
LongestPrefix(f, buf) ==
  LET lens == {n \in 1..Len(buf) : n <= f.maxKeyLen /\ n <= MaxSeq /\ Exact(f, SubSeq(buf, 1, n))}
  IN  IF lens = {} THEN 0 ELSE CHOOSE n \in lens : \A m \in lens : m <= n

CostAt(f, i, seen) == IF f.costs THEN f.entries[i + 1].cost ELSE seen
(* A place is put behind those that cost no more; a full list loses its dearest *)
Insert(best, item, max) ==
  IF Len(best) = max /\ best[max].cost <= item.cost THEN best
  ELSE LET kept == IF Len(best) = max THEN SubSeq(best, 1, max - 1) ELSE best
           at == Cardinality({i \in DOMAIN kept : kept[i].cost <= item.cost})
       IN  SubSeq(kept, 1, at) \o <<item>> \o SubSeq(kept, at + 1, Len(kept))
(* Every longer key of the section, as far as `limit' places, cheapest first *)
Completions(f, key, max, limit) ==
  LET at == LowerBound(f, key)
      Looked == {i \in at..(Count(f) - 1) : i - at < limit /\
                   \A j \in at..i : IsPrefix(key, KeyAt(f, j))}
  IN  FoldLeft(LAMBDA best, i : IF KeyAt(f, i) = key THEN best
                                ELSE Insert(best, [at |-> i, cost |-> CostAt(f, i, i - at)], max),
               <<>>, [k \in 1..Cardinality(Looked) |-> at + k - 1])

-----------------------------------------------------------------------------
VARIABLES source,      \* the text the tool reads
          file,        \* what is at the output path, or NoFile
          mapped,      \* what a running program has mapped, or NoFile
          known,       \* the newest format that program knows
          bakes        \* times baked (bound)
vars == <<source, file, mapped, known, bakes>>

NoFile == [whole |-> FALSE, kind |-> "none"]
Torn == [whole |-> FALSE, kind |-> "torn"]

Init == /\ source \in Sources
        /\ file = NoFile /\ mapped = NoFile
        /\ known \in Readers
        /\ bakes = 0

(* The output cannot be opened while a program has the file mapped: then   *)
(* neither the write nor the removal after it does anything.  Otherwise    *)
(* the open empties the file, and the write comes through, fails (the file *)
(* is removed) or is cut off with the program.                             *)
Build == /\ bakes < MaxBakes
         /\ bakes' = bakes + 1
         /\ LET st == ReadSource(source)
            IN  IF ~Accepted(st) \/ mapped # NoFile THEN file' = file
                ELSE file' \in {Assemble(st), NoFile, Torn}
         /\ UNCHANGED <<source, mapped, known>>

Open == /\ mapped = NoFile /\ file.kind # "none"
        /\ file.whole /\ CheckLayout(file, known)
        /\ mapped' = file
        /\ UNCHANGED <<source, file, known, bakes>>

Close == /\ mapped # NoFile /\ mapped' = NoFile
         /\ UNCHANGED <<source, file, known, bakes>>

Next == Build \/ Open \/ Close
Spec == Init /\ [][Next]_vars

-----------------------------------------------------------------------------
(* Properties *)

TypeFirst(src) == /\ src # <<>> /\ src[1].kind # "row"
                  /\ \A at \in 2..Len(src) : src[at].kind = "row"
With(src, key) == {at \in DOMAIN src : src[at].kind = "row" /\ src[at].key = key}
Longer(src, key) == {at \in DOMAIN src : src[at].kind = "row" /\ IsStrictPrefix(key, src[at].key)}
InOrder(S) == SetToSortSeq(S, <)
(* What is to be preferred of the longer rows: the cheaper, then the earlier key *)
Preferred(f, i, j) == LET x == f.entries[i + 1] y == f.entries[j + 1]
                      IN  IF f.costs /\ x.cost # y.cost THEN x.cost < y.cost ELSE i < j
BestOf(f, key, max) ==
  {i \in 0..(Count(f) - 1) :
     /\ IsStrictPrefix(key, KeyAt(f, i))
     /\ Cardinality({j \in 0..(Count(f) - 1) : IsStrictPrefix(key, KeyAt(f, j))
                                              /\ Preferred(f, j, i)}) < max}

(* What the file says of a key is what the source says of it: the rows of  *)
(* the key in the order they were written, whether a longer key exists, the *)
(* longest key a text begins with, the best completions (JDict_Candidates,  *)
(* JDict_HasLonger, JDict_LongestPrefix, JDict_Completions over the sorted   *)
(* file JDict_Build wrote)                                                   *)
AnswersAs(f, src, key) ==
  /\ Candidates(f, key) = InOrder(With(src, key))
  /\ Exact(f, key) <=> With(src, key) # {}
  /\ f.kind = "sequence" => /\ HasLonger(f, key) <=> Longer(src, key) # {}
                            /\ LongestPrefix(f, key) =
                                 Cardinality({n \in 1..Len(key) : \E m \in n..Len(key) :
                                                With(src, SubSeq(key, 1, m)) # {}})
  /\ \A max \in 1..2 :
       LET best == Completions(f, key, max, Count(f))
       IN  /\ {best[i].at : i \in DOMAIN best} = BestOf(f, key, max)
           /\ \A i, j \in DOMAIN best : i < j => Preferred(f, best[i].at, best[j].at)

(* A source that says its Type before its rows and is accepted gives a file *)
(* that today's reader opens and the full check passes, and what a program   *)
(* has mapped answers as the source does, an old program's mapping included  *)
(* (JDict_Build, JDict_Open, JDict_Verify)                                   *)
BakedAnswersItsSource ==
  TypeFirst(source) =>
    /\ file.whole => CheckLayout(file, 4) /\ Verify(file)
    /\ mapped.whole => /\ \A key \in Probes : AnswersAs(mapped, source, key)
                       /\ known < 2 => \A i \in DOMAIN mapped.entries :
                                          Bytes(mapped.entries[i].key) <= MaxSeq

(* Any source that is accepted gives such a file: jdict.h says that the      *)
(* compiler and the loader give the same answer of what a key may be         *)
AcceptedIsReadable == file.whole => CheckLayout(file, 4) /\ Verify(file)

=============================================================================

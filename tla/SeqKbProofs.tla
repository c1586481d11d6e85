---------------------------- MODULE SeqKbProofs ----------------------------
(***************************************************************************)
(* Lemmas about SeqKb, the engine of sequence layouts: what each of its    *)
(* operations returns for any layout the parser lets through, any reading  *)
(* and any list, and which engines they lead to.                           *)
(*                                                                         *)
(* The functions that are defined by recursion over a sequence are         *)
(* reasoned about by sets of numbers: the set of the lengths for which a   *)
(* fact holds has 0 and is closed under the successor (UpTo).              *)
(***************************************************************************)
EXTENDS SeqInput, SequenceTheorems, FiniteSetTheorems, WellFoundedInduction, TLAPS

------------------------------------------------------------------------------
(* Recursion over numbers, and the functions of sequences that the engine is built from. *)

\* The order of the numbers as a relation, for the library's least elements.
LEMMA SeqLessThan == \A x, y \in Nat : y < x => <<y, x>> \in OpToRel(<, Nat)
BY DEF OpToRel

\* A set of numbers that is not empty has a least one.
LEMMA LeastNumber ==
    ASSUME NEW S \in SUBSET Nat, S # {}
    PROVE  \E x \in S : \A y \in S : x <= y
<1>1. PICK x \in S : \A y \in S : <<y, x>> \notin OpToRel(<, Nat)
    BY NatLessThanWellFounded, WFMin
<1>2. \A y \in S : x <= y
    <2> SUFFICES ASSUME NEW y \in S, y < x PROVE FALSE
        BY SMT
    <2>1. x \in Nat /\ y \in Nat
        OBVIOUS
    <2>2. <<y, x>> \in OpToRel(<, Nat)
        BY <2>1, SeqLessThan, Zenon
    <2> QED BY <1>1, <2>2, Zenon
<1> QED BY <1>2

\* What holds of n when it holds of every number before it, holds up to N.
LEMMA UpTo ==
    ASSUME NEW N \in Nat, NEW P,
           \A n \in 0 .. N : (\A m \in 0 .. n - 1 : m \in P) => n \in P
    PROVE  \A n \in 0 .. N : n \in P
<1> DEFINE S == {n \in 0 .. N : n \notin P}
<1> SUFFICES ASSUME S # {} PROVE FALSE
    OBVIOUS
<1>1. S \in SUBSET Nat
    OBVIOUS
<1>2. PICK x \in S : \A y \in S : x <= y
    BY <1>1, LeastNumber
<1>3. ASSUME NEW m \in 0 .. x - 1 PROVE m \in P
    <2>1. m \in 0 .. N /\ ~(x <= m)
        OBVIOUS
    <2> QED BY <1>2, <2>1
<1> QED BY <1>2, <1>3

LEMMA GreatestNumber ==
    ASSUME NEW N \in Nat, NEW S \in SUBSET (0 .. N), S # {}
    PROVE  \E x \in S : \A y \in S : y <= x
<1> DEFINE T == {n \in Nat : n <= N /\ N - n \in S}
<1>1. T \in SUBSET Nat /\ T # {}
    <2>1. PICK y \in S : TRUE
        OBVIOUS
    <2>2. y \in 0 .. N
        OBVIOUS
    <2>3. N - y \in Nat /\ N - y <= N /\ N - (N - y) = y
        BY <2>2
    <2> QED BY <2>1, <2>3
<1>2. PICK t \in T : \A u \in T : t <= u
    BY <1>1, LeastNumber
<1>3. ASSUME NEW y \in S PROVE y <= N - t
    <2>1. y \in 0 .. N
        OBVIOUS
    <2>2. N - y \in Nat /\ N - y <= N /\ N - (N - y) = y
        BY <2>1
    <2>3. t <= N - y
        BY <1>2, <2>2
    <2> QED BY <2>1, <2>2, <2>3
<1> QED BY <1>2, <1>3

\* What the value of a function at n is made of: its values before n.
IsStep(N, S, step) ==
    /\ step \in [0 .. N -> [[0 .. N -> S] -> S]]
    /\ \A n \in 0 .. N : \A f, g \in [0 .. N -> S] :
           (\A m \in 0 .. n - 1 : f[m] = g[m]) => step[n][f] = step[n][g]
Follows(N, f, step) == \A n \in 0 .. N : f[n] = step[n][f]

\* A recursion over the numbers up to N has a function that follows it.
LEMMA Recursion ==
    ASSUME NEW N \in Nat, NEW S, NEW step, S # {}, IsStep(N, S, step)
    PROVE  \E f \in [0 .. N -> S] : Follows(N, f, step)
<1> USE DEF IsStep, Follows
<1> DEFINE P == {k \in 0 .. N : \E f \in [0 .. N -> S] : \A n \in 0 .. k : f[n] = step[n][f]}
<1>1. ASSUME NEW k \in 0 .. N, \A m \in 0 .. k - 1 : m \in P PROVE k \in P
    <2>1. PICK f \in [0 .. N -> S] : \A n \in 0 .. k - 1 : f[n] = step[n][f]
        <3>1. CASE k = 0
            <4>1. PICK s \in S : TRUE
                OBVIOUS
            <4> WITNESS [n \in 0 .. N |-> s] \in [0 .. N -> S]
            <4> QED BY <3>1
        <3>2. CASE k # 0
            <4>1. k - 1 \in 0 .. k - 1
                BY <3>2
            <4> QED BY <1>1, <4>1
        <3> QED BY <3>1, <3>2
    <2> DEFINE g == [f EXCEPT ![k] = step[k][f]]
    <2>2. g \in [0 .. N -> S]
        OBVIOUS
    <2>3. \A m \in 0 .. k - 1 : f[m] = g[m]
        OBVIOUS
    <2>4. \A n \in 0 .. k : step[n][f] = step[n][g]
        <3> SUFFICES ASSUME NEW n \in 0 .. k PROVE step[n][f] = step[n][g]
            OBVIOUS
        <3>1. \A m \in 0 .. n - 1 : f[m] = g[m]
            BY <2>3
        <3>2. n \in 0 .. N
            OBVIOUS
        <3> HIDE DEF g
        <3> QED BY <2>2, <3>1, <3>2
    <2>5. ASSUME NEW n \in 0 .. k PROVE g[n] = step[n][g]
        <3>1. CASE n = k
            <4>1. g[k] = step[k][f]
                OBVIOUS
            <4> HIDE DEF g
            <4> QED BY <2>4, <3>1, <4>1
        <3>2. CASE n # k
            <4>1. n \in 0 .. k - 1 /\ g[n] = f[n]
                BY <3>2, <2>3
            <4> HIDE DEF g
            <4> QED BY <2>1, <2>4, <4>1
        <3> QED BY <3>1, <3>2
    <2> HIDE DEF g
    <2> QED BY <2>2, <2>5
<1>2. N \in P
    <2> HIDE DEF P
    <2>1. \A k \in 0 .. N : (\A m \in 0 .. k - 1 : m \in P) => k \in P
        BY <1>1
    <2>2. \A k \in 0 .. N : k \in P
        BY <2>1, UpTo
    <2> QED BY <2>2
<1> QED BY <1>2 DEF P

\* One more element of s, if it is in K.
Taken(K, s, n) == IF s[n] \in K THEN <<s[n]>> ELSE <<>>
\* f is what Only(K, s) is defined by.
IsOnly(K, s, f) == f = [n \in 0 .. Len(s) |-> IF n = 0 THEN <<>> ELSE f[n - 1] \o Taken(K, s, n)]

LEMMA OnlyDef ==
    ASSUME NEW K, NEW s
    PROVE  Only(K, s) = (CHOOSE f : IsOnly(K, s, f))[Len(s)]
BY Zenon DEF Only, IsOnly, Taken

LEMMA OnlyExists ==
    ASSUME NEW K, NEW S, NEW s \in Seq(S)
    PROVE  \E f \in [0 .. Len(s) -> Seq(S \cap K)] : IsOnly(K, s, f)
<1> DEFINE N == Len(s)
           T == Seq(S \cap K)
           step == [n \in 0 .. N |-> [f \in [0 .. N -> T] |->
                        IF n = 0 THEN <<>> ELSE f[n - 1] \o Taken(K, s, n)]]
<1>1. N \in Nat /\ <<>> \in T
    OBVIOUS
<1>t. T # {}
    <2> HIDE DEF T
    <2> QED BY <1>1
<1>2. ASSUME NEW n \in 1 .. N PROVE Taken(K, s, n) \in T
    <2>1. s[n] \in S
        BY ElementOfSeq
    <2>2. CASE s[n] \in K
        <3>1. <<s[n]>> \in Seq(S \cap K)
            BY <2>1, <2>2
        <3> QED BY <2>2, <3>1 DEF Taken
    <2>3. CASE s[n] \notin K
        BY <2>3 DEF Taken
    <2> QED BY <2>2, <2>3
<1>3. IsStep(N, T, step)
    <2>1. ASSUME NEW n \in 0 .. N, NEW f \in [0 .. N -> T]
          PROVE  (IF n = 0 THEN <<>> ELSE f[n - 1] \o Taken(K, s, n)) \in T
        <3>1. CASE n = 0
            BY <3>1, <1>1
        <3>2. CASE n # 0
            <4>1. f[n - 1] \in T /\ Taken(K, s, n) \in T
                BY <3>2, <1>2
            <4> QED BY <3>2, <4>1, ConcatProperties
        <3> QED BY <3>1, <3>2
    <2>2. step \in [0 .. N -> [[0 .. N -> T] -> T]]
        BY <2>1
    <2>3. \A n \in 0 .. N : \A f, g \in [0 .. N -> T] :
              (\A m \in 0 .. n - 1 : f[m] = g[m]) => step[n][f] = step[n][g]
        OBVIOUS
    <2> QED BY <2>2, <2>3 DEF IsStep
<1>5. \E f \in [0 .. N -> T] : Follows(N, f, step)
    <2> HIDE DEF N, T, step
    <2> QED BY <1>1, <1>t, <1>3, Recursion
<1>6. PICK f \in [0 .. N -> T] : Follows(N, f, step)
    BY <1>5
<1>7. IsOnly(K, s, f)
    BY <1>6 DEF IsOnly, Follows
<1> QED BY <1>7

LEMMA OnlyUnique ==
    ASSUME NEW K, NEW S, NEW s \in Seq(S), NEW f, IsOnly(K, s, f)
    PROVE  Only(K, s) = f[Len(s)]
<1> DEFINE g == CHOOSE h : IsOnly(K, s, h)
           P == {n \in 0 .. Len(s) : f[n] = g[n]}
<1>1. IsOnly(K, s, g)
    BY Zenon
<1> HIDE DEF g
<1>2. ASSUME NEW n \in 0 .. Len(s), \A m \in 0 .. n - 1 : m \in P PROVE n \in P
    <2>1. CASE n = 0
        BY <1>1, <2>1 DEF IsOnly
    <2>2. CASE n # 0
        <3>1. n - 1 \in 0 .. n - 1
            BY <2>2
        <3>2. f[n - 1] = g[n - 1]
            BY <1>2, <3>1
        <3> QED BY <1>1, <2>2, <3>2 DEF IsOnly
    <2> QED BY <2>1, <2>2
<1>3. \A n \in 0 .. Len(s) : n \in P
    <2> HIDE DEF P
    <2> QED BY <1>2, UpTo, SMTT(20)
<1>4. f[Len(s)] = g[Len(s)]
    BY <1>3
<1> QED BY <1>4, OnlyDef, Zenon DEF g
LEMMA OnlyFun ==
    ASSUME NEW K, NEW S, NEW s \in Seq(S)
    PROVE  \E f \in [0 .. Len(s) -> Seq(S \cap K)] : IsOnly(K, s, f) /\ Only(K, s) = f[Len(s)]
BY OnlyExists, OnlyUnique

\* Only keeps members of K and of the sequence.
LEMMA OnlyType ==
    ASSUME NEW K, NEW S, NEW s \in Seq(S)
    PROVE  Only(K, s) \in Seq(S \cap K)
<1>1. PICK f \in [0 .. Len(s) -> Seq(S \cap K)] : Only(K, s) = f[Len(s)]
    BY OnlyFun
<1>2. Len(s) \in 0 .. Len(s)
    OBVIOUS
<1> QED BY <1>1, <1>2

LEMMA OnlyEmpty == \A K : Only(K, <<>>) = <<>>
<1> SUFFICES ASSUME NEW K PROVE Only(K, <<>>) = <<>>
    OBVIOUS
<1>1. <<>> \in Seq({}) /\ Len(<<>>) = 0
    OBVIOUS
<1>2. PICK f \in [0 .. 0 -> Seq({} \cap K)] : IsOnly(K, <<>>, f) /\ Only(K, <<>>) = f[0]
    BY <1>1, OnlyFun
<1>3. f[0] = <<>>
    BY <1>1, <1>2 DEF IsOnly
<1> QED BY <1>2, <1>3

LEMMA OnlyAppend ==
    ASSUME NEW K, NEW S, NEW s \in Seq(S), NEW x \in S
    PROVE  Only(K, Append(s, x)) = Only(K, s) \o (IF x \in K THEN <<x>> ELSE <<>>)
<1> DEFINE t == Append(s, x)
           more == IF x \in K THEN <<x>> ELSE <<>>
           N == Len(s)
<1>1. PICK g \in [0 .. N -> Seq(S \cap K)] : IsOnly(K, s, g) /\ Only(K, s) = g[N]
    BY OnlyFun
<1> DEFINE f == [n \in 0 .. N + 1 |-> IF n = N + 1 THEN g[N] \o more ELSE g[n]]
<1>2. t \in Seq(S) /\ Len(t) = N + 1 /\ t[N + 1] = x /\ \A n \in 1 .. N : t[n] = s[n]
    BY AppendProperties
<1>3. Taken(K, t, N + 1) = more /\ \A n \in 1 .. N : Taken(K, t, n) = Taken(K, s, n)
    BY <1>2 DEF Taken
<1>4. ASSUME NEW n \in 0 .. N + 1
      PROVE  f[n] = IF n = 0 THEN <<>> ELSE f[n - 1] \o Taken(K, t, n)
    <2>0. N \in Nat
        OBVIOUS
    <2>1. CASE n = N + 1
        <3>1. f[n] = g[N] \o more /\ f[n - 1] = g[N] /\ n # 0
            BY <2>0, <2>1
        <3> QED BY <3>1, <2>1, <1>3
    <2>2. CASE n = 0
        <3>1. f[0] = g[0]
            BY <2>0
        <3> QED BY <3>1, <2>2, <1>1, <2>0 DEF IsOnly
    <2>3. CASE n # 0 /\ n # N + 1
        <3>1. n \in 1 .. N
            BY <2>0, <2>3
        <3>2. f[n] = g[n] /\ f[n - 1] = g[n - 1]
            BY <3>1, <2>0
        <3>3. g[n] = g[n - 1] \o Taken(K, s, n)
            <4>1. g = [k \in 0 .. N |-> IF k = 0 THEN <<>> ELSE g[k - 1] \o Taken(K, s, k)]
                BY <1>1 DEF IsOnly
            <4>2. n \in 0 .. N /\ n # 0
                BY <3>1
            <4> HIDE DEF N
            <4> QED BY <4>1, <4>2
        <3>4. Taken(K, t, n) = Taken(K, s, n)
            BY <3>1, <1>3
        <3> HIDE DEF f, t
        <3> QED BY <2>3, <3>2, <3>3, <3>4
    <2> QED BY <2>1, <2>2, <2>3
<1>5. IsOnly(K, t, f)
    <2>1. f = [n \in 0 .. N + 1 |-> f[n]]
        OBVIOUS
    <2> HIDE DEF f
    <2> QED BY <1>2, <1>4, <2>1 DEF IsOnly
<1>6. f[Len(t)] = g[N] \o more
    <2>1. N \in Nat
        OBVIOUS
    <2> QED BY <1>2, <2>1
<1>7. Only(K, t) = f[Len(t)]
    <2> HIDE DEF t, f
    <2> QED BY <1>2, <1>5, OnlyUnique
<1> QED BY <1>1, <1>6, <1>7

LEMMA OnlyConcat ==
    ASSUME NEW K, NEW S, NEW s \in Seq(S), NEW t \in Seq(S)
    PROVE  Only(K, s \o t) = Only(K, s) \o Only(K, t)
<1> DEFINE Pre(n) == SubSeq(t, 1, n)
           P == {n \in 0 .. Len(t) : Only(K, s \o Pre(n)) = Only(K, s) \o Only(K, Pre(n))}
<1>0. Only(K, s) \in Seq(S \cap K)
    BY OnlyType
<1>1. ASSUME NEW n \in 0 .. Len(t), \A m \in 0 .. n - 1 : m \in P PROVE n \in P
    <2>1. CASE n = 0
        <3>1. Pre(0) = <<>>
            BY SubSeqEmpty
        <3>2. s \o <<>> = s /\ Only(K, s) \o <<>> = Only(K, s)
            BY <1>0, ConcatEmptySeq
        <3> QED BY <2>1, <3>1, <3>2, OnlyEmpty
    <2>2. CASE n # 0
        <3>1. n \in 1 .. Len(t) /\ n - 1 \in 0 .. n - 1 /\ n - 1 \in 0 .. Len(t)
            BY <2>2
        <3>2. Pre(n) = Append(Pre(n - 1), t[n]) /\ Pre(n - 1) \in Seq(S) /\ t[n] \in S
            BY <3>1, SubSeqProperties, ElementOfSeq
        <3>3. s \o Pre(n) = Append(s \o Pre(n - 1), t[n]) /\ s \o Pre(n - 1) \in Seq(S)
            <4> HIDE DEF Pre
            <4> QED BY <3>2
        <3> DEFINE more == IF t[n] \in K THEN <<t[n]>> ELSE <<>>
        <3>4. Only(K, s \o Pre(n)) = Only(K, s \o Pre(n - 1)) \o more
            <4> HIDE DEF Pre
            <4> DEFINE u == s \o Pre(n - 1)
            <4>1. u \in Seq(S) /\ t[n] \in S
                BY <3>2, <3>3
            <4>2. Only(K, Append(u, t[n])) = Only(K, u) \o more
                <5> HIDE DEF u
                <5> QED BY <4>1, OnlyAppend
            <4> QED BY <3>3, <4>2
        <3>5. Only(K, Pre(n)) = Only(K, Pre(n - 1)) \o more
            <4> HIDE DEF Pre
            <4> QED BY <3>2, OnlyAppend
        <3>6. Only(K, s \o Pre(n - 1)) = Only(K, s) \o Only(K, Pre(n - 1))
            BY <1>1, <3>1
        <3>7. Only(K, Pre(n - 1)) \in Seq(S \cap K)
            BY <3>2, OnlyType
        <3>8. more \in Seq(S \cap K)
            <4>1. t[n] \in K => <<t[n]>> \in Seq(S \cap K)
                BY <3>2
            <4>2. <<>> \in Seq(S \cap K)
                OBVIOUS
            <4>3. CASE t[n] \in K
                BY <4>1, <4>3
            <4>4. CASE t[n] \notin K
                BY <4>2, <4>4
            <4> QED BY <4>3, <4>4
        <3>9. (Only(K, s) \o Only(K, Pre(n - 1))) \o more
                  = Only(K, s) \o (Only(K, Pre(n - 1)) \o more)
            <4> DEFINE x == Only(K, s)
                       y == Only(K, Pre(n - 1))
                       T == S \cap K
            <4>1. x \in Seq(T) /\ y \in Seq(T) /\ more \in Seq(T)
                BY <1>0, <3>7, <3>8
            <4> HIDE DEF more, x, y, T
            <4>2. (x \o y) \o more = x \o (y \o more)
                BY <4>1, ConcatAssociative, SMTT(20)
            <4> QED BY <4>2 DEF x, y
        <3> QED BY <3>4, <3>5, <3>6, <3>9
    <2> QED BY <2>1, <2>2
<1>2. Len(t) \in P
    <2>1. Len(t) \in Nat
        OBVIOUS
    <2> HIDE DEF P
    <2>2. \A n \in 0 .. Len(t) : n \in P
        BY <1>1, <2>1, UpTo
    <2> QED BY <2>1, <2>2
<1>3. Pre(Len(t)) = t
    BY SubSeqFull
<1> QED BY <1>2, <1>3
\* A function whose value at n is made of its value at n - 1.
IsIteration(N, e, next, f) == f[0] = e /\ \A n \in 1 .. N : f[n] = next[n][f[n - 1]]

LEMMA Iteration ==
    ASSUME NEW N \in Nat, NEW S, NEW e \in S, NEW next \in [1 .. N -> [S -> S]]
    PROVE  \E f \in [0 .. N -> S] : IsIteration(N, e, next, f)
<1> DEFINE step == [n \in 0 .. N |-> [f \in [0 .. N -> S] |->
                        IF n = 0 THEN e ELSE next[n][f[n - 1]]]]
<1>1. IsStep(N, S, step)
    <2>1. ASSUME NEW n \in 0 .. N, NEW f \in [0 .. N -> S]
          PROVE  (IF n = 0 THEN e ELSE next[n][f[n - 1]]) \in S
        <3>1. CASE n = 0
            BY <3>1
        <3>2. CASE n # 0
            <4>1. f[n - 1] \in S /\ next[n] \in [S -> S]
                BY <3>2
            <4> QED BY <3>2, <4>1
        <3> QED BY <3>1, <3>2
    <2>2. step \in [0 .. N -> [[0 .. N -> S] -> S]]
        BY <2>1
    <2>3. \A n \in 0 .. N : \A f, g \in [0 .. N -> S] :
              (\A m \in 0 .. n - 1 : f[m] = g[m]) => step[n][f] = step[n][g]
        OBVIOUS
    <2> QED BY <2>2, <2>3 DEF IsStep
<1>2. \E f \in [0 .. N -> S] : Follows(N, f, step)
    <2> HIDE DEF step
    <2> QED BY <1>1, Recursion
<1>3. PICK f \in [0 .. N -> S] : Follows(N, f, step)
    BY <1>2
<1>4. \A n \in 0 .. N : f[n] = IF n = 0 THEN e ELSE next[n][f[n - 1]]
    BY <1>3 DEF Follows
<1>5. IsIteration(N, e, next, f)
    BY <1>4 DEF IsIteration
<1> QED BY <1>5

-----------------------------------------------------------------------------
\* f is what Flat(s) is defined by, when s is not empty.
IsFlat(s, f) == f = [i \in 1 .. Len(s) |-> IF i = 1 THEN s[i] ELSE f[i - 1] \o s[i]]

LEMMA FlatDef ==
    ASSUME NEW s, Len(s) # 0
    PROVE  Flat(s) = (CHOOSE f : IsFlat(s, f))[Len(s)]
BY Zenon DEF Flat, FlattenSeq, IsFlat

LEMMA FlatEmpty == Flat(<<>>) = <<>>
BY DEF Flat, FlattenSeq

LEMMA FlatUnique ==
    ASSUME NEW S, NEW s \in Seq(S), Len(s) # 0, NEW f, IsFlat(s, f)
    PROVE  Flat(s) = f[Len(s)]
<1> DEFINE g == CHOOSE h : IsFlat(s, h)
           P == {n \in 0 .. Len(s) : n # 0 => f[n] = g[n]}
<1>1. IsFlat(s, g)
    BY Zenon
<1> HIDE DEF g
<1>2. ASSUME NEW n \in 0 .. Len(s), \A m \in 0 .. n - 1 : m \in P PROVE n \in P
    <2>1. CASE n \in {0, 1}
        BY <1>1, <2>1 DEF IsFlat
    <2>2. CASE n \notin {0, 1}
        <3>1. n - 1 \in 0 .. n - 1 /\ n - 1 # 0 /\ n \in 1 .. Len(s)
            BY <2>2
        <3>2. f[n - 1] = g[n - 1]
            BY <1>2, <3>1
        <3>3. /\ f = [i \in 1 .. Len(s) |-> IF i = 1 THEN s[i] ELSE f[i - 1] \o s[i]]
              /\ g = [i \in 1 .. Len(s) |-> IF i = 1 THEN s[i] ELSE g[i - 1] \o s[i]]
            BY <1>1 DEF IsFlat
        <3>4. f[n] = f[n - 1] \o s[n] /\ g[n] = g[n - 1] \o s[n]
            BY <2>2, <3>1, <3>3
        <3> QED BY <3>2, <3>4
    <2> QED BY <2>1, <2>2
<1>3. f[Len(s)] = g[Len(s)]
    <2>1. Len(s) \in Nat
        OBVIOUS
    <2> HIDE DEF P
    <2>2. \A n \in 0 .. Len(s) : n \in P
        BY <1>2, <2>1, UpTo
    <2> QED BY <2>1, <2>2 DEF P
<1> QED BY <1>3, FlatDef, Zenon DEF g

LEMMA FlatFun ==
    ASSUME NEW S, NEW s \in Seq(Seq(S)), Len(s) # 0
    PROVE  \E f \in [1 .. Len(s) -> Seq(S)] : IsFlat(s, f) /\ Flat(s) = f[Len(s)]
<1> DEFINE N == Len(s)
           T == Seq(S)
           next == [n \in 1 .. N |-> [t \in T |-> t \o s[n]]]
<1>1. N \in Nat /\ <<>> \in T
    OBVIOUS
<1>2. next \in [1 .. N -> [T -> T]]
    <2>1. ASSUME NEW n \in 1 .. N, NEW t \in T PROVE t \o s[n] \in T
        <3>1. s[n] \in T
            BY ElementOfSeq
        <3> QED BY <3>1
    <2> QED BY <2>1
<1>3. \E f \in [0 .. N -> T] : IsIteration(N, <<>>, next, f)
    <2> HIDE DEF N, T, next
    <2> QED BY <1>1, <1>2, Iteration
<1>4. PICK f \in [0 .. N -> T] : IsIteration(N, <<>>, next, f)
    BY <1>3
<1> DEFINE g == [n \in 1 .. N |-> f[n]]
<1>5. g \in [1 .. N -> T]
    BY <1>1
<1>6. ASSUME NEW n \in 1 .. N PROVE g[n] = IF n = 1 THEN s[n] ELSE g[n - 1] \o s[n]
    <2>1. f[n] = f[n - 1] \o s[n]
        <3>1. n - 1 \in 0 .. N
            BY <1>1
        <3>2. f[n - 1] \in T /\ f[n] = next[n][f[n - 1]]
            BY <3>1, <1>4 DEF IsIteration
        <3> QED BY <3>2
    <2>2. CASE n = 1
        <3>1. f[0] = <<>>
            BY <1>4 DEF IsIteration
        <3>2. s[n] \in T
            BY ElementOfSeq
        <3>3. <<>> \o s[n] = s[n]
            BY <3>2, ConcatEmptySeq
        <3>4. f[n] = <<>> \o s[n]
            <4>1. n - 1 = 0
                BY <2>2
            <4> QED BY <2>1, <3>1, <4>1
        <3> QED BY <2>2, <3>3, <3>4
    <2>3. CASE n # 1
        <3>1. n - 1 \in 1 .. N
            BY <2>3, <1>1
        <3> QED BY <2>1, <2>3, <3>1
    <2> QED BY <2>2, <2>3
<1>7. IsFlat(s, g)
    <2>1. g = [n \in 1 .. N |-> g[n]]
        OBVIOUS
    <2> HIDE DEF g
    <2> QED BY <1>6, <2>1 DEF IsFlat
<1>8. Flat(s) = g[Len(s)]
    <2> HIDE DEF g
    <2> QED BY <1>7, FlatUnique
<1> QED BY <1>5, <1>7, <1>8

LEMMA FlatType ==
    ASSUME NEW S, NEW s \in Seq(Seq(S))
    PROVE  Flat(s) \in Seq(S)
<1>1. CASE Len(s) = 0
    <2>1. s = <<>>
        BY <1>1, EmptySeq
    <2>2. <<>> \in Seq(S)
        OBVIOUS
    <2> QED BY <2>1, <2>2, FlatEmpty
<1>2. CASE Len(s) # 0
    <2>1. PICK f \in [1 .. Len(s) -> Seq(S)] : Flat(s) = f[Len(s)]
        BY <1>2, FlatFun
    <2>2. Len(s) \in 1 .. Len(s)
        BY <1>2
    <2> QED BY <2>1, <2>2
<1> QED BY <1>1, <1>2

LEMMA FlatAppend ==
    ASSUME NEW S, NEW s \in Seq(Seq(S)), NEW x \in Seq(S)
    PROVE  Flat(Append(s, x)) = Flat(s) \o x
<1> DEFINE t == Append(s, x)
           N == Len(s)
<1>1. t \in Seq(Seq(S)) /\ Len(t) = N + 1 /\ t[N + 1] = x /\ \A n \in 1 .. N : t[n] = s[n]
    BY AppendProperties
<1>0. N \in Nat
    OBVIOUS
<1>2. CASE N = 0
    <2>1. s = <<>> /\ <<>> \o x = x
        BY <1>2, EmptySeq, ConcatEmptySeq
    <2> DEFINE f == [i \in 1 .. 1 |-> x]
    <2>2. IsFlat(t, f)
        BY <1>1, <1>2 DEF IsFlat
    <2>3. Flat(t) = f[1]
        <3>1. t \in Seq(Seq(S)) /\ Len(t) = 1 /\ Len(t) # 0
            BY <1>1, <1>2
        <3> HIDE DEF f, t
        <3> QED BY <3>1, <2>2, FlatUnique
    <2>4. f[1] = x
        OBVIOUS
    <2> HIDE DEF t, f
    <2> QED BY <2>1, <2>3, <2>4, FlatEmpty DEF t
<1>3. CASE N # 0
    <2>1. PICK g \in [1 .. N -> Seq(S)] : IsFlat(s, g) /\ Flat(s) = g[N]
        BY <1>3, FlatFun
    <2> DEFINE f == [n \in 1 .. N + 1 |-> IF n = N + 1 THEN g[N] \o x ELSE g[n]]
    <2>2. ASSUME NEW n \in 1 .. N + 1
          PROVE  f[n] = IF n = 1 THEN t[n] ELSE f[n - 1] \o t[n]
        <3>1. CASE n = N + 1
            <4>1. f[n] = g[N] \o x /\ f[n - 1] = g[N] /\ n # 1
                BY <1>0, <1>3, <3>1
            <4> QED BY <4>1, <3>1, <1>1
        <3>2. CASE n # N + 1
            <4>1. n \in 1 .. N /\ f[n] = g[n] /\ (n # 1 => f[n - 1] = g[n - 1])
                BY <1>0, <3>2
            <4>2. g = [k \in 1 .. N |-> IF k = 1 THEN s[k] ELSE g[k - 1] \o s[k]]
                BY <2>1 DEF IsFlat
            <4>3. t[n] = s[n]
                BY <1>1, <4>1
            <4> HIDE DEF f, t, N
            <4> QED BY <4>1, <4>2, <4>3
        <3> QED BY <3>1, <3>2
    <2>3. IsFlat(t, f)
        <3>1. f = [n \in 1 .. N + 1 |-> f[n]]
            OBVIOUS
        <3> HIDE DEF f
        <3> QED BY <1>1, <2>2, <3>1 DEF IsFlat
    <2>4. Flat(t) = f[N + 1]
        <3> HIDE DEF f, t
        <3> QED BY <1>0, <1>1, <2>3, FlatUnique
    <2>5. f[N + 1] = g[N] \o x
        BY <1>0
    <2> QED BY <2>1, <2>4, <2>5
<1> QED BY <1>2, <1>3

\* The keys of two readings in a row are the keys of both in a row.
LEMMA FlatConcat ==
    ASSUME NEW S, NEW s \in Seq(Seq(S)), NEW t \in Seq(Seq(S))
    PROVE  Flat(s \o t) = Flat(s) \o Flat(t)
<1> DEFINE Pre(n) == SubSeq(t, 1, n)
           P == {n \in 0 .. Len(t) : Flat(s \o Pre(n)) = Flat(s) \o Flat(Pre(n))}
<1>0. Flat(s) \in Seq(S)
    BY FlatType
<1>1. ASSUME NEW n \in 0 .. Len(t), \A m \in 0 .. n - 1 : m \in P PROVE n \in P
    <2>1. CASE n = 0
        <3>1. Pre(0) = <<>>
            BY SubSeqEmpty
        <3>2. s \o <<>> = s /\ Flat(s) \o <<>> = Flat(s)
            BY <1>0, ConcatEmptySeq
        <3> QED BY <2>1, <3>1, <3>2, FlatEmpty
    <2>2. CASE n # 0
        <3>1. n \in 1 .. Len(t) /\ n - 1 \in 0 .. n - 1 /\ n - 1 \in 0 .. Len(t)
            BY <2>2
        <3>2. Pre(n) = Append(Pre(n - 1), t[n]) /\ Pre(n - 1) \in Seq(Seq(S)) /\ t[n] \in Seq(S)
            BY <3>1, SubSeqProperties, ElementOfSeq
        <3> DEFINE u == s \o Pre(n - 1)
        <3>3. s \o Pre(n) = Append(u, t[n]) /\ u \in Seq(Seq(S))
            <4> DEFINE p == Pre(n - 1)
            <4>1. p \in Seq(Seq(S)) /\ Pre(n) = Append(p, t[n]) /\ t[n] \in Seq(S)
                BY <3>2
            <4>2. s \o Append(p, t[n]) = Append(s \o p, t[n]) /\ s \o p \in Seq(Seq(S))
                <5> HIDE DEF p
                <5>1. Append(p, t[n]) = p \o <<t[n]>> /\ <<t[n]>> \in Seq(Seq(S))
                    BY <4>1
                <5>2. s \o p \in Seq(Seq(S)) /\ Append(s \o p, t[n]) = (s \o p) \o <<t[n]>>
                    BY <4>1, ConcatProperties, AppendIsConcat
                <5>3. s \o (p \o <<t[n]>>) = (s \o p) \o <<t[n]>>
                    <6> DEFINE c == <<t[n]>>
                               T == Seq(S)
                    <6>1. s \in Seq(T) /\ p \in Seq(T) /\ c \in Seq(T)
                        BY <4>1, <5>1
                    <6> HIDE DEF c, T
                    <6>2. s \o (p \o c) = (s \o p) \o c
                        BY <6>1, ConcatAssociative, SMTT(20)
                    <6> QED BY <6>2 DEF c
                <5> QED BY <5>1, <5>2, <5>3
            <4> QED BY <4>1, <4>2
        <3>4. Flat(Append(u, t[n])) = Flat(u) \o t[n]
            <4> HIDE DEF u
            <4> QED BY <3>2, <3>3, FlatAppend
        <3>5. Flat(Pre(n)) = Flat(Pre(n - 1)) \o t[n]
            <4> HIDE DEF Pre
            <4> QED BY <3>2, FlatAppend
        <3>6. Flat(u) = Flat(s) \o Flat(Pre(n - 1))
            BY <1>1, <3>1
        <3>7. Flat(Pre(n - 1)) \in Seq(S)
            BY <3>2, FlatType
        <3>8. (Flat(s) \o Flat(Pre(n - 1))) \o t[n] = Flat(s) \o (Flat(Pre(n - 1)) \o t[n])
            <4> DEFINE a == Flat(s)
                       b == Flat(Pre(n - 1))
                       c == t[n]
            <4>1. a \in Seq(S) /\ b \in Seq(S) /\ c \in Seq(S)
                BY <1>0, <3>2, <3>7
            <4>2. (a \o b) \o c = a \o (b \o c)
                <5> HIDE DEF a, b, c
                <5> QED BY <4>1, ConcatAssociative, SMTT(20)
            <4> QED BY <4>2
        <3> QED BY <3>3, <3>4, <3>5, <3>6, <3>8
    <2> QED BY <2>1, <2>2
<1>2. Len(t) \in P
    <2>1. Len(t) \in Nat
        OBVIOUS
    <2> HIDE DEF P
    <2>2. \A n \in 0 .. Len(t) : n \in P
        BY <1>1, <2>1, UpTo
    <2> QED BY <2>1, <2>2
<1>3. Pre(Len(t)) = t
    BY SubSeqFull
<1> QED BY <1>2, <1>3
-----------------------------------------------------------------------------
(* THE ENGINE *)
Words == Seq(Printable)
Unit  == Words \ {<<>>}
Units == Seq(Unit)
Layout(l) == l \in SeqLayoutType

\* The longest entry of the layout that begins the keys: an entry and a prefix, or nothing.
LEMMA LongestPrefixIs ==
    ASSUME NEW l, Layout(l), NEW s \in Words, s # <<>>
    PROVE  LET e == LongestPrefix(l, s)
           IN  e \in Words /\ Len(e) \in 1 .. Len(s) /\ e = SubSeq(s, 1, Len(e))
<1> DEFINE W == l.words \cup {<<s[1]>>}
           Fits(e) == IsPrefix(e, s)
           Longest(e) == IsPrefix(e, s) /\ \A v \in l.words : IsPrefix(v, s) => Len(v) <= Len(e)
           N == {n \in 0 .. Len(s) : \E e \in W : Fits(e) /\ Len(e) = n}
<1>1. /\ l.words \subseteq Words /\ <<>> \notin l.words
      /\ s[1] \in Printable /\ Len(s) \in Nat /\ Len(s) # 0
    BY EmptySeq DEF Layout, SeqLayoutType, Words
<1>2. \A e \in W : e \in Words /\ Len(e) \in Nat /\ Len(e) # 0
    <2> SUFFICES ASSUME NEW e \in W PROVE e \in Words /\ Len(e) \in Nat /\ Len(e) # 0
        OBVIOUS
    <2>1. CASE e \in l.words
        BY <1>1, <2>1, EmptySeq DEF Words
    <2>2. CASE e = <<s[1]>>
        BY <1>1, <2>2 DEF Words
    <2> QED BY <2>1, <2>2
<1>3. IsPrefix(<<s[1]>>, s)
    <2> DEFINE c == <<s[1]>>
               d == SubSeq(s, 1, 1)
    <2>0. c \in Seq(Printable) /\ Len(c) = 1 /\ c[1] = s[1]
        BY <1>1
    <2>1. SubSeq(c, 1, 1) = c
        <3> HIDE DEF c
        <3> QED BY <2>0, SubSeqFull
    <2>2. d \in Seq(Printable) /\ Len(d) = 1 /\ d[1] = s[1]
        BY <1>1 DEF Words
    <2>3. c = d
        <3> HIDE DEF c, d
        <3> QED BY <2>0, <2>2, SeqEqual
    <2> QED BY <1>1, <2>0, <2>1, <2>3 DEF IsPrefix
<1>4. N # {}
    <2>1. Len(<<s[1]>>) = 1 /\ 1 \in 0 .. Len(s)
        BY <1>1
    <2> QED BY <1>3, <2>1
<1>5. PICK m \in N : \A n \in N : n <= m
    <2>1. N \in SUBSET (0 .. Len(s))
        OBVIOUS
    <2> HIDE DEF N
    <2> QED BY <1>1, <1>4, <2>1, GreatestNumber
<1>6. PICK e \in W : Fits(e) /\ Len(e) = m
    BY <1>5
<1>7. Longest(e)
    <2> SUFFICES ASSUME NEW v \in l.words, IsPrefix(v, s) PROVE Len(v) <= Len(e)
        BY <1>6
    <2>1. Len(v) \in 0 .. Len(s)
        BY <1>1, <1>2 DEF IsPrefix
    <2>2. Len(v) \in N
        BY <2>1
    <2> QED BY <1>5, <1>6, <2>2
<1>8. LongestPrefix(l, s) \in W /\ Longest(LongestPrefix(l, s))
    <2>1. \E x \in W : Longest(x)
        BY <1>7
    <2>2. LongestPrefix(l, s) = CHOOSE x \in W : Longest(x)
        BY DEF LongestPrefix
    <2> HIDE DEF W, Longest
    <2> QED BY <2>1, <2>2, Zenon
<1>9. \A x \in W : IsPrefix(x, s) =>
          x \in Words /\ Len(x) \in 1 .. Len(s) /\ x = SubSeq(s, 1, Len(x))
    <2> SUFFICES ASSUME NEW x \in W, IsPrefix(x, s)
                 PROVE  Len(x) \in 1 .. Len(s) /\ x = SubSeq(s, 1, Len(x))
        BY <1>2
    <2>1. x \in Words /\ Len(x) \in Nat /\ Len(x) # 0
        BY <1>2
    <2>2. SubSeq(x, 1, Len(x)) = x
        BY <2>1, SubSeqFull DEF Words
    <2> QED BY <1>1, <2>1, <2>2 DEF IsPrefix
<1> QED BY <1>8, <1>9

\* The last n keys of buf.
Rest(buf, n) == SubSeq(buf, Len(buf) - n + 1, Len(buf))
CutStep(l, at, buf, n, f) ==
    IF n = 0 \/ (at # "boundary" /\ HasLonger(l, Rest(buf, n)))
    THEN [units |-> <<>>, tail |-> Rest(buf, n)]
    ELSE [f[n - Len(LongestPrefix(l, Rest(buf, n)))]
             EXCEPT !.units = <<LongestPrefix(l, Rest(buf, n))>> \o @]
IsCut(l, at, buf, f) == f = [n \in 0 .. Len(buf) |-> CutStep(l, at, buf, n, f)]
Cuttings == [units : Units, tail : Words]

LEMMA CutDef ==
    ASSUME NEW l, NEW b, NEW buf
    PROVE  Cut(l, b, buf) = (CHOOSE f : IsCut(l, b, buf, f))[Len(buf)]
BY Zenon DEF Cut, IsCut, CutStep, Rest

\* What is left of the keys after a cut.
LEMMA RestIs ==
    ASSUME NEW buf \in Words, NEW n \in 0 .. Len(buf)
    PROVE  /\ Rest(buf, n) \in Words /\ Len(Rest(buf, n)) = n
           /\ Rest(buf, 0) = <<>> /\ Rest(buf, Len(buf)) = buf
           /\ \A m \in 1 .. n : SubSeq(Rest(buf, n), 1, m) \o Rest(buf, n - m) = Rest(buf, n)
<1> USE DEF Words
<1>1. Len(buf) \in Nat /\ buf \in Seq(Printable)
    OBVIOUS
<1>2. Rest(buf, n) \in Words /\ Len(Rest(buf, n)) = n
    BY SubSeqProperties DEF Rest
<1>3. Rest(buf, 0) = <<>>
    BY SubSeqEmpty DEF Rest
<1>4. Rest(buf, Len(buf)) = buf
    BY SubSeqFull DEF Rest
<1>5. ASSUME NEW m \in 1 .. n
      PROVE  SubSeq(Rest(buf, n), 1, m) \o Rest(buf, n - m) = Rest(buf, n)
    <2> DEFINE a == SubSeq(Rest(buf, n), 1, m)
               b == Rest(buf, n - m)
               c == Rest(buf, n)
    <2>2. /\ b \in Words /\ Len(b) = n - m /\ \A i \in 1 .. n - m : b[i] = buf[Len(buf) - n + m + i]
        <3>1. n - m \in 0 .. Len(buf) /\ Len(buf) - (n - m) + 1 \in 1 .. Len(buf) + 1
            BY <1>1
        <3>2. /\ b \in Words /\ Len(b) = n - m
              /\ \A i \in 1 .. n - m : b[i] = buf[Len(buf) - (n - m) + 1 + i - 1]
            BY <3>1, <1>1, SubSeqProperties DEF Rest
        <3> HIDE DEF b
        <3> QED BY <3>2, <1>1
    <2>3. /\ c \in Words /\ Len(c) = n /\ \A i \in 1 .. n : c[i] = buf[Len(buf) - n + i]
        <3>1. /\ c \in Words /\ Len(c) = n
              /\ \A i \in 1 .. n : c[i] = buf[Len(buf) - n + 1 + i - 1]
            BY <1>1, SubSeqProperties DEF Rest
        <3> HIDE DEF c
        <3> QED BY <3>1, <1>1
    <2>1. /\ a \in Words /\ Len(a) = m /\ \A i \in 1 .. m : a[i] = buf[Len(buf) - n + i]
        <3>1. c \in Seq(Printable) /\ m <= Len(c) /\ m \in Nat /\ Len(c) = n /\ a = SubSeq(c, 1, m)
            BY <2>3
        <3>2. \A i \in 1 .. m : c[i] \in Printable /\ c[i] = buf[Len(buf) - n + i]
            BY <2>3, <3>1, ElementOfSeq
        <3> HIDE DEF a, c
        <3>3. a \in Words /\ Len(a) = m /\ \A i \in 1 .. m : a[i] = c[1 + i - 1]
            BY <3>1, <3>2, SubSeqProperties
        <3> QED BY <3>2, <3>3
    <2> HIDE DEF a, b, c
    <2>4. a \o b \in Words /\ Len(a \o b) = n
        <3>1. a \o b \in Seq(Printable) /\ Len(a \o b) = Len(a) + Len(b)
            BY <2>1, <2>2, ConcatProperties
        <3> QED BY <3>1, <2>1, <2>2
    <2>5. ASSUME NEW i \in 1 .. n PROVE (a \o b)[i] = c[i]
        <3>1. (a \o b)[i] = IF i <= Len(a) THEN a[i] ELSE b[i - Len(a)]
            BY <2>1, <2>2, ConcatProperties
        <3>2. CASE i <= m
            BY <2>1, <2>3, <3>1, <3>2
        <3>3. CASE i > m
            <4>1. i - m \in 1 .. n - m
                BY <3>3
            <4>2. b[i - m] = buf[Len(buf) - n + m + (i - m)]
                BY <2>2, <4>1
            <4> QED BY <1>1, <2>1, <2>3, <3>1, <3>3, <4>2
        <3>4. i <= m \/ i > m
            BY <1>1
        <3> QED BY <3>2, <3>3, <3>4
    <2> QED BY <2>3, <2>4, <2>5, SeqEqual DEF a, b, c
<1> QED BY <1>2, <1>3, <1>4, <1>5
LEMMA UnitsAreWords == \A u \in Units : u \in Seq(Seq(Printable)) /\ Flat(u) \in Words
<1> SUFFICES ASSUME NEW u \in Units PROVE u \in Seq(Seq(Printable)) /\ Flat(u) \in Words
    OBVIOUS
<1>1. Unit \subseteq Seq(Printable)
    BY DEF Unit, Words
<1>2. u \in Seq(Seq(Printable))
    BY <1>1, SeqMonotonic DEF Units
<1> QED BY <1>2, FlatType DEF Words

LEMMA WordsJoin ==
    /\ <<>> \in Words
    /\ \A a \in Words : a \o <<>> = a /\ <<>> \o a = a
    /\ \A a, b \in Words : a \o b \in Words
    /\ \A a, b, c \in Words : (a \o b) \o c = a \o (b \o c)
<1>1. \A a, b, c \in Words : (a \o b) \o c = a \o (b \o c)
    BY ConcatAssociative DEF Words
<1>2. \A a \in Words : a \o <<>> = a /\ <<>> \o a = a
    BY ConcatEmptySeq DEF Words
<1>3. <<>> \in Words /\ \A a, b \in Words : a \o b \in Words
    BY DEF Words
<1> QED BY <1>1, <1>2, <1>3

LEMMA UnitsJoin ==
    /\ <<>> \in Units /\ \A u \in Unit : <<u>> \in Units
    /\ \A u, v \in Units : u \o v \in Units /\ Flat(u \o v) = Flat(u) \o Flat(v)
    /\ \A u \in Units, x \in Unit : Append(u, x) \in Units /\ Flat(Append(u, x)) = Flat(u) \o x
<1>1. \A u, v \in Units : Flat(u \o v) = Flat(u) \o Flat(v)
    BY UnitsAreWords, FlatConcat
<1>2. \A u \in Units, x \in Unit : Flat(Append(u, x)) = Flat(u) \o x
    BY UnitsAreWords, FlatAppend DEF Unit, Words
<1>3. <<>> \in Units /\ \A u \in Unit : <<u>> \in Units
    BY DEF Units
<1>4. \A u, v \in Units : u \o v \in Units
    BY DEF Units
<1>5. \A u \in Units, x \in Unit : Append(u, x) \in Units
    BY DEF Units
<1> QED BY <1>1, <1>2, <1>3, <1>4, <1>5

LEMMA FlatOne == \A u \in Words : Flat(<<u>>) = u
<1> SUFFICES ASSUME NEW u \in Words PROVE Flat(<<u>>) = u
    OBVIOUS
<1>1. <<>> \in Seq(Seq(Printable)) /\ Append(<<>>, u) = <<u>> /\ <<>> \o u = u
    BY DEF Words
<1>2. Flat(Append(<<>>, u)) = Flat(<<>>) \o u
    BY <1>1, FlatAppend DEF Words
<1> QED BY <1>1, <1>2, FlatEmpty

\* The two ways a cutting of the last n keys comes about.
NothingCut(b, buf, n, c) == c = [units |-> <<>>, tail |-> Rest(buf, n)] /\ (b = "boundary" => n = 0)
PieceCut(buf, n, f, c, p) ==
    /\ p \in Unit /\ n - Len(p) \in 0 .. n - 1
    /\ c = [units |-> <<p>> \o f[n - Len(p)].units, tail |-> f[n - Len(p)].tail]
    /\ p \o Rest(buf, n - Len(p)) = Rest(buf, n)

LEMMA CutStepType ==
    ASSUME NEW l, Layout(l), NEW b, NEW buf \in Words, NEW n \in 0 .. Len(buf),
           NEW f, \A m \in 0 .. n - 1 : f[m] \in Cuttings
    PROVE  /\ CutStep(l, b, buf, n, f) \in Cuttings
           /\ \/ NothingCut(b, buf, n, CutStep(l, b, buf, n, f))
              \/ \E p : PieceCut(buf, n, f, CutStep(l, b, buf, n, f), p)
<1> DEFINE s == Rest(buf, n)
           p == LongestPrefix(l, s)
<1>1. s \in Words /\ Len(s) = n
    BY RestIs
<1>2. CASE n = 0 \/ (b # "boundary" /\ HasLonger(l, s))
    <2>1. CutStep(l, b, buf, n, f) = [units |-> <<>>, tail |-> s] /\ (b = "boundary" => n = 0)
        BY <1>2 DEF CutStep
    <2>2. <<>> \in Units
        BY DEF Units
    <2> HIDE DEF s
    <2>3. CutStep(l, b, buf, n, f) \in Cuttings
        BY <1>1, <2>1, <2>2 DEF Cuttings
    <2> QED BY <2>1, <2>3 DEF NothingCut, s
<1>3. CASE ~(n = 0 \/ (b # "boundary" /\ HasLonger(l, s)))
    <2>1. s # <<>>
        BY <1>1, <1>3
    <2>2. p \in Words /\ Len(p) \in 1 .. n /\ p = SubSeq(s, 1, Len(p))
        BY <1>1, <2>1, LongestPrefixIs
    <2>3. p \in Unit
        BY <2>2 DEF Unit, Words
    <2>4. n - Len(p) \in 0 .. n - 1
        BY <2>2
    <2> DEFINE r == f[n - Len(p)]
    <2>5. r \in Cuttings
        BY <2>4
    <2>6. CutStep(l, b, buf, n, f) = [r EXCEPT !.units = <<p>> \o @]
        BY <1>3 DEF CutStep
    <2>7. p \o Rest(buf, n - Len(p)) = s
        <3>1. \A m \in 1 .. n : SubSeq(s, 1, m) \o Rest(buf, n - m) = s
            BY RestIs
        <3>2. SubSeq(s, 1, Len(p)) \o Rest(buf, n - Len(p)) = s
            <4> HIDE DEF p, s
            <4> QED BY <2>2, <3>1
        <3> HIDE DEF p, s
        <3> QED BY <2>2, <3>2
    <2>8. <<p>> \o r.units \in Units
        <3>1. r.units \in Seq(Unit) /\ <<p>> \in Seq(Unit)
            BY <2>3, <2>5 DEF Cuttings, Units
        <3> HIDE DEF r, p
        <3> QED BY <3>1 DEF Units
    <2> HIDE DEF r
    <2>9. [r EXCEPT !.units = <<p>> \o @] = [units |-> <<p>> \o r.units, tail |-> r.tail]
        <3> DEFINE u == <<p>> \o r.units
        <3>1. u \in Units
            BY <2>8
        <3> HIDE DEF u
        <3>2. [r EXCEPT !.units = u] = [units |-> u, tail |-> r.tail]
            BY <2>5, <3>1 DEF Cuttings
        <3> QED BY <3>2 DEF u
    <2>10. CutStep(l, b, buf, n, f) \in Cuttings
        <3> HIDE DEF p
        <3> QED BY <2>5, <2>6, <2>8, <2>9 DEF Cuttings
    <2>11. CutStep(l, b, buf, n, f)
               = [units |-> <<p>> \o f[n - Len(p)].units, tail |-> f[n - Len(p)].tail]
        BY <2>6, <2>9 DEF r
    <2>12. PieceCut(buf, n, f, CutStep(l, b, buf, n, f), p)
        <3> HIDE DEF p
        <3> QED BY <2>3, <2>4, <2>7, <2>11 DEF PieceCut, s
    <2> QED BY <2>10, <2>12
<1> QED BY <1>2, <1>3

\* Cutting keys into entries ends, for every length of keys.
LEMMA CutExists ==
    ASSUME NEW l, Layout(l), NEW b, NEW buf \in Words
    PROVE  \E f \in [0 .. Len(buf) -> Cuttings] : IsCut(l, b, buf, f)
<1> DEFINE N == Len(buf)
           step == [n \in 0 .. N |-> [f \in [0 .. N -> Cuttings] |-> CutStep(l, b, buf, n, f)]]
<1>1. N \in Nat /\ [units |-> <<>>, tail |-> <<>>] \in Cuttings
    BY DEF Cuttings, Words, Units
<1>2. IsStep(N, Cuttings, step)
    <2>1. ASSUME NEW n \in 0 .. N, NEW f \in [0 .. N -> Cuttings]
          PROVE  CutStep(l, b, buf, n, f) \in Cuttings
        <3>1. \A m \in 0 .. n - 1 : f[m] \in Cuttings
            BY <1>1
        <3> QED BY <3>1, CutStepType
    <2>2. step \in [0 .. N -> [[0 .. N -> Cuttings] -> Cuttings]]
        BY <2>1
    <2>3. ASSUME NEW n \in 0 .. N, NEW f \in [0 .. N -> Cuttings], NEW g \in [0 .. N -> Cuttings],
                 \A m \in 0 .. n - 1 : f[m] = g[m]
          PROVE  step[n][f] = step[n][g]
        <3> DEFINE p == LongestPrefix(l, Rest(buf, n))
        <3>1. step[n][f] = CutStep(l, b, buf, n, f) /\ step[n][g] = CutStep(l, b, buf, n, g)
            OBVIOUS
        <3>2. \A m \in 0 .. n - 1 : f[m] \in Cuttings
            BY <1>1
        <3>3. CASE n = 0 \/ (b # "boundary" /\ HasLonger(l, Rest(buf, n)))
            BY <3>1, <3>3 DEF CutStep
        <3>4. CASE ~(n = 0 \/ (b # "boundary" /\ HasLonger(l, Rest(buf, n))))
            <4>1. Rest(buf, n) \in Words /\ Len(Rest(buf, n)) = n /\ Rest(buf, n) # <<>>
                BY <3>4, RestIs
            <4>2. Len(p) \in 1 .. n
                BY <4>1, LongestPrefixIs
            <4>3. f[n - Len(p)] = g[n - Len(p)]
                BY <2>3, <4>2
            <4> HIDE DEF step
            <4> QED BY <3>1, <3>4, <4>3 DEF CutStep
        <3> QED BY <3>3, <3>4
    <2> HIDE DEF step
    <2> QED BY <2>2, <2>3 DEF IsStep
<1>3. \E f \in [0 .. N -> Cuttings] : Follows(N, f, step)
    <2> HIDE DEF N, step
    <2> QED BY <1>1, <1>2, Recursion
<1>4. PICK f \in [0 .. N -> Cuttings] : Follows(N, f, step)
    BY <1>3
<1>5. \A n \in 0 .. N : f[n] = CutStep(l, b, buf, n, f)
    BY <1>4 DEF Follows
<1>6. IsCut(l, b, buf, f)
    BY <1>5 DEF IsCut
<1> QED BY <1>6

\* What is cut off, and what is left, are the keys of the buffer.
LEMMA CutIs ==
    ASSUME NEW l, Layout(l), NEW b, NEW buf \in Words
    PROVE  LET c == Cut(l, b, buf)
           IN  c \in Cuttings /\ (b = "boundary" => c.tail = <<>>) /\ Flat(c.units) \o c.tail = buf
<1> DEFINE N == Len(buf)
           g == CHOOSE f : IsCut(l, b, buf, f)
           P == {n \in 0 .. N : /\ g[n] \in Cuttings /\ (b = "boundary" => g[n].tail = <<>>)
                                /\ Flat(g[n].units) \o g[n].tail = Rest(buf, n)}
<1>1. IsCut(l, b, buf, g)
    BY CutExists, Zenon
<1>2. Cut(l, b, buf) = g[N]
    BY CutDef
<1> HIDE DEF g
<1>3. N \in Nat
    BY DEF Words
<1>4. ASSUME NEW n \in 0 .. N, \A m \in 0 .. n - 1 : m \in P PROVE n \in P
    <2>1. g[n] = CutStep(l, b, buf, n, g)
        BY <1>1 DEF IsCut
    <2>2. \A m \in 0 .. n - 1 : g[m] \in Cuttings
        BY <1>4
    <2>3. /\ g[n] \in Cuttings
          /\ NothingCut(b, buf, n, g[n]) \/ \E p : PieceCut(buf, n, g, g[n], p)
        BY <2>1, <2>2, CutStepType
    <2>4. CASE NothingCut(b, buf, n, g[n])
        <3>1. g[n].units = <<>> /\ g[n].tail = Rest(buf, n) /\ (b = "boundary" => n = 0)
            BY <2>4 DEF NothingCut
        <3>2. Flat(g[n].units) \o g[n].tail = Rest(buf, n)
            BY <3>1, RestIs, FlatEmpty, WordsJoin
        <3>3. b = "boundary" => g[n].tail = <<>>
            BY <3>1, RestIs
        <3> QED BY <2>3, <3>2, <3>3
    <2>5. CASE \E p : PieceCut(buf, n, g, g[n], p)
        <3>0. PICK p : PieceCut(buf, n, g, g[n], p)
            BY <2>5
        <3> DEFINE m == n - Len(p)
                   r == g[m]
        <3>1. /\ p \in Unit /\ m \in 0 .. n - 1 /\ p \o Rest(buf, m) = Rest(buf, n)
              /\ g[n].units = <<p>> \o r.units /\ g[n].tail = r.tail
            BY <3>0 DEF PieceCut
        <3>2. r \in Cuttings /\ (b = "boundary" => r.tail = <<>>) /\ Flat(r.units) \o r.tail = Rest(buf, m)
            BY <1>4, <3>1
        <3> HIDE DEF m, r
        <3>3. r.units \in Units /\ r.tail \in Words /\ p \in Words /\ Flat(r.units) \in Words
            BY <3>1, <3>2, UnitsAreWords DEF Cuttings, Unit
        <3>4. Flat(<<p>> \o r.units) = p \o Flat(r.units)
            <4> DEFINE o == <<p>>
            <4>1. o \in Units /\ Flat(o) = p
                BY <3>1, <3>3, UnitsJoin, FlatOne
            <4> HIDE DEF o
            <4>2. Flat(o \o r.units) = Flat(o) \o Flat(r.units)
                BY <3>3, <4>1, UnitsJoin
            <4> QED BY <4>1, <4>2 DEF o
        <3>5. (p \o Flat(r.units)) \o r.tail = p \o (Flat(r.units) \o r.tail)
            BY <3>3, WordsJoin
        <3>6. Flat(g[n].units) \o g[n].tail = Rest(buf, n)
            BY <3>1, <3>2, <3>4, <3>5
        <3> QED BY <2>3, <3>1, <3>2, <3>6
    <2> QED BY <2>3, <2>4, <2>5
<1>5. N \in P
    <2> HIDE DEF P, N
    <2>1. \A n \in 0 .. N : n \in P
        BY <1>3, <1>4, UpTo
    <2> QED BY <1>3, <2>1
<1> QED BY <1>2, <1>5, RestIs
\* The forms our own text goes in as; "app" marks a key of the application's.
Manners == {"literal", "typed", "word", "sentence", "kana"}
Pieces(S) == Seq([keys : Seq(S), as : Manners])

\* The keys of each piece.
KeysOfEach(p) == [n \in DOMAIN p |-> p[n].keys]

LEMMA KeysOfAny ==
    ASSUME NEW S, NEW P, \A x \in P : x.keys \in Seq(S), NEW p \in Seq(P)
    PROVE  KeysOfEach(p) \in Seq(Seq(S)) /\ Len(KeysOfEach(p)) = Len(p)
           /\ KeysOf(p) = Flat(KeysOfEach(p)) /\ KeysOf(p) \in Seq(S)
<1>1. \A n \in 1 .. Len(p) : p[n] \in P
    BY ElementOfSeq
<1>2. DOMAIN p = 1 .. Len(p) /\ Len(p) \in Nat
    OBVIOUS
<1>3. KeysOfEach(p) = [n \in 1 .. Len(p) |-> p[n].keys]
    BY <1>2 DEF KeysOfEach
<1>4. \A n \in 1 .. Len(p) : p[n].keys \in Seq(S)
    BY <1>1
<1>5. KeysOfEach(p) \in Seq(Seq(S)) /\ Len(KeysOfEach(p)) = Len(p)
    BY <1>2, <1>3, <1>4, IsASeq
<1>6. KeysOf(p) = Flat(KeysOfEach(p))
    BY DEF KeysOf, Flat, KeysOfEach
<1> QED BY <1>5, <1>6, FlatType

LEMMA KeysOfType ==
    ASSUME NEW S, NEW p \in Pieces(S)
    PROVE  KeysOfEach(p) \in Seq(Seq(S)) /\ Len(KeysOfEach(p)) = Len(p)
           /\ KeysOf(p) = Flat(KeysOfEach(p)) /\ KeysOf(p) \in Seq(S)
<1> DEFINE P == [keys : Seq(S), as : Manners]
<1>1. p \in Seq(P) /\ \A x \in P : x.keys \in Seq(S)
    BY DEF Pieces
<1> HIDE DEF P
<1> QED BY <1>1, KeysOfAny

LEMMA KeysOfEmpty == KeysOf(<<>>) = <<>>
<1>1. [n \in DOMAIN <<>> |-> <<>>[n].keys] = <<>>
    OBVIOUS
<1> QED BY <1>1, FlatEmpty DEF KeysOf, Flat

LEMMA KeysOfJoin ==
    ASSUME NEW S, NEW P, \A x \in P : x.keys \in Seq(S), NEW p \in Seq(P), NEW q \in Seq(P)
    PROVE  p \o q \in Seq(P) /\ KeysOf(p \o q) = KeysOf(p) \o KeysOf(q)
<1> DEFINE a == KeysOfEach(p)
           b == KeysOfEach(q)
           c == KeysOfEach(p \o q)
<1>0. p \in Seq(P) /\ q \in Seq(P)
    OBVIOUS
<1>1. /\ p \o q \in Seq(P) /\ Len(p \o q) = Len(p) + Len(q) /\ Len(p) \in Nat /\ Len(q) \in Nat
      /\ \A i \in 1 .. Len(p) + Len(q) : (p \o q)[i] = IF i <= Len(p) THEN p[i] ELSE q[i - Len(p)]
    BY <1>0, ConcatProperties
<1>2. /\ a \in Seq(Seq(S)) /\ b \in Seq(Seq(S)) /\ c \in Seq(Seq(S))
      /\ Len(a) = Len(p) /\ Len(b) = Len(q) /\ Len(c) = Len(p) + Len(q)
      /\ KeysOf(p) = Flat(a) /\ KeysOf(q) = Flat(b) /\ KeysOf(p \o q) = Flat(c)
    BY <1>0, <1>1, KeysOfAny
<1>3. /\ \A i \in 1 .. Len(p) : a[i] = p[i].keys
      /\ \A i \in 1 .. Len(q) : b[i] = q[i].keys
      /\ \A i \in 1 .. Len(p) + Len(q) : c[i] = (p \o q)[i].keys
    <2>1. DOMAIN p = 1 .. Len(p) /\ DOMAIN q = 1 .. Len(q) /\ DOMAIN (p \o q) = 1 .. Len(p) + Len(q)
        BY <1>0, <1>1
    <2> QED BY <2>1 DEF KeysOfEach
<1> HIDE DEF a, b, c
<1>4. c = a \o b
    <2> DEFINE T == Seq(S)
    <2>1. a \in Seq(T) /\ b \in Seq(T) /\ c \in Seq(T)
        BY <1>2
    <2> HIDE DEF T
    <2>2. /\ a \o b \in Seq(T) /\ Len(a \o b) = Len(a) + Len(b)
          /\ \A i \in 1 .. Len(a) + Len(b) : (a \o b)[i] = IF i <= Len(a) THEN a[i] ELSE b[i - Len(a)]
        BY <2>1, ConcatProperties
    <2>3. ASSUME NEW i \in 1 .. Len(c) PROVE (a \o b)[i] = c[i]
        <3>1. CASE i <= Len(p)
            <4>1. i \in 1 .. Len(p) /\ i \in 1 .. Len(p) + Len(q) /\ i <= Len(a)
                BY <1>1, <1>2, <3>1
            <4>2. (p \o q)[i] = p[i]
                BY <1>1, <4>1
            <4>3. (a \o b)[i] = a[i]
                BY <1>1, <1>2, <2>2, <4>1
            <4> QED BY <1>3, <4>1, <4>2, <4>3
        <3>2. CASE ~(i <= Len(p))
            <4>1. i - Len(p) \in 1 .. Len(q)
                BY <1>1, <1>2, <3>2
            <4> QED BY <1>1, <1>2, <1>3, <2>2, <3>2, <4>1
        <3> QED BY <3>1, <3>2
    <2> QED BY <1>2, <2>1, <2>2, <2>3, SeqEqual
<1>5. Flat(a \o b) = Flat(a) \o Flat(b)
    BY <1>2, FlatConcat
<1> QED BY <1>1, <1>2, <1>4, <1>5

\* The keys of two outputs in a row are the keys of both in a row.
LEMMA KeysOfConcat ==
    ASSUME NEW S, NEW p \in Pieces(S), NEW q \in Pieces(S)
    PROVE  p \o q \in Pieces(S) /\ KeysOf(p \o q) = KeysOf(p) \o KeysOf(q)
<1> DEFINE P == [keys : Seq(S), as : Manners]
<1>1. p \in Seq(P) /\ q \in Seq(P) /\ Pieces(S) = Seq(P) /\ \A x \in P : x.keys \in Seq(S)
    BY DEF Pieces
<1> HIDE DEF P
<1> QED BY <1>1, KeysOfJoin

LEMMA KeysOfPiece ==
    ASSUME NEW S, NEW P, \A x \in P : x.keys \in Seq(S), NEW x \in P
    PROVE  <<x>> \in Seq(P) /\ KeysOf(<<x>>) = x.keys
<1> DEFINE p == <<x>>
<1>1. p \in Seq(P) /\ DOMAIN p = 1 .. 1 /\ p[1].keys = x.keys
    OBVIOUS
<1>2. KeysOfEach(p) = <<x.keys>>
    BY <1>1 DEF KeysOfEach
<1> HIDE DEF p
<1>3. KeysOf(p) = Flat(<<x.keys>>)
    BY <1>1, <1>2, KeysOfAny
<1>4. /\ Append(<<>>, x.keys) = <<x.keys>> /\ <<>> \o x.keys = x.keys /\ <<>> \in Seq(Seq(S))
      /\ x.keys \in Seq(S)
    OBVIOUS
<1>5. Flat(Append(<<>>, x.keys)) = Flat(<<>>) \o x.keys
    BY <1>4, FlatAppend
<1> QED BY <1>1, <1>3, <1>4, <1>5, FlatEmpty DEF p

LEMMA KeysOfOne ==
    ASSUME NEW S, NEW k \in Seq(S), NEW m \in Manners
    PROVE  LET p == <<[keys |-> k, as |-> m]>> IN p \in Pieces(S) /\ KeysOf(p) = k
<1> DEFINE P == [keys : Seq(S), as : Manners]
           x == [keys |-> k, as |-> m]
<1>1. x \in P /\ x.keys = k /\ Pieces(S) = Seq(P) /\ \A y \in P : y.keys \in Seq(S)
    BY DEF Pieces
<1> HIDE DEF P, x
<1>2. <<x>> \in Seq(P) /\ KeysOf(<<x>>) = x.keys
    BY <1>1, KeysOfPiece
<1> QED BY <1>1, <1>2 DEF x

\* A reading shown as typed has the keys of the reading.
LEMMA AsTypedIs ==
    ASSUME NEW u \in Units
    PROVE  /\ AsTyped(u) \in Pieces(Printable) /\ KeysOf(AsTyped(u)) = Flat(u)
           /\ Len(AsTyped(u)) = Len(u) /\ \A n \in 1 .. Len(u) : AsTyped(u)[n].as = "typed"
<1>1. DOMAIN u = 1 .. Len(u) /\ Len(u) \in Nat /\ \A n \in 1 .. Len(u) : u[n] \in Seq(Printable)
    BY ElementOfSeq DEF Units, Unit, Words
<1>2. AsTyped(u) = [n \in 1 .. Len(u) |-> [keys |-> u[n], as |-> "typed"]]
    BY <1>1 DEF AsTyped
<1>3. \A n \in 1 .. Len(u) : [keys |-> u[n], as |-> "typed"] \in [keys : Seq(Printable), as : Manners]
    BY <1>1 DEF Manners
<1>4. AsTyped(u) \in Pieces(Printable) /\ Len(AsTyped(u)) = Len(u)
    BY <1>1, <1>2, <1>3, IsASeq DEF Pieces
<1>5. KeysOfEach(AsTyped(u)) = u
    <2>1. DOMAIN AsTyped(u) = 1 .. Len(u)
        BY <1>2
    <2>2. \A n \in 1 .. Len(u) : AsTyped(u)[n].keys = u[n]
        BY <1>2
    <2>3. u = [n \in 1 .. Len(u) |-> u[n]]
        BY <1>1 DEF Units
    <2> QED BY <2>1, <2>2, <2>3 DEF KeysOfEach
<1>6. KeysOf(AsTyped(u)) = Flat(KeysOfEach(AsTyped(u)))
    BY <1>4, KeysOfType
<1> QED BY <1>2, <1>4, <1>5, <1>6
-----------------------------------------------------------------------------
Readings == {u \in Units : Len(u) <= MaxReading}
Engine ==
    [pending : Words, reading : Readings, gen : Int, open : BOOLEAN,
     conv : Pieces(Printable), convGen : Int]
Results == [st : Engine, out : Pieces(Printable), eaten : BOOLEAN]

\* An engine as the layout leaves it: without candidates nothing gathers, and a sentence
\* that is of the reading has its keys.
Good(l, st) ==
    /\ st \in Engine
    /\ l.cand \/ st.reading = <<>>
    /\ st.convGen <= st.gen
    /\ st.conv # <<>> /\ st.convGen = st.gen => KeysOf(st.conv) = Flat(st.reading)

\* A reading that is another has another number.
Newer(a, b) == b.gen > a.gen \/ (b.gen = a.gen /\ b.reading = a.reading)
\* The rest of the engine.
SameShow(a, b) == b.open = a.open /\ b.conv = a.conv /\ b.convGen = a.convGen

\* A generation never goes back.
LEMMA NewerIsTransitive ==
    ASSUME NEW a \in Engine, NEW b \in Engine, NEW c \in Engine, Newer(a, b), Newer(b, c)
    PROVE  Newer(a, c)
BY DEF Newer, Engine

LEMMA NewerIsGood ==
    ASSUME NEW l, NEW a, Good(l, a), NEW b \in Engine, Newer(a, b), SameShow(a, b),
           l.cand \/ b.reading = <<>>
    PROVE  Good(l, b)
BY DEF Good, Newer, SameShow, Engine

\* What a reading is made of, and how long it may be.
LEMMA ReadingsAre ==
    /\ <<>> \in Readings /\ Len(<<>>) = 0
    /\ \A u \in Readings : u \in Units /\ Len(u) \in Nat /\ Len(u) <= MaxReading /\ Flat(u) \in Words
    /\ \A u \in Unit : <<u>> \in Readings /\ <<u>> \in Units /\ <<u>> # <<>> /\ Flat(<<u>>) = u
    /\ \A u \in Readings, x \in Unit :
           Len(u) # MaxReading => /\ Append(u, x) \in Readings /\ Append(u, x) # <<>>
                                  /\ Flat(Append(u, x)) = Flat(u) \o x
<1>1. MaxReading \in Nat \ {0}
    BY SeqAssumption
<1>2. <<>> \in Readings /\ Len(<<>>) = 0
    BY <1>1, UnitsJoin DEF Readings
<1>3. \A u \in Readings : u \in Units /\ Len(u) \in Nat /\ Len(u) <= MaxReading /\ Flat(u) \in Words
    BY UnitsAreWords DEF Readings, Units
<1>4. ASSUME NEW u \in Unit
      PROVE  <<u>> \in Readings /\ <<u>> \in Units /\ <<u>> # <<>> /\ Flat(<<u>>) = u
    <2>1. Len(<<u>>) = 1 /\ <<u>> # <<>> /\ <<u>> \in Units /\ u \in Words
        BY UnitsJoin DEF Unit
    <2> QED BY <1>1, <2>1, FlatOne DEF Readings
<1>5. ASSUME NEW u \in Readings, NEW x \in Unit, Len(u) # MaxReading
      PROVE  /\ Append(u, x) \in Readings /\ Append(u, x) # <<>>
             /\ Flat(Append(u, x)) = Flat(u) \o x
    <2>1. u \in Seq(Unit) /\ Len(Append(u, x)) = Len(u) + 1 /\ Append(u, x) # <<>>
        <3>1. u \in Seq(Unit)
            BY <1>3 DEF Units
        <3> QED BY <3>1, AppendProperties
    <2>2. Append(u, x) \in Units /\ Flat(Append(u, x)) = Flat(u) \o x
        BY <1>3, UnitsJoin
    <2> QED BY <1>1, <1>3, <1>5, <2>1, <2>2 DEF Readings
<1> QED BY <1>2, <1>3, <1>4, <1>5

LEMMA EngineIs ==
    ASSUME NEW st \in Engine
    PROVE  /\ st.pending \in Words /\ st.reading \in Readings /\ st.gen \in Int
           /\ st.open \in BOOLEAN /\ st.conv \in Pieces(Printable) /\ st.convGen \in Int
           /\ Flat(st.reading) \in Words /\ Typed(st) = Flat(st.reading) \o st.pending
           /\ Typed(st) \in Words
<1>1. /\ st.pending \in Words /\ st.reading \in Readings /\ st.gen \in Int
      /\ st.open \in BOOLEAN /\ st.conv \in Pieces(Printable) /\ st.convGen \in Int
    BY DEF Engine
<1>2. Flat(st.reading) \in Words /\ Typed(st) = Flat(st.reading) \o st.pending
    BY <1>1, ReadingsAre DEF Typed
<1> QED BY <1>1, <1>2, WordsJoin

LEMMA NewReadingIs ==
    ASSUME NEW st \in Engine, NEW u \in Readings
    PROVE  LET s == NewReading(st, u)
           IN  /\ s \in Engine /\ s.reading = u /\ s.gen = st.gen + 1 /\ s.pending = st.pending
               /\ SameShow(st, s) /\ Newer(st, s)
<1>1. st.gen + 1 \in Int /\ st.gen + 1 > st.gen
    BY DEF Engine
<1> HIDE DEF Readings
<1>2. /\ NewReading(st, u) \in Engine /\ NewReading(st, u).reading = u
      /\ NewReading(st, u).gen = st.gen + 1 /\ NewReading(st, u).pending = st.pending
      /\ NewReading(st, u).open = st.open /\ NewReading(st, u).conv = st.conv
      /\ NewReading(st, u).convGen = st.convGen
    BY <1>1 DEF NewReading, Engine
<1> QED BY <1>1, <1>2 DEF SameShow, Newer

\* What becomes of a result when a unit, or the units u, are delivered.
Delivered(l, r, s, keys) ==
    /\ s \in Results /\ s.st.pending = r.st.pending /\ s.eaten = r.eaten
    /\ SameShow(r.st, s.st) /\ Newer(r.st, s.st)
    /\ (l.cand \/ r.st.reading = <<>>) =>
           /\ l.cand \/ s.st.reading = <<>>
           /\ KeysOf(s.out) \o Flat(s.st.reading) = (KeysOf(r.out) \o Flat(r.st.reading)) \o keys

\* A unit delivered to a full reading pushes its oldest out (Deliver).
LEMMA DeliverIs ==
    ASSUME NEW l, NEW r \in Results, NEW x \in Unit
    PROVE  /\ Delivered(l, r, Deliver(l, r, x), x)
           /\ l.cand => Deliver(l, r, x).st.reading # <<>>
<1> DEFINE s == Deliver(l, r, x)
           st == r.st
<1>1. /\ st \in Engine /\ r.out \in Pieces(Printable) /\ r.eaten \in BOOLEAN
      /\ x \in Words /\ KeysOf(r.out) \in Words
    BY KeysOfType DEF Results, Unit, Words
<1>2. st.reading \in Readings /\ st.reading \in Units /\ Flat(st.reading) \in Words
    BY <1>1, EngineIs, ReadingsAre
<1>3. \A u \in Units : /\ r.out \o AsTyped(u) \in Pieces(Printable)
                       /\ KeysOf(r.out \o AsTyped(u)) = KeysOf(r.out) \o Flat(u)
    <2> SUFFICES ASSUME NEW u \in Units
                 PROVE  /\ r.out \o AsTyped(u) \in Pieces(Printable)
                        /\ KeysOf(r.out \o AsTyped(u)) = KeysOf(r.out) \o Flat(u)
        OBVIOUS
    <2>1. AsTyped(u) \in Pieces(Printable) /\ KeysOf(AsTyped(u)) = Flat(u)
        BY AsTypedIs
    <2> QED BY <1>1, <2>1, KeysOfConcat, ZenonT(40)
<1>4. Newer(st, st) /\ SameShow(st, st)
    BY DEF Newer, SameShow
<1> DEFINE a == KeysOf(r.out)
           b == Flat(st.reading)
<1>5. CASE ~l.cand
    <2> DEFINE o == r.out \o AsTyped(<<x>>)
    <2>1. o \in Pieces(Printable) /\ KeysOf(o) = a \o x
        BY <1>3, ReadingsAre
    <2>2. s = [r EXCEPT !.out = o]
        BY <1>5 DEF Deliver
    <2> HIDE DEF o
    <2>3. s \in Results /\ s.st = st /\ s.out = o /\ s.eaten = r.eaten
        BY <2>1, <2>2 DEF Results
    <2>4. st.reading = <<>> => KeysOf(s.out) \o Flat(s.st.reading) = (a \o b) \o x
        BY <1>1, <2>1, <2>3, FlatEmpty, WordsJoin
    <2> HIDE DEF s
    <2> QED BY <1>4, <1>5, <2>3, <2>4 DEF Delivered, s
<1>6. CASE l.cand /\ Len(st.reading) = MaxReading
    <2> DEFINE o == r.out \o AsTyped(st.reading)
               t == NewReading(st, <<x>>)
    <2>1. o \in Pieces(Printable) /\ KeysOf(o) = a \o b
        BY <1>2, <1>3
    <2>2. /\ t \in Engine /\ t.reading = <<x>> /\ t.pending = st.pending
          /\ SameShow(st, t) /\ Newer(st, t) /\ <<x>> # <<>> /\ Flat(<<x>>) = x
        BY <1>1, NewReadingIs, ReadingsAre
    <2>3. s = [r EXCEPT !.out = o, !.st = t]
        BY <1>6 DEF Deliver
    <2> HIDE DEF o, t
    <2>4. s \in Results /\ s.st = t /\ s.out = o /\ s.eaten = r.eaten
        BY <2>1, <2>2, <2>3 DEF Results
    <2>5. KeysOf(s.out) \o Flat(s.st.reading) = (a \o b) \o x
        BY <2>1, <2>2, <2>4
    <2> HIDE DEF s
    <2> QED BY <1>6, <2>2, <2>4, <2>5 DEF Delivered, s
<1>7. CASE l.cand /\ Len(st.reading) # MaxReading
    <2> DEFINE t == NewReading(st, Append(st.reading, x))
               u == Append(st.reading, x)
    <2>1. u \in Readings /\ u # <<>> /\ Flat(u) = b \o x
        BY <1>2, <1>7, ReadingsAre
    <2>2. /\ t \in Engine /\ t.reading = u /\ t.pending = st.pending
          /\ SameShow(st, t) /\ Newer(st, t)
        BY <1>1, <2>1, NewReadingIs
    <2>3. s = [r EXCEPT !.st = t]
        BY <1>7 DEF Deliver, NewReading
    <2> HIDE DEF t, u
    <2>4. s \in Results /\ s.st = t /\ s.out = r.out /\ s.eaten = r.eaten
        BY <2>2, <2>3 DEF Results
    <2>5. KeysOf(s.out) \o Flat(s.st.reading) = (a \o b) \o x
        <3>1. a \o (b \o x) = (a \o b) \o x
            <4> HIDE DEF a, b
            <4> QED BY <1>1, <1>2, WordsJoin DEF a, b
        <3> QED BY <2>1, <2>2, <2>4, <3>1
    <2> HIDE DEF s
    <2> QED BY <1>7, <2>1, <2>2, <2>4, <2>5 DEF Delivered, s
<1> QED BY <1>5, <1>6, <1>7

LEMMA DeliveredNothing ==
    ASSUME NEW l, NEW r \in Results
    PROVE  Delivered(l, r, r, <<>>)
<1>1. /\ r.st \in Engine /\ KeysOf(r.out) \in Words /\ Flat(r.st.reading) \in Words
    BY EngineIs, KeysOfType DEF Results, Words
<1>2. (KeysOf(r.out) \o Flat(r.st.reading)) \o <<>> = KeysOf(r.out) \o Flat(r.st.reading)
    BY <1>1, WordsJoin
<1> QED BY <1>2 DEF Delivered, SameShow, Newer

LEMMA DeliveredTwice ==
    ASSUME NEW l, NEW r \in Results, NEW s \in Results, NEW t, NEW a \in Words, NEW b \in Words,
           Delivered(l, r, s, a), Delivered(l, s, t, b)
    PROVE  Delivered(l, r, t, a \o b)
<1>1. t \in Results /\ t.st.pending = r.st.pending /\ t.eaten = r.eaten /\ SameShow(r.st, t.st)
    BY DEF Delivered, SameShow
<1>2. Newer(r.st, t.st)
    <2>1. r.st \in Engine /\ s.st \in Engine /\ t.st \in Engine
        BY <1>1 DEF Results
    <2> QED BY <2>1, NewerIsTransitive DEF Delivered
<1>3. ASSUME l.cand \/ r.st.reading = <<>>
      PROVE  /\ l.cand \/ t.st.reading = <<>>
             /\ KeysOf(t.out) \o Flat(t.st.reading)
                    = (KeysOf(r.out) \o Flat(r.st.reading)) \o (a \o b)
    <2> DEFINE x == KeysOf(r.out) \o Flat(r.st.reading)
               y == KeysOf(s.out) \o Flat(s.st.reading)
               z == KeysOf(t.out) \o Flat(t.st.reading)
    <2>1. x \in Words
        <3>1. KeysOf(r.out) \in Words /\ Flat(r.st.reading) \in Words
            BY EngineIs, KeysOfType DEF Results, Words
        <3> QED BY <3>1, WordsJoin
    <2>2. y = x \o a /\ (l.cand \/ s.st.reading = <<>>)
        BY <1>3 DEF Delivered
    <2>3. z = y \o b /\ (l.cand \/ t.st.reading = <<>>)
        BY <2>2 DEF Delivered
    <2> HIDE DEF x, y, z
    <2>4. z = x \o (a \o b)
        BY <2>1, <2>2, <2>3, WordsJoin
    <2> QED BY <2>3, <2>4 DEF x, z
<1> QED BY <1>1, <1>2, <1>3 DEF Delivered

IsAfter(l, r, units, f) ==
    f = [n \in 0 .. Len(units) |-> IF n = 0 THEN r ELSE Deliver(l, f[n - 1], units[n])]

LEMMA DeliverAllDef ==
    ASSUME NEW l, NEW r, NEW units
    PROVE  DeliverAll(l, r, units) = (CHOOSE f : IsAfter(l, r, units, f))[Len(units)]
BY Zenon DEF DeliverAll, IsAfter

LEMMA DeliverAllExists ==
    ASSUME NEW l, NEW r \in Results, NEW units \in Units
    PROVE  \E f : IsAfter(l, r, units, f)
<1> DEFINE N == Len(units)
           next == [n \in 1 .. N |-> [s \in Results |-> Deliver(l, s, units[n])]]
<1>1. N \in Nat /\ \A n \in 1 .. N : units[n] \in Unit
    BY ElementOfSeq DEF Units
<1>2. next \in [1 .. N -> [Results -> Results]]
    <2>1. ASSUME NEW n \in 1 .. N, NEW s \in Results PROVE Deliver(l, s, units[n]) \in Results
        BY <1>1, DeliverIs DEF Delivered
    <2> QED BY <2>1
<1>3. \E f \in [0 .. N -> Results] : IsIteration(N, r, next, f)
    <2> HIDE DEF N, next
    <2> QED BY <1>1, <1>2, Iteration
<1>4. PICK f \in [0 .. N -> Results] : IsIteration(N, r, next, f)
    BY <1>3
<1>5. ASSUME NEW n \in 0 .. N PROVE f[n] = IF n = 0 THEN r ELSE Deliver(l, f[n - 1], units[n])
    <2>1. CASE n = 0
        BY <1>4, <2>1 DEF IsIteration
    <2>2. CASE n # 0
        <3>1. n \in 1 .. N /\ n - 1 \in 0 .. N
            BY <1>1, <2>2
        <3>2. f[n] = next[n][f[n - 1]] /\ f[n - 1] \in Results
            BY <1>4, <3>1 DEF IsIteration
        <3> QED BY <2>2, <3>1, <3>2
    <2> QED BY <2>1, <2>2
<1>6. f = [n \in 0 .. N |-> f[n]]
    BY <1>4
<1> QED BY <1>5, <1>6 DEF IsAfter

\* So do several, one after another, and no key is lost or overtaken.
LEMMA DeliverAllIs ==
    ASSUME NEW l, NEW r \in Results, NEW units \in Units
    PROVE  LET s == DeliverAll(l, r, units)
           IN  /\ Delivered(l, r, s, Flat(units))
               /\ units = <<>> => s = r
               /\ l.cand /\ units # <<>> => s.st.reading # <<>>
<1> DEFINE N == Len(units)
           g == CHOOSE f : IsAfter(l, r, units, f)
           Pre(n) == SubSeq(units, 1, n)
           P == {n \in 0 .. N : /\ Delivered(l, r, g[n], Flat(Pre(n)))
                                /\ n = 0 => g[n] = r
                                /\ l.cand /\ n # 0 => g[n].st.reading # <<>>}
<1>1. IsAfter(l, r, units, g)
    BY DeliverAllExists, Zenon
<1>2. DeliverAll(l, r, units) = g[N]
    BY DeliverAllDef
<1> HIDE DEF g
<1>3. N \in Nat /\ units \in Seq(Unit) /\ \A n \in 1 .. N : units[n] \in Unit
    BY ElementOfSeq DEF Units
<1>4. \A n \in 0 .. N : g[n] = IF n = 0 THEN r ELSE Deliver(l, g[n - 1], units[n])
    BY <1>1 DEF IsAfter
<1>5. ASSUME NEW n \in 0 .. N, \A m \in 0 .. n - 1 : m \in P PROVE n \in P
    <2>1. CASE n = 0
        <3>1. Pre(0) = <<>>
            BY SubSeqEmpty
        <3>2. Delivered(l, r, g[0], Flat(Pre(0)))
            BY <1>4, <2>1, <3>1, FlatEmpty, DeliveredNothing
        <3> QED BY <1>4, <2>1, <3>2
    <2>2. CASE n # 0
        <3>1. n - 1 \in 0 .. n - 1 /\ n \in 1 .. N
            BY <2>2
        <3>2. Delivered(l, r, g[n - 1], Flat(Pre(n - 1)))
            BY <1>5, <3>1
        <3>3. units[n] \in Unit /\ g[n - 1] \in Results
            BY <1>3, <3>1, <3>2 DEF Delivered
        <3>4. g[n] = Deliver(l, g[n - 1], units[n])
            BY <1>4, <2>2
        <3>5. Delivered(l, g[n - 1], g[n], units[n]) /\ (l.cand => g[n].st.reading # <<>>)
            BY <3>3, <3>4, DeliverIs
        <3>6. Pre(n - 1) \in Units /\ Pre(n) = Append(Pre(n - 1), units[n])
            BY <1>3, <3>1, SubSeqProperties DEF Units
        <3>7. Flat(Pre(n)) = Flat(Pre(n - 1)) \o units[n] /\ Flat(Pre(n - 1)) \in Words
            <4> HIDE DEF Pre
            <4> QED BY <3>3, <3>6, UnitsJoin, UnitsAreWords
        <3>8. Delivered(l, r, g[n], Flat(Pre(n)))
            <4> HIDE DEF Pre
            <4>1. units[n] \in Words
                BY <3>3 DEF Unit
            <4> QED BY <3>2, <3>3, <3>5, <3>7, <4>1, DeliveredTwice
        <3> QED BY <2>2, <3>5, <3>8
    <2> QED BY <2>1, <2>2
<1>6. N \in P
    <2> HIDE DEF P, N
    <2>1. \A n \in 0 .. N : n \in P
        BY <1>3, <1>5, UpTo
    <2> QED BY <1>3, <2>1
<1>7. Pre(N) = units
    BY <1>3, SubSeqFull
<1>8. units = <<>> <=> N = 0
    BY <1>3, EmptySeq
<1> QED BY <1>2, <1>6, <1>7, <1>8

LEMMA WordsJoined ==
    ASSUME NEW a \in Words, NEW b \in Words, NEW c \in Words
    PROVE  a \o (b \o c) = (a \o b) \o c
BY WordsJoin

\* What becomes of an engine when buf is cut and delivered.
IsFlushed(l, st, buf, at, r) ==
    /\ r \in Results /\ Good(l, r.st) /\ Newer(st, r.st) /\ SameShow(st, r.st)
    /\ r.eaten = TRUE
    /\ at = "boundary" => r.st.pending = <<>>
    /\ KeysOf(r.out) \o Typed(r.st) = Flat(st.reading) \o buf

\* Pending keys cut and delivered (FlushBuffer).
LEMMA FlushBufIs ==
    ASSUME NEW l, Layout(l), NEW st, Good(l, st), NEW buf \in Words, NEW b
    PROVE  IsFlushed(l, st, buf, b, FlushBuf(l, st, buf, b))
<1> DEFINE c == Cut(l, b, buf)
           s == [st EXCEPT !.pending = c.tail]
           r0 == Result(s, <<>>, TRUE)
           r == DeliverAll(l, r0, c.units)
<1>0. st \in Engine /\ Flat(st.reading) \in Words /\ (l.cand \/ st.reading = <<>>)
    BY EngineIs DEF Good
<1>1. c \in Cuttings /\ (b = "boundary" => c.tail = <<>>) /\ Flat(c.units) \o c.tail = buf
    BY CutIs
<1>2. c.units \in Units /\ c.tail \in Words /\ Flat(c.units) \in Words
    BY <1>1, UnitsAreWords DEF Cuttings
<1>3. FlushBuf(l, st, buf, b) = r
    BY DEF FlushBuf, FlushCut
<1> HIDE DEF c
<1>4. /\ s \in Engine /\ s.pending = c.tail /\ s.reading = st.reading /\ s.gen = st.gen
      /\ SameShow(st, s)
    BY <1>0, <1>2 DEF Engine, SameShow
<1>5. r0 \in Results /\ r0.st = s /\ r0.out = <<>> /\ r0.eaten = TRUE
    <2>1. <<>> \in Pieces(Printable)
        BY DEF Pieces
    <2> QED BY <1>4, <2>1 DEF Results, Result
<1> HIDE DEF s, r0
<1>6. Delivered(l, r0, r, Flat(c.units))
    BY <1>2, <1>5, DeliverAllIs
<1> HIDE DEF r
<1>7. /\ r \in Results /\ r.st \in Engine /\ r.eaten = TRUE /\ r.st.pending = c.tail
      /\ SameShow(st, r.st) /\ Newer(st, r.st) /\ (l.cand \/ r.st.reading = <<>>)
      /\ KeysOf(r.out) \o Flat(r.st.reading) = (<<>> \o Flat(st.reading)) \o Flat(c.units)
    BY <1>0, <1>4, <1>5, <1>6, KeysOfEmpty DEF Delivered, SameShow, Newer, Results
<1>8. Good(l, r.st)
    BY <1>7, NewerIsGood
<1>9. KeysOf(r.out) \o Typed(r.st) = Flat(st.reading) \o buf
    <2> DEFINE o == KeysOf(r.out)
               u == Flat(r.st.reading)
               v == Flat(st.reading)
               x == Flat(c.units)
               y == c.tail
    <2>1. o \in Words /\ u \in Words /\ v \in Words /\ x \in Words /\ y \in Words
        BY <1>0, <1>2, <1>7, EngineIs, KeysOfType DEF Results, Words
    <2>2. o \o u = v \o x /\ x \o y = buf /\ Typed(r.st) = u \o y
        BY <1>1, <1>7, <2>1, EngineIs, WordsJoin
    <2> HIDE DEF o, u, v, x, y
    <2>3. o \o (u \o y) = v \o (x \o y)
        <3>1. o \o (u \o y) = (o \o u) \o y
            BY <2>1, WordsJoined, SMTT(20)
        <3>2. v \o (x \o y) = (v \o x) \o y
            BY <2>1, WordsJoined
        <3> QED BY <2>2, <3>1, <3>2
    <2> QED BY <2>2, <2>3 DEF o, v
<1> QED BY <1>1, <1>3, <1>7, <1>8, <1>9 DEF IsFlushed

(* What an operation of the engine keeps. *)
Step(l, st, r) == r \in Results /\ Good(l, r.st) /\ Newer(st, r.st)

LEMMA PiecesJoin ==
    /\ <<>> \in Pieces(Printable) /\ KeysOf(<<>>) = <<>>
    /\ \A p, q \in Pieces(Printable) :
           p \o q \in Pieces(Printable) /\ KeysOf(p \o q) = KeysOf(p) \o KeysOf(q)
    /\ \A p \in Pieces(Printable) : KeysOf(p) \in Words /\ p \o <<>> = p /\ <<>> \o p = p
<1>1. <<>> \in Pieces(Printable)
    BY DEF Pieces
<1>2. ASSUME NEW p \in Pieces(Printable), NEW q \in Pieces(Printable)
      PROVE  p \o q \in Pieces(Printable) /\ KeysOf(p \o q) = KeysOf(p) \o KeysOf(q)
    BY KeysOfConcat
<1>3. ASSUME NEW p \in Pieces(Printable)
      PROVE  KeysOf(p) \in Words /\ p \o <<>> = p /\ <<>> \o p = p
    <2>1. KeysOf(p) \in Words
        BY KeysOfType DEF Words
    <2>2. p \o <<>> = p /\ <<>> \o p = p
        <3> DEFINE T == [keys : Seq(Printable), as : Manners]
        <3>1. p \in Seq(T)
            BY DEF Pieces
        <3> HIDE DEF T
        <3> QED BY <3>1
    <2> QED BY <2>1, <2>2
<1> QED BY <1>1, <1>2, <1>3, KeysOfEmpty

LEMMA ResultIs ==
    ASSUME NEW st \in Engine, NEW out \in Pieces(Printable), NEW e \in BOOLEAN
    PROVE  LET r == Result(st, out, e)
           IN  r \in Results /\ r.st = st /\ r.out = out /\ r.eaten = e
BY DEF Results, Result

\* An operation that changes nothing, or only what is pending.
LEMMA SameReading ==
    ASSUME NEW l, NEW st, Good(l, st), NEW r \in Results, r.st.reading = st.reading,
           r.st.gen = st.gen, SameShow(st, r.st)
    PROVE  Step(l, st, r)
<1>1. st \in Engine /\ r.st \in Engine /\ Newer(st, r.st) /\ (l.cand \/ r.st.reading = <<>>)
    BY DEF Newer, Good, Results
<1>2. Good(l, r.st)
    BY <1>1, NewerIsGood
<1> QED BY <1>1, <1>2 DEF Step

\* An operation that makes another reading of it.
LEMMA OtherReading ==
    ASSUME NEW l, NEW st, Good(l, st), NEW r \in Results, l.cand \/ r.st.reading = <<>>,
           r.st.gen = st.gen + 1, r.st.convGen = st.convGen
    PROVE  Step(l, st, r) /\ r.st.gen > st.gen
<1>1. /\ st \in Engine /\ st.gen \in Int /\ st.convGen \in Int /\ st.convGen <= st.gen
      /\ r.st \in Engine
    BY EngineIs DEF Good, Results
<1>2. r.st.gen > st.gen /\ Newer(st, r.st) /\ r.st.convGen # r.st.gen /\ r.st.convGen <= r.st.gen
    BY <1>1 DEF Newer
<1>3. Good(l, r.st)
    BY <1>1, <1>2 DEF Good
<1> QED BY <1>2, <1>3 DEF Step

LEMMA StepTwice ==
    ASSUME NEW l, NEW st, Good(l, st), NEW r, Step(l, st, r), NEW q, Step(l, r.st, q)
    PROVE  Step(l, st, q)
<1>1. st \in Engine /\ r.st \in Engine /\ q.st \in Engine
    BY DEF Step, Good
<1> QED BY <1>1, NewerIsTransitive DEF Step

\* Without pending keys there is nothing to cut.
LEMMA CutNothing ==
    ASSUME NEW l, Layout(l), NEW b
    PROVE  Cut(l, b, <<>>) = [units |-> <<>>, tail |-> <<>>]
<1> DEFINE g == CHOOSE f : IsCut(l, b, <<>>, f)
<1>1. <<>> \in Words /\ Len(<<>>) = 0
    BY DEF Words
<1>3. \E f : IsCut(l, b, <<>>, f)
    <2>1. [n \in 0 .. 0 |-> [units |-> <<>>, tail |-> Rest(<<>>, n)]]
             = [n \in 0 .. Len(<<>>) |-> CutStep(l, b, <<>>, n, [m \in 0 .. 0 |->
                   [units |-> <<>>, tail |-> Rest(<<>>, m)]])]
        BY <1>1 DEF CutStep
    <2> QED BY <1>1, <2>1 DEF IsCut
<1>4. IsCut(l, b, <<>>, g)
    BY <1>3, Zenon
<1>5. Cut(l, b, <<>>) = g[0]
    BY <1>1, CutDef
<1> HIDE DEF g
<1>6. g[0] = CutStep(l, b, <<>>, 0, g)
    BY <1>1, <1>4 DEF IsCut
<1>7. Rest(<<>>, 0) = <<>>
    BY <1>1, RestIs
<1> QED BY <1>5, <1>6, <1>7 DEF CutStep

------------------------------------------------------------------------------

(* Pending into the reading. *)
IsSettled(l, st, r) ==
    /\ Step(l, st, r) /\ SameShow(st, r.st) /\ r.eaten = TRUE /\ r.st.pending = <<>>
    /\ KeysOf(r.out) \o Flat(r.st.reading) = Typed(st)
    /\ st.pending = <<>> => r = Result(st, <<>>, TRUE)
    /\ l.cand /\ ~Idle(st) => r.st.reading # <<>>

\* Pending keys settled into the reading before it is converted.
LEMMA SettleIs ==
    ASSUME NEW l, Layout(l), NEW st, Good(l, st)
    PROVE  IsSettled(l, st, Settle(l, st))
<1> DEFINE r == Settle(l, st)
           c == Cut(l, "boundary", st.pending)
<1>1. st \in Engine /\ st.pending \in Words /\ Typed(st) = Flat(st.reading) \o st.pending
    BY EngineIs DEF Good
<1>2. r = FlushBuf(l, st, st.pending, "boundary")
    BY DEF Settle
<1>3. /\ r \in Results /\ Good(l, r.st) /\ Newer(st, r.st) /\ SameShow(st, r.st)
      /\ r.eaten = TRUE /\ r.st.pending = <<>>
      /\ KeysOf(r.out) \o Typed(r.st) = Flat(st.reading) \o st.pending
    <2>1. IsFlushed(l, st, st.pending, "boundary", FlushBuf(l, st, st.pending, "boundary"))
        BY <1>1, FlushBufIs
    <2> QED BY <1>2, <2>1 DEF IsFlushed
<1>4. Typed(r.st) = Flat(r.st.reading)
    <2> HIDE DEF r
    <2>1. r.st \in Engine
        BY <1>3 DEF Results
    <2>2. Flat(r.st.reading) \in Words /\ Typed(r.st) = Flat(r.st.reading) \o <<>>
        BY <1>3, <2>1, EngineIs
    <2> QED BY <2>2, WordsJoin
<1> DEFINE r0 == Result([st EXCEPT !.pending = c.tail], <<>>, TRUE)
<1>5. r = DeliverAll(l, r0, c.units)
    BY <1>2 DEF FlushBuf, FlushCut
<1>6. c \in Cuttings /\ c.tail = <<>> /\ Flat(c.units) \o c.tail = st.pending
    BY <1>1, CutIs
<1>7. r0 \in Results /\ r0.st.reading = st.reading
    <2>1. [st EXCEPT !.pending = c.tail] \in Engine
        BY <1>1, <1>6 DEF Engine, Cuttings
    <2>2. [st EXCEPT !.pending = c.tail].reading = st.reading
        BY <1>1 DEF Engine
    <2> QED BY <2>1, <2>2, PiecesJoin, ResultIs, ZenonT(40)
<1>8. c.units \in Units
    BY <1>6 DEF Cuttings
<1>9. ASSUME st.pending = <<>> PROVE r = Result(st, <<>>, TRUE)
    <2>1. c = [units |-> <<>>, tail |-> <<>>]
        BY <1>9, CutNothing
    <2>2. r = r0
        <3>1. c.units = <<>>
            BY <2>1
        <3> HIDE DEF c, r0
        <3>2. DeliverAll(l, r0, c.units) = r0
            BY <1>7, <1>8, <3>1, DeliverAllIs
        <3> QED BY <1>5, <3>2
    <2>3. [st EXCEPT !.pending = <<>>] = st
        BY <1>1, <1>9 DEF Engine
    <2>4. c.tail = <<>>
        BY <2>1
    <2>5. r0 = Result(st, <<>>, TRUE)
        <3> HIDE DEF c
        <3> QED BY <2>3, <2>4
    <2> QED BY <2>2, <2>5
<1>10. ASSUME l.cand, ~Idle(st) PROVE r.st.reading # <<>>
    <2>1. CASE st.pending = <<>>
        BY <1>9, <1>10, <2>1 DEF Idle, Result
    <2>2. CASE st.pending # <<>>
        <3>1. c.units # <<>>
            BY <1>6, <2>2, FlatEmpty, WordsJoin
        <3> QED BY <1>5, <1>7, <1>8, <1>10, <3>1, DeliverAllIs
    <2> QED BY <2>1, <2>2
<1> QED BY <1>1, <1>3, <1>4, <1>9, <1>10 DEF Step, IsSettled

\* A separator is a unit of its own.
LEMMA SepIs == Sep \in Printable => <<Sep>> \in Unit
BY DEF Unit, Words

\* The bound of a reading is a positive number.
LEMMA MaxReadingIs == MaxReading \in Nat /\ MaxReading > 0
BY SeqAssumption

\* A reading with one more unit.
LEMMA ReadingGrows ==
    ASSUME NEW l, l.cand, NEW st, Good(l, st), NEW x \in Unit, Len(st.reading) < MaxReading
    PROVE  LET s == NewReading(st, Append(st.reading, x))
           IN  /\ s \in Engine /\ Append(st.reading, x) \in Readings
               /\ s.reading = Append(st.reading, x) /\ s.gen = st.gen + 1
               /\ s.pending = st.pending /\ SameShow(st, s)
<1> DEFINE u == Append(st.reading, x)
<1>1. st \in Engine /\ st.reading \in Readings /\ Len(st.reading) # MaxReading
    <2>1. st.reading \in Readings /\ st \in Engine
        BY EngineIs DEF Good
    <2>2. Len(st.reading) \in Nat
        BY <2>1, ReadingsAre
    <2> QED BY <2>1, <2>2, MaxReadingIs
<1>2. u \in Readings
    BY <1>1, ReadingsAre
<1> HIDE DEF u
<1>3. LET s == NewReading(st, u)
      IN  /\ s \in Engine /\ s.reading = u /\ s.gen = st.gen + 1 /\ s.pending = st.pending
          /\ SameShow(st, s)
    BY <1>1, <1>2, NewReadingIs
<1> QED BY <1>2, <1>3 DEF u

LEMMA WithSepIs ==
    ASSUME NEW l, l.cand, NEW st, Good(l, st), NEW r, Step(l, st, r), Sep \in Printable
    PROVE  Step(l, st, WithSep(r))
<1>1. r \in Results /\ r.st \in Engine /\ Good(l, r.st)
    BY DEF Step, Good
<1>2. CASE ~(r.st.reading # <<>> /\ Len(r.st.reading) < MaxReading /\ Last(r.st.reading) # <<Sep>>)
    BY <1>2 DEF WithSep
<1>3. CASE r.st.reading # <<>> /\ Len(r.st.reading) < MaxReading /\ Last(r.st.reading) # <<Sep>>
    <2> DEFINE u == Append(r.st.reading, <<Sep>>)
               s == NewReading(r.st, u)
    <2>1. <<Sep>> \in Unit
        BY SepIs
    <2>2. /\ s \in Engine /\ s.reading = u /\ s.gen = r.st.gen + 1 /\ SameShow(r.st, s)
        <3> HIDE DEF Sep
        <3> QED BY <1>1, <1>3, <2>1, ReadingGrows
    <2>3. WithSep(r) = [r EXCEPT !.st = s]
        BY <1>3 DEF WithSep, NewReading
    <2> HIDE DEF s, u
    <2>4. WithSep(r) \in Results /\ WithSep(r).st = s
        BY <1>1, <2>2, <2>3 DEF Results
    <2>5. Step(l, r.st, WithSep(r))
        BY <1>1, <2>2, <2>4, OtherReading DEF SameShow
    <2> QED BY <2>5, StepTwice
<1> QED BY <1>2, <1>3

\* Only what is pending changes.
IsPending(l, st, p, s) ==
    /\ s \in Engine /\ s.pending = p /\ s.reading = st.reading /\ s.gen = st.gen
    /\ SameShow(st, s)
    /\ Step(l, st, Result(s, <<>>, TRUE)) /\ Result(s, <<>>, TRUE).st = s
\* A key added to the pending ones, in each of the cases of TryMatch.
LEMMA PendingIs ==
    ASSUME NEW l, NEW st, Good(l, st), NEW p \in Words
    PROVE  IsPending(l, st, p, [st EXCEPT !.pending = p])
<1> DEFINE s == [st EXCEPT !.pending = p]
           r == Result(s, <<>>, TRUE)
<1>1. /\ s \in Engine /\ s.pending = p /\ s.reading = st.reading /\ s.gen = st.gen
      /\ SameShow(st, s)
    BY DEF Engine, SameShow, Good
<1> HIDE DEF s
<1>2. r \in Results /\ r.st = s
    BY <1>1, PiecesJoin DEF Results, Result
<1> HIDE DEF r
<1>3. Step(l, st, r)
    BY <1>1, <1>2, SameReading
<1> QED BY <1>1, <1>2, <1>3 DEF s, r, IsPending

LEMMA NothingIs ==
    ASSUME NEW l, NEW st, Good(l, st)
    PROVE  Step(l, st, Result(st, <<>>, TRUE)) /\ Step(l, st, Result(st, <<>>, FALSE))
<1>1. st \in Engine /\ SameShow(st, st)
    BY DEF Good, SameShow
<1>2. Result(st, <<>>, TRUE) \in Results /\ Result(st, <<>>, FALSE) \in Results
    BY <1>1, PiecesJoin DEF Results, Result
<1>3. Step(l, st, Result(st, <<>>, TRUE))
    <2> DEFINE r == Result(st, <<>>, TRUE)
    <2>1. r \in Results /\ r.st = st
        BY <1>2 DEF Result
    <2> HIDE DEF r
    <2>2. Step(l, st, r)
        BY <1>1, <2>1, SameReading
    <2> QED BY <2>2 DEF r
<1>4. Step(l, st, Result(st, <<>>, FALSE))
    <2> DEFINE r == Result(st, <<>>, FALSE)
    <2>1. r \in Results /\ r.st = st
        BY <1>2 DEF Result
    <2> HIDE DEF r
    <2>2. Step(l, st, r)
        BY <1>1, <2>1, SameReading
    <2> QED BY <2>2 DEF r
<1> QED BY <1>3, <1>4

LEMMA KeyAppended ==
    ASSUME NEW p \in Words, NEW ch \in Printable
    PROVE  Append(p, ch) \in Words /\ Append(p, ch) \in Unit /\ <<ch>> \in Unit
<1>1. Append(p, ch) \in Seq(Printable) /\ Len(Append(p, ch)) = Len(p) + 1 /\ Len(p) \in Nat
    BY DEF Words
<1>2. Append(p, ch) # <<>>
    BY <1>1
<1> QED BY <1>1, <1>2 DEF Unit, Words

\* A key that is a word of the layout's dictionary.
LEMMA WordTyped ==
    ASSUME NEW l, NEW st, Good(l, st), NEW x \in Unit
    PROVE  Step(l, st, Deliver(l, Result([st EXCEPT !.pending = <<>>], <<>>, TRUE), x))
<1> DEFINE s == [st EXCEPT !.pending = <<>>]
           r0 == Result(s, <<>>, TRUE)
           r == Deliver(l, r0, x)
<1>1. /\ s \in Engine /\ s.reading = st.reading /\ s.gen = st.gen /\ SameShow(st, s)
      /\ Step(l, st, r0) /\ r0.st = s
    <2>1. <<>> \in Words
        BY WordsJoin
    <2>2. IsPending(l, st, <<>>, s)
        BY <2>1, PendingIs
    <2> QED BY <2>2 DEF IsPending
<1> HIDE DEF s, r0
<1>2. r0 \in Results /\ Delivered(l, r0, r, x)
    BY <1>1, DeliverIs DEF Step
<1> HIDE DEF r
<1>3. /\ r.st \in Engine /\ r \in Results /\ Newer(s, r.st) /\ SameShow(s, r.st)
      /\ l.cand \/ r.st.reading = <<>>
    BY <1>1, <1>2 DEF Delivered, Good, Results
<1>4. Step(l, s, r)
    <2>1. Good(l, s)
        BY <1>1 DEF Step
    <2>2. Good(l, r.st)
        BY <1>1, <1>3, <2>1, NewerIsGood
    <2> QED BY <1>3, <2>2 DEF Step
<1>5. Step(l, st, r)
    BY <1>1, <1>4, StepTwice
<1> QED BY <1>5 DEF r, r0, s

\* A digit in V mode.
LEMMA DigitTyped ==
    ASSUME NEW l, l.cand, NEW st, Good(l, st), NEW x \in Unit, Len(st.reading) < MaxReading
    PROVE  Step(l, st, Result(NewReading(st, Append(st.reading, x)), <<>>, TRUE))
<1> DEFINE s == NewReading(st, Append(st.reading, x))
           r == Result(s, <<>>, TRUE)
<1>1. s \in Engine /\ s.gen = st.gen + 1 /\ SameShow(st, s)
    BY ReadingGrows
<1> HIDE DEF s
<1>2. r \in Results /\ r.st = s
    BY <1>1, PiecesJoin DEF Results, Result
<1> HIDE DEF r
<1>3. Step(l, st, r)
    BY <1>1, <1>2, OtherReading DEF SameShow
<1> QED BY <1>3 DEF r, s

\* A key keeps the engine good and the order of the generations (SeqKb_Key).
LEMMA KeyIs ==
    ASSUME NEW l, Layout(l), l.zh => l.cand, NEW st, Good(l, st), NEW ch \in Printable
    PROVE  Step(l, st, SeqKb_Key(l, st, ch))
<1> DEFINE buf == Append(st.pending, ch)
<1>0. st \in Engine /\ st.pending \in Words /\ buf \in Words /\ buf \in Unit /\ <<ch>> \in Unit
    BY EngineIs, KeyAppended DEF Good
<1> HIDE DEF buf
<1>1. CASE l.zh /\ ch = Sep /\ ~Idle(st)
    <2>1. IsSettled(l, st, Settle(l, st))
        BY SettleIs
    <2>2. Step(l, st, WithSep(Settle(l, st)))
        BY <1>1, <2>1, WithSepIs DEF IsSettled
    <2> QED BY <1>1, <2>2 DEF SeqKb_Key
<1>2. CASE ~(l.zh /\ ch = Sep /\ ~Idle(st))
    <2>1. CASE l.zh /\ st.pending = <<>> /\ IsVMode(l, st.reading) /\ ch \in Digits
        <3>1. CASE Len(st.reading) < MaxReading
            <4>1. Step(l, st, Result(NewReading(st, Append(st.reading, <<ch>>)), <<>>, TRUE))
                BY <1>0, <2>1, <3>1, DigitTyped
            <4> QED BY <1>2, <2>1, <3>1, <4>1 DEF SeqKb_Key
        <3>2. CASE ~(Len(st.reading) < MaxReading)
            <4>1. Step(l, st, Result(st, <<>>, TRUE))
                BY NothingIs
            <4> QED BY <1>2, <2>1, <3>2, <4>1 DEF SeqKb_Key
        <3> QED BY <3>1, <3>2
    <2>2. CASE ~(l.zh /\ st.pending = <<>> /\ IsVMode(l, st.reading) /\ ch \in Digits)
        <3>1. CASE ~SeqKb_WouldEat(l, st, ch)
            <4>1. Step(l, st, Result(st, <<>>, FALSE))
                BY NothingIs
            <4> QED BY <1>2, <2>2, <3>1, <4>1 DEF SeqKb_Key
        <3>2. CASE SeqKb_WouldEat(l, st, ch)
            <4>1. SeqKb_Key(l, st, ch) =
                    IF HasLonger(l, buf) THEN Result([st EXCEPT !.pending = buf], <<>>, TRUE)
                    ELSE IF Exact(l, buf)
                         THEN Deliver(l, Result([st EXCEPT !.pending = <<>>], <<>>, TRUE), buf)
                    ELSE IF l.cancel THEN Result([st EXCEPT !.pending = <<>>], <<>>, TRUE)
                    ELSE FlushBuf(l, st, buf, "key")
                BY <1>2, <2>2, <3>2 DEF SeqKb_Key, buf
            <4>2. Step(l, st, Result([st EXCEPT !.pending = buf], <<>>, TRUE))
                BY <1>0, PendingIs DEF IsPending
            <4>3. Step(l, st, Deliver(l, Result([st EXCEPT !.pending = <<>>], <<>>, TRUE), buf))
                BY <1>0, WordTyped
            <4>4. Step(l, st, Result([st EXCEPT !.pending = <<>>], <<>>, TRUE))
                BY WordsJoin, PendingIs DEF IsPending
            <4>5. Step(l, st, FlushBuf(l, st, buf, "key"))
                BY <1>0, FlushBufIs DEF IsFlushed, Step
            <4> QED BY <4>1, <4>2, <4>3, <4>4, <4>5, Zenon
        <3> QED BY <3>1, <3>2
    <2> QED BY <2>1, <2>2
<1> QED BY <1>1, <1>2

------------------------------------------------------------------------------
(* The engine: taking back, cancelling, committing. *)

LEMMA FrontIs ==
    /\ \A p \in Words : p # <<>> => Front(p) \in Words
    /\ \A u \in Readings : u # <<>> => Front(u) \in Readings
<1>1. ASSUME NEW S, NEW s \in Seq(S), s # <<>> PROVE Front(s) \in Seq(S) /\ Len(Front(s)) = Len(s) - 1
    <2>1. Len(s) \in Nat /\ Len(s) # 0 /\ \A i \in 1 .. Len(s) : s[i] \in S
        BY <1>1, EmptySeq, ElementOfSeq
    <2> DEFINE n == Len(s) - 1
    <2>2. n \in Int /\ \A i \in 1 .. n : s[i] \in S
        BY <2>1
    <2>3. 1 <= n \/ n = 0
        <3>1. Len(s) \in Nat /\ Len(s) # 0
            BY <2>1
        <3> QED BY <3>1
    <2> HIDE DEF n
    <2>4. SubSeq(s, 1, n) \in Seq(S) /\ Len(SubSeq(s, 1, n)) = n
        BY <2>2, <2>3, SubSeqProperties
    <2> QED BY <2>4 DEF Front, n
<1>2. ASSUME NEW p \in Words, p # <<>> PROVE Front(p) \in Words
    BY <1>1, <1>2 DEF Words
<1>3. ASSUME NEW u \in Readings, u # <<>> PROVE Front(u) \in Readings
    <2>1. u \in Seq(Unit) /\ Len(u) \in Nat /\ Len(u) <= MaxReading
        BY ReadingsAre DEF Units
    <2>2. Front(u) \in Seq(Unit) /\ Len(Front(u)) = Len(u) - 1
        BY <1>1, <1>3, <2>1
    <2>3. Len(Front(u)) <= MaxReading
        BY <2>1, <2>2, MaxReadingIs
    <2> QED BY <2>2, <2>3 DEF Readings, Units
<1> QED BY <1>2, <1>3

LEMMA GenIs ==
    ASSUME NEW l, NEW st, Good(l, st)
    PROVE  st \in Engine /\ st.gen \in Int /\ st.gen + 1 \in Int
<1>1. st \in Engine
    BY DEF Good
<1>2. st.gen \in Int
    BY <1>1 DEF Engine
<1> QED BY <1>1, <1>2

\* Another reading, its list closed.
IsClosed(l, st, u, p, s) ==
    /\ s \in Engine /\ s.reading = u /\ s.pending = p /\ s.gen = st.gen + 1
    /\ s.convGen = st.convGen /\ s.conv = st.conv /\ s.open = FALSE
    /\ \A out \in Pieces(Printable) :
           /\ Step(l, st, Result(s, out, TRUE))
           /\ Result(s, out, TRUE).st = s /\ Result(s, out, TRUE).out = out
           /\ Result(s, out, TRUE).eaten = TRUE
LEMMA ClosedReading ==
    ASSUME NEW l, NEW st, Good(l, st), NEW u \in Readings, l.cand \/ u = <<>>,
           NEW p \in Words
    PROVE  IsClosed(l, st, u, p, [NewReading(st, u) EXCEPT !.open = FALSE, !.pending = p])
<1> DEFINE s == [NewReading(st, u) EXCEPT !.open = FALSE, !.pending = p]
<1>1. /\ s \in Engine /\ s.reading = u /\ s.pending = p /\ s.gen = st.gen + 1
      /\ s.convGen = st.convGen /\ s.conv = st.conv /\ s.open = FALSE
    <2>1. st \in Engine /\ st.gen + 1 \in Int
        BY GenIs
    <2> QED BY <2>1 DEF Engine, NewReading
<1> HIDE DEF s
<1>2. ASSUME NEW out \in Pieces(Printable)
      PROVE  /\ Step(l, st, Result(s, out, TRUE))
             /\ Result(s, out, TRUE).st = s /\ Result(s, out, TRUE).out = out
             /\ Result(s, out, TRUE).eaten = TRUE
    <2> DEFINE r == Result(s, out, TRUE)
    <2>1. r \in Results /\ r.st = s /\ r.out = out /\ r.eaten = TRUE
        BY <1>1 DEF Results, Result
    <2> HIDE DEF r
    <2>2. Step(l, st, r)
        BY <1>1, <2>1, OtherReading
    <2> QED BY <2>1, <2>2 DEF r
<1> QED BY <1>1, <1>2 DEF s, IsClosed

\* Backspace takes back the newest pending key, else the newest unit (SeqKb_Backspace).
LEMMA BackspaceIs ==
    ASSUME NEW l, NEW st, Good(l, st)
    PROVE  Step(l, st, SeqKb_Backspace(st))
<1>0. st \in Engine /\ st.pending \in Words /\ st.reading \in Readings /\ (l.cand \/ st.reading = <<>>)
    BY EngineIs DEF Good
<1>1. CASE st.pending # <<>>
    <2>1. Front(st.pending) \in Words
        BY <1>0, <1>1, FrontIs
    <2>2. Step(l, st, Result([st EXCEPT !.pending = Front(st.pending)], <<>>, TRUE))
        BY <2>1, PendingIs DEF IsPending
    <2> QED BY <1>1, <2>2 DEF SeqKb_Backspace
<1>2. CASE st.pending = <<>> /\ st.reading # <<>>
    <2> DEFINE u == Front(st.reading)
    <2>1. u \in Readings /\ l.cand
        BY <1>0, <1>2, FrontIs
    <2> HIDE DEF u
    <2> DEFINE s == [NewReading(st, u) EXCEPT !.open = FALSE, !.pending = st.pending]
    <2>2. Step(l, st, Result(s, <<>>, TRUE))
        BY <1>0, <2>1, PiecesJoin, ClosedReading DEF IsClosed
    <2>3. s = [NewReading(st, u) EXCEPT !.open = FALSE]
        BY <1>0 DEF NewReading, Engine
    <2> HIDE DEF s
    <2> QED BY <1>2, <2>2, <2>3 DEF SeqKb_Backspace, u
<1>3. CASE st.pending = <<>> /\ st.reading = <<>>
    <2>1. Step(l, st, Result(st, <<>>, FALSE))
        BY NothingIs
    <2> QED BY <1>3, <2>1 DEF SeqKb_Backspace
<1> QED BY <1>1, <1>2, <1>3

\* Esc takes back all that waits (SeqKb_Cancel).
LEMMA CancelIs ==
    ASSUME NEW l, NEW st, Good(l, st)
    PROVE  Step(l, st, SeqKb_Cancel(st)) /\ Idle(SeqKb_Cancel(st).st) /\ SeqKb_Cancel(st).out = <<>>
<1>1. CASE Idle(st)
    BY <1>1, NothingIs DEF SeqKb_Cancel, Result
<1>2. CASE ~Idle(st)
    <2> DEFINE e == <<>>
               s == [NewReading(st, e) EXCEPT !.open = FALSE, !.pending = e]
    <2>1. e \in Readings /\ e \in Words /\ e \in Pieces(Printable) /\ (l.cand \/ e = <<>>)
        BY WordsJoin, ReadingsAre, PiecesJoin
    <2>2. SeqKb_Cancel(st) = Result(s, e, TRUE)
        <3>1. s = [NewReading(st, <<>>) EXCEPT !.pending = <<>>, !.open = FALSE]
            BY DEF NewReading, Good, Engine
        <3> HIDE DEF s
        <3> QED BY <1>2, <3>1 DEF SeqKb_Cancel
    <2>3. e = <<>>
        OBVIOUS
    <2> HIDE DEF e
    <2>4. /\ s.reading = e /\ s.pending = e
          /\ Step(l, st, Result(s, e, TRUE)) /\ Result(s, e, TRUE).st = s
          /\ Result(s, e, TRUE).out = e
        <3>1. IsClosed(l, st, e, e, s)
            BY <2>1, ClosedReading
        <3> HIDE DEF s
        <3> QED BY <2>1, <3>1 DEF IsClosed
    <2> HIDE DEF s
    <2> QED BY <2>2, <2>3, <2>4 DEF Idle
<1> QED BY <1>1, <1>2

\* A list given up leaves the reading (SeqKb_CancelCandidates).
LEMMA CancelCandidatesIs ==
    ASSUME NEW l, NEW st, Good(l, st)
    PROVE  LET r == SeqKb_CancelCandidates(st)
           IN  /\ Step(l, st, r) /\ r.out = <<>> /\ Typed(r.st) = Typed(st)
               /\ Idle(r.st) <=> Idle(st)
<1>1. CASE ~st.open
    BY <1>1, NothingIs DEF SeqKb_CancelCandidates, Result
<1>2. CASE st.open
    <2> DEFINE s == [st EXCEPT !.open = FALSE, !.gen = @ + 1]
               r == Result(s, <<>>, TRUE)
    <2>1. /\ s \in Engine /\ s.reading = st.reading /\ s.pending = st.pending
          /\ s.gen = st.gen + 1 /\ s.convGen = st.convGen
        <3>1. st \in Engine /\ st.gen + 1 \in Int
            BY GenIs
        <3> QED BY <3>1 DEF Engine
    <2>2. SeqKb_CancelCandidates(st) = r
        BY <1>2 DEF SeqKb_CancelCandidates
    <2> HIDE DEF s
    <2>3. r \in Results /\ r.st = s /\ r.out = <<>>
        BY <2>1, PiecesJoin DEF Results, Result
    <2> HIDE DEF r
    <2>4. Step(l, st, r)
        BY <2>1, <2>3, OtherReading DEF Good
    <2> QED BY <2>1, <2>2, <2>3, <2>4 DEF Typed, Idle
<1> QED BY <1>1, <1>2

\* What a flush commits.
LEMMA ShownIs ==
    ASSUME NEW l, NEW st, Good(l, st)
    PROVE  Shown(st) \in Pieces(Printable) /\ KeysOf(Shown(st)) = Flat(st.reading)
<1>1. st \in Engine /\ st.conv \in Pieces(Printable) /\ st.reading \in Units
    BY EngineIs, ReadingsAre DEF Good
<1>2. CASE st.conv # <<>> /\ st.convGen = st.gen
    BY <1>1, <1>2 DEF Shown, Good
<1>3. CASE ~(st.conv # <<>> /\ st.convGen = st.gen)
    <2>1. Shown(st) = AsTyped(st.reading)
        BY <1>3 DEF Shown
    <2> QED BY <1>1, <2>1, AsTypedIs
<1> QED BY <1>2, <1>3

IsEmptied(l, r, e) ==
    /\ Step(l, r.st, e) /\ e.st.reading = <<>> /\ e.st.pending = r.st.pending
    /\ KeysOf(e.out) = KeysOf(r.out) \o Flat(r.st.reading)
    /\ r.st.reading # <<>> => e.st.gen > r.st.gen /\ e.out = r.out \o Shown(r.st)

LEMMA EmptiedIs ==
    ASSUME NEW l, NEW st, Good(l, st), NEW r, Step(l, st, r)
    PROVE  IsEmptied(l, r, Emptied(r)) /\ (r.eaten = TRUE => Emptied(r).eaten = TRUE)
<1>1. r \in Results /\ r.st \in Engine /\ Good(l, r.st) /\ r.out \in Pieces(Printable)
    BY DEF Step, Good, Results
<1>2. KeysOf(r.out) \in Words
    BY <1>1, PiecesJoin
<1>3. CASE r.st.reading = <<>>
    <2>1. Emptied(r) = r
        BY <1>3 DEF Emptied
    <2>2. KeysOf(r.out) = KeysOf(r.out) \o Flat(r.st.reading)
        BY <1>2, <1>3, FlatEmpty, WordsJoin
    <2>3. Step(l, r.st, r)
        BY <1>1, SameReading DEF SameShow
    <2> QED BY <1>3, <2>1, <2>2, <2>3 DEF IsEmptied
<1>4. CASE r.st.reading # <<>>
    <2> DEFINE s == [NewReading(r.st, <<>>) EXCEPT !.conv = <<>>, !.open = FALSE]
               o == r.out \o Shown(r.st)
               e == Result(s, o, TRUE)
    <2>1. /\ s \in Engine /\ s.reading = <<>> /\ s.pending = r.st.pending
          /\ s.gen = r.st.gen + 1 /\ s.convGen = r.st.convGen
        <3>1. r.st.gen + 1 \in Int /\ <<>> \in Readings /\ <<>> \in Pieces(Printable)
            BY <1>1, GenIs, ReadingsAre, PiecesJoin
        <3> QED BY <1>1, <3>1 DEF Engine, NewReading
    <2>2. o \in Pieces(Printable) /\ KeysOf(o) = KeysOf(r.out) \o Flat(r.st.reading)
        <3>1. Shown(r.st) \in Pieces(Printable) /\ KeysOf(Shown(r.st)) = Flat(r.st.reading)
            BY <1>1, ShownIs
        <3>2. \A p, q \in Pieces(Printable) :
                  p \o q \in Pieces(Printable) /\ KeysOf(p \o q) = KeysOf(p) \o KeysOf(q)
            BY PiecesJoin
        <3>3. o \in Pieces(Printable) /\ KeysOf(o) = KeysOf(r.out) \o KeysOf(Shown(r.st))
            BY <1>1, <3>1, <3>2
        <3> QED BY <3>1, <3>3
    <2>3. Emptied(r) = e
        BY <1>4 DEF Emptied
    <2> HIDE DEF s
    <2>4. o = r.out \o Shown(r.st)
        OBVIOUS
    <2> HIDE DEF o
    <2>5. e \in Results /\ e.st = s /\ e.out = o /\ e.eaten = TRUE
        BY <2>1, <2>2 DEF Results, Result
    <2> HIDE DEF e
    <2>6. Step(l, r.st, e) /\ e.st.gen > r.st.gen
        BY <1>1, <2>1, <2>5, OtherReading
    <2> QED BY <2>1, <2>2, <2>3, <2>4, <2>5, <2>6 DEF IsEmptied
<1> QED BY <1>3, <1>4

IsFlush(l, st, r) ==
    /\ Step(l, st, r) /\ Idle(r.st) /\ KeysOf(r.out) = Typed(st)
    /\ st.reading # <<>> => r.st.gen > st.gen
    /\ st.reading # <<>> /\ st.pending = <<>> => r.out = Shown(st)
    /\ Idle(st) => r = Result(st, <<>>, FALSE)
    /\ ~Idle(st) => r.eaten = TRUE

\* A flush commits all that waits, as it is shown (SeqKb_Flush).
LEMMA FlushIs ==
    ASSUME NEW l, Layout(l), NEW st, Good(l, st)
    PROVE  IsFlush(l, st, SeqKb_Flush(l, st))
<1>0. st \in Engine /\ st.gen \in Int
    BY GenIs
<1>1. CASE Idle(st)
    <2>1. SeqKb_Flush(l, st) = Result(st, <<>>, FALSE)
        BY <1>1 DEF SeqKb_Flush
    <2>2. Step(l, st, Result(st, <<>>, FALSE))
        BY NothingIs
    <2>3. Typed(st) = <<>>
        <3>1. st.reading = <<>> /\ st.pending = <<>>
            BY <1>1 DEF Idle
        <3> QED BY <3>1, FlatEmpty, WordsJoin DEF Typed
    <2>4. Result(st, <<>>, FALSE).st = st /\ Result(st, <<>>, FALSE).out = <<>>
        BY DEF Result
    <2> QED BY <1>1, <2>1, <2>2, <2>3, <2>4, KeysOfEmpty DEF IsFlush, Idle
<1>2. CASE ~Idle(st)
    <2> DEFINE r == Settle(l, st)
               e == Emptied(r)
    <2>1. SeqKb_Flush(l, st) = e
        BY <1>2 DEF SeqKb_Flush
    <2>2. IsSettled(l, st, r)
        BY SettleIs
    <2> HIDE DEF r
    <2>3. IsEmptied(l, r, e) /\ e.eaten = TRUE
        BY <2>2, EmptiedIs DEF IsSettled
    <2> HIDE DEF e
    <2>4. Step(l, st, e)
        BY <2>2, <2>3, StepTwice DEF IsSettled, IsEmptied
    <2>5. Idle(e.st) /\ KeysOf(e.out) = Typed(st)
        BY <2>2, <2>3 DEF IsSettled, IsEmptied, Idle
    <2>6. ASSUME st.reading # <<>> PROVE e.st.gen > st.gen
        <3>1. Newer(st, e.st) /\ e.st.gen \in Int
            BY <2>4, GenIs DEF Step
        <3>2. e.st.reading # st.reading
            BY <2>3, <2>6 DEF IsEmptied
        <3> QED BY <1>0, <3>1, <3>2 DEF Newer
    <2>7. ASSUME st.reading # <<>>, st.pending = <<>> PROVE e.out = Shown(st)
        <3>1. r = Result(st, <<>>, TRUE)
            BY <2>2, <2>7 DEF IsSettled
        <3>2. r.st = st /\ r.out = <<>>
            BY <3>1 DEF Result
        <3>3. e.out = <<>> \o Shown(st)
            BY <2>3, <2>7, <3>2 DEF IsEmptied
        <3>4. Shown(st) \in Pieces(Printable)
            BY ShownIs
        <3> QED BY <3>3, <3>4, PiecesJoin
    <2> QED BY <1>2, <2>1, <2>3, <2>4, <2>5, <2>6, <2>7 DEF IsFlush
<1> QED BY <1>1, <1>2

------------------------------------------------------------------------------

(* Candidates: each is of the first units of the reading. *)
Items1 == [keys : Words, as : Manners, used : Nat]
IsCandidate(c, units) ==
    c \in Items1 /\ c.used \in 1 .. Len(units) /\ c.keys = Flat(SubSeq(units, 1, c.used))
Lists == [gen : Int, items : Seq(Items1)]
CandsFit(items, units) ==
    items \in Seq(Items1) /\ \A n \in 1 .. Len(items) : IsCandidate(items[n], units)

\* The first units of a reading are a reading.
LEMMA PrefixIs ==
    ASSUME NEW units \in Units, NEW i \in 0 .. Len(units) + 1, NEW j \in 0 .. Len(units)
    PROVE  /\ SubSeq(units, i + 1, j) \in Units
           /\ Len(SubSeq(units, i + 1, j)) = IF i < j THEN j - i ELSE 0
<1>1. \A n \in i + 1 .. j : units[n] \in Unit
    <2>1. Len(units) \in Nat
        BY DEF Units
    <2> QED BY <2>1, ElementOfSeq DEF Units
<1>2. i + 1 \in Int /\ j \in Int /\ Len(units) \in Nat
    BY DEF Units
<1> QED BY <1>1, <1>2, SubSeqProperties DEF Units

LEMMA FirstUnits ==
    ASSUME NEW units \in Units, NEW k \in 0 .. Len(units)
    PROVE  /\ SubSeq(units, 1, k) \in Units /\ Len(SubSeq(units, 1, k)) = k
           /\ SubSeq(units, k + 1, Len(units)) \in Units
           /\ Len(SubSeq(units, k + 1, Len(units))) = Len(units) - k
           /\ units = SubSeq(units, 1, k) \o SubSeq(units, k + 1, Len(units))
<1>1. Len(units) \in Nat /\ units \in Seq(Unit) /\ \A n \in 1 .. Len(units) : units[n] \in Unit
    BY ElementOfSeq DEF Units
<1>2. SubSeq(units, 0 + 1, k) \in Units /\ Len(SubSeq(units, 0 + 1, k)) = k
    <2>1. 0 \in 0 .. Len(units) + 1
        BY <1>1
    <2> QED BY <1>1, <2>1, PrefixIs
<1>3. /\ SubSeq(units, k + 1, Len(units)) \in Units
      /\ Len(SubSeq(units, k + 1, Len(units))) = Len(units) - k
    <2>1. k \in 0 .. Len(units) + 1 /\ Len(units) \in 0 .. Len(units)
        BY <1>1
    <2> QED BY <1>1, <2>1, PrefixIs
<1>4. units = SubSeq(units, 1, k) \o SubSeq(units, k + 1, Len(units))
    <2> DEFINE a == SubSeq(units, 1, k)
               b == SubSeq(units, k + 1, Len(units))
    <2>1. a \in Seq(Unit) /\ b \in Seq(Unit) /\ Len(a) = k /\ Len(b) = Len(units) - k
        BY <1>2, <1>3 DEF Units
    <2>2. /\ \A n \in 1 .. k : a[n] = units[n]
          /\ \A n \in 1 .. Len(units) - k : b[n] = units[k + n]
        <3>1. \A n \in 1 .. k : units[n] \in Unit
            BY <1>1
        <3>2. \A n \in k + 1 .. Len(units) : units[n] \in Unit
            BY <1>1
        <3>3. \A n \in 1 .. k - 1 + 1 : a[n] = units[1 + n - 1]
            BY <3>1, SubSeqProperties
        <3>4. \A n \in 1 .. Len(units) - (k + 1) + 1 : b[n] = units[k + 1 + n - 1]
            <4>1. k + 1 \in Int /\ Len(units) \in Int
                BY <1>1
            <4> QED BY <4>1, <3>2, SubSeqProperties
        <3> QED BY <1>1, <3>3, <3>4
    <2> HIDE DEF a, b
    <2>3. a \o b \in Seq(Unit) /\ Len(a \o b) = Len(units)
        BY <1>1, <2>1
    <2>4. \A n \in 1 .. Len(units) : (a \o b)[n] = units[n]
        <3>1. ASSUME NEW n \in 1 .. Len(units) PROVE (a \o b)[n] = units[n]
            <4>1. (a \o b)[n] = IF n <= k THEN a[n] ELSE b[n - k]
                BY <1>1, <2>1
            <4>2. CASE n <= k
                BY <2>2, <4>1, <4>2
            <4>3. CASE ~(n <= k)
                <5>1. n - k \in 1 .. Len(units) - k /\ k + (n - k) = n
                    BY <1>1, <4>3
                <5> QED BY <2>2, <4>1, <4>3, <5>1
            <4> QED BY <4>2, <4>3
        <3> QED BY <3>1
    <2>5. units = a \o b
        BY <1>1, <2>3, <2>4, SeqEqual
    <2> QED BY <2>5 DEF a, b
<1>5. SubSeq(units, 1, k) \in Units /\ Len(SubSeq(units, 1, k)) = k
    BY <1>2
<1> QED BY <1>3, <1>4, <1>5

Covered(units, k, as) == [keys |-> Flat(SubSeq(units, 1, k)), as |-> as, used |-> k]

\* The keys that a candidate covers are the first of the reading.
LEMMA CoveredIs ==
    ASSUME NEW units \in Units, NEW k \in 1 .. Len(units), NEW as \in Manners
    PROVE  IsCandidate(Covered(units, k, as), units)
<1>1. k \in Nat /\ k \in 0 .. Len(units)
    BY DEF Units
<1>2. Flat(SubSeq(units, 1, k)) \in Words
    BY <1>1, FirstUnits, UnitsAreWords
<1> QED BY <1>1, <1>2 DEF IsCandidate, Covered, Items1

LEMMA FitsJoin ==
    ASSUME NEW units, NEW a, NEW b, CandsFit(a, units), CandsFit(b, units)
    PROVE  CandsFit(a \o b, units)
<1>1. a \in Seq(Items1) /\ b \in Seq(Items1) /\ Len(a) \in Nat /\ Len(b) \in Nat
    BY DEF CandsFit
<1>2. a \o b \in Seq(Items1) /\ Len(a \o b) = Len(a) + Len(b)
    BY <1>1
<1>3. ASSUME NEW n \in 1 .. Len(a \o b) PROVE IsCandidate((a \o b)[n], units)
    <2>1. (a \o b)[n] = IF n <= Len(a) THEN a[n] ELSE b[n - Len(a)]
        BY <1>1, <1>2
    <2>2. CASE n <= Len(a)
        <3>1. n \in 1 .. Len(a)
            BY <1>1, <2>2
        <3> QED BY <2>1, <2>2, <3>1 DEF CandsFit
    <2>3. CASE ~(n <= Len(a))
        <3>1. n - Len(a) \in 1 .. Len(b)
            BY <1>1, <1>2, <2>3
        <3> QED BY <2>1, <2>3, <3>1 DEF CandsFit
    <2> QED BY <2>2, <2>3
<1> QED BY <1>2, <1>3 DEF CandsFit

LEMMA FitsOne ==
    ASSUME NEW units, NEW c, IsCandidate(c, units)
    PROVE  CandsFit(<<c>>, units) /\ CandsFit(<<>>, units)
<1>1. c \in Items1
    BY DEF IsCandidate
<1> QED BY <1>1 DEF CandsFit

LEMMA FitsEmpty == \A units : CandsFit(<<>>, units)
BY DEF CandsFit

LEMMA FitsEach ==
    ASSUME NEW units \in Units, NEW ks \in Seq(1 .. Len(units)), NEW as \in Manners
    PROVE  CandsFit([i \in DOMAIN ks |-> Covered(units, ks[i], as)], units)
<1> DEFINE f == [i \in DOMAIN ks |-> Covered(units, ks[i], as)]
<1>1. Len(ks) \in Nat /\ DOMAIN ks = 1 .. Len(ks) /\ \A i \in 1 .. Len(ks) : ks[i] \in 1 .. Len(units)
    BY ElementOfSeq
<1>2. ASSUME NEW i \in 1 .. Len(ks) PROVE IsCandidate(f[i], units)
    <2>1. f[i] = Covered(units, ks[i], as) /\ ks[i] \in 1 .. Len(units)
        BY <1>1
    <2> QED BY <2>1, CoveredIs
<1>3. f \in Seq(Items1) /\ Len(f) = Len(ks)
    <2>1. \A i \in 1 .. Len(ks) : f[i] \in Items1
        BY <1>2 DEF IsCandidate
    <2>2. f = [i \in 1 .. Len(ks) |-> f[i]]
        BY <1>1
    <2> HIDE DEF f
    <2>3. f \in [1 .. Len(ks) -> Items1]
        BY <2>1, <2>2
    <2> QED BY <1>1, <2>3
<1> HIDE DEF f
<1>4. CandsFit(f, units)
    BY <1>2, <1>3 DEF CandsFit
<1> QED BY <1>4 DEF f

LEMMA SeqSub == ASSUME NEW S, NEW T, S \subseteq T, NEW s \in Seq(S) PROVE s \in Seq(T)
OBVIOUS

LEMMA MaxIn ==
    ASSUME NEW N \in Nat, NEW S \in SUBSET (0 .. N), S # {}
    PROVE  Max(S) \in S
<1>1. \E x \in S : \A y \in S : y <= x
    BY GreatestNumber
<1>2. \E x \in S : \A y \in S : x >= y
    BY <1>1
<1> QED BY <1>2 DEF Max

\* The prefixes that begin with a word, the longest of them first in the best cut.
WordsOf(l, units) == {k \in 1 .. Len(units) - 1 : SegRange(l, SubSeq(units, 1, k))}
FirstsOf(l, units) ==
    {k \in WordsOf(l, units) : Splits(l, SubSeq(units, k + 1, Len(units)))}
LongestIn(S) == IF S = {} THEN <<>> ELSE <<Max(S)>>
RestOf(l, units) ==
    Only(WordsOf(l, units) \ Range(LongestIn(FirstsOf(l, units))),
         [k \in 1 .. Len(units) |-> Len(units) - k])

LEMMA CandidatesDef ==
    ASSUME NEW l, NEW units
    PROVE  Candidates(l, units) =
             IF IsVMode(l, units) THEN IF Len(units) > 1 THEN <<Covered(units, Len(units), "word")>> ELSE <<>>
             ELSE (IF FirstsOf(l, units) # {} THEN <<Covered(units, Len(units), "sentence")>> ELSE <<>>)
                  \o (IF SegRange(l, units) THEN <<Covered(units, Len(units), "word")>> ELSE <<>>)
                  \o [i \in DOMAIN (LongestIn(FirstsOf(l, units)) \o RestOf(l, units)) |->
                        Covered(units, (LongestIn(FirstsOf(l, units)) \o RestOf(l, units))[i], "word")]
BY Zenon DEF Candidates, Covered, FirstsOf, WordsOf, LongestIn, RestOf

LEMMA CutsAre ==
    ASSUME NEW l, NEW units \in Units
    PROVE  LongestIn(FirstsOf(l, units)) \o RestOf(l, units) \in Seq(1 .. Len(units))
<1> DEFINE N == Len(units)
           W == WordsOf(l, units)
           F == FirstsOf(l, units)
           down == [k \in 1 .. N |-> N - k]
<1>1. N \in Nat
    BY DEF Units
<1>2. W \subseteq 1 .. N /\ F \subseteq W
    BY <1>1 DEF WordsOf, FirstsOf
<1>3. LongestIn(F) \in Seq(1 .. N)
    <2>1. CASE F = {}
        BY <2>1 DEF LongestIn
    <2>2. CASE F # {}
        <3>1. F \in SUBSET (0 .. N)
            BY <1>1, <1>2
        <3> HIDE DEF F, N
        <3>2. Max(F) \in F
            BY <1>1, <2>2, <3>1, MaxIn
        <3>3. Max(F) \in 1 .. N
            BY <1>2, <3>2
        <3>4. LongestIn(F) = <<Max(F)>>
            BY <2>2 DEF LongestIn
        <3> DEFINE x == Max(F)
        <3> HIDE DEF x
        <3>5. <<x>> \in Seq(1 .. N)
            BY <3>3 DEF x
        <3> QED BY <3>4, <3>5 DEF x
    <2> QED BY <2>1, <2>2
<1>4. down \in Seq(0 .. N)
    <2> HIDE DEF N
    <2>1. down \in [1 .. N -> 0 .. N]
        BY <1>1
    <2> QED BY <1>1, <2>1
<1>5. RestOf(l, units) \in Seq(1 .. N)
    <2> DEFINE K == W \ Range(LongestIn(F))
    <2>1. RestOf(l, units) = Only(K, down)
        BY DEF RestOf
    <2>2. K \subseteq 1 .. N
        BY <1>2
    <2> HIDE DEF K, N, down
    <2>3. Only(K, down) \in Seq((0 .. N) \cap K)
        BY <1>4, OnlyType
    <2>4. (0 .. N) \cap K \subseteq 1 .. N
        BY <2>2
    <2> QED BY <2>1, <2>3, <2>4, SeqSub
<1> HIDE DEF N, F
<1>6. LongestIn(F) \o RestOf(l, units) \in Seq(1 .. N)
    BY <1>3, <1>5
<1> QED BY <1>6 DEF N, F

\* Each candidate offered is of the first units of the reading (BuildCandidates).
LEMMA CandidatesIs ==
    ASSUME NEW l, NEW units \in Units
    PROVE  CandsFit(Candidates(l, units), units)
<1> DEFINE N == Len(units)
           s == IF FirstsOf(l, units) # {} THEN <<Covered(units, N, "sentence")>> ELSE <<>>
           t == IF SegRange(l, units) THEN <<Covered(units, N, "word")>> ELSE <<>>
           ks == LongestIn(FirstsOf(l, units)) \o RestOf(l, units)
           u == [i \in DOMAIN ks |-> Covered(units, ks[i], "word")]
<1>1. N \in Nat
    BY DEF Units
<1>2. ASSUME N > 0 PROVE IsCandidate(Covered(units, N, "word"), units)
                         /\ IsCandidate(Covered(units, N, "sentence"), units)
    <2>1. N \in 1 .. Len(units) /\ "word" \in Manners /\ "sentence" \in Manners
        BY <1>1, <1>2 DEF Manners
    <2> HIDE DEF N
    <2> QED BY <2>1, CoveredIs
<1>3. CASE IsVMode(l, units)
    <2>1. Candidates(l, units) = IF N > 1 THEN <<Covered(units, N, "word")>> ELSE <<>>
        BY <1>3, CandidatesDef
    <2>2. CASE N > 1
        BY <1>1, <1>2, <2>1, <2>2, FitsOne
    <2>3. CASE ~(N > 1)
        BY <2>1, <2>3, FitsEmpty
    <2> QED BY <2>2, <2>3
<1>4. CASE ~IsVMode(l, units)
    <2>1. Candidates(l, units) = s \o t \o u
        BY <1>4, CandidatesDef
    <2>2. CandsFit(s, units)
        <3>1. CASE FirstsOf(l, units) # {}
            <4>1. N > 0
                BY <1>1, <3>1 DEF FirstsOf, WordsOf
            <4> QED BY <1>2, <3>1, <4>1, FitsOne
        <3>2. CASE FirstsOf(l, units) = {}
            BY <3>2, FitsEmpty
        <3> QED BY <3>1, <3>2
    <2>3. CandsFit(t, units)
        <3>1. CASE SegRange(l, units)
            <4>1. N > 0
                BY <1>1, <3>1, EmptySeq DEF SegRange, Units
            <4> QED BY <1>2, <3>1, <4>1, FitsOne
        <3>2. CASE ~SegRange(l, units)
            BY <3>2, FitsEmpty
        <3> QED BY <3>1, <3>2
    <2>4. CandsFit(u, units)
        <3>1. ks \in Seq(1 .. Len(units)) /\ "word" \in Manners
            BY CutsAre DEF Manners
        <3> HIDE DEF ks
        <3> QED BY <3>1, FitsEach
    <2> HIDE DEF s, t, u
    <2>5. CandsFit(s \o t, units)
        BY <2>2, <2>3, FitsJoin
    <2>6. CandsFit((s \o t) \o u, units)
        BY <2>4, <2>5, FitsJoin
    <2> QED BY <2>1, <2>6
<1> QED BY <1>3, <1>4

OkToList(l, st, r, how, items) ==
    l.cand /\ (how = "live" => st.reading # <<>>) /\ r.st.reading # <<>> /\ items # <<>>

IsListed(r, items, c) ==
    /\ c.ok /\ c.ok \in BOOLEAN /\ c.spilled \in BOOLEAN
    /\ c.cands = [gen |-> r.st.gen, items |-> items]
    /\ c.st = [r.st EXCEPT !.open = TRUE]
IsNotListed(st, r, items, c) ==
    /\ ~c.ok /\ c.ok \in BOOLEAN /\ c.spilled \in BOOLEAN
    /\ c.cands = [gen |-> r.st.gen, items |-> items]
    /\ c.st = st

LEMMA ListedOk ==
    ASSUME NEW l, NEW st, NEW r, NEW how, NEW items, OkToList(l, st, r, how, items)
    PROVE  IsListed(r, items, Listed(l, st, r, how, items))
BY DEF Listed, Converted, OkToList, IsListed

LEMMA ListedNot ==
    ASSUME NEW l, NEW st, NEW r, NEW how, NEW items, ~OkToList(l, st, r, how, items)
    PROVE  IsNotListed(st, r, items, Listed(l, st, r, how, items))
BY DEF Listed, Converted, OkToList, IsNotListed

\* The list of a conversion is of the reading it leaves.
IsConverted(l, st, how, c) ==
    /\ c.ok \in BOOLEAN /\ c.spilled \in BOOLEAN /\ c.cands \in Lists
    /\ ~c.ok => c.st = st
    /\ c.ok =>
           /\ Good(l, c.st) /\ Newer(st, c.st) /\ l.cand
           /\ c.st.open = TRUE /\ c.st.conv = st.conv /\ c.st.convGen = st.convGen
           /\ c.st.reading # <<>> /\ c.cands.gen = c.st.gen
           /\ c.cands.items # <<>> /\ CandsFit(c.cands.items, c.st.reading)
           /\ how = "live" => c.st.pending = st.pending /\ c.st.reading = st.reading
           /\ how # "live" => c.st.pending = <<>>

LEMMA ListsAre ==
    ASSUME NEW g \in Int, NEW units, NEW items, CandsFit(items, units)
    PROVE  [gen |-> g, items |-> items] \in Lists
BY DEF Lists, CandsFit

LEMMA OpenedList ==
    ASSUME NEW l, NEW st, Good(l, st)
    PROVE  LET s == [st EXCEPT !.open = TRUE]
           IN  /\ Good(l, s) /\ s.gen = st.gen /\ s.reading = st.reading /\ s.pending = st.pending
               /\ s.open = TRUE /\ s.conv = st.conv /\ s.convGen = st.convGen
BY DEF Good, Engine

LEMMA ListedConverts ==
    ASSUME NEW l, NEW st, Good(l, st), NEW r, Step(l, st, r), SameShow(st, r.st), NEW how,
           how = "live" => r.st = st, how # "live" => r.st.pending = <<>>
    PROVE  IsConverted(l, st, how, Listed(l, st, r, how, Candidates(l, r.st.reading)))
<1> DEFINE items == Candidates(l, r.st.reading)
           c == Listed(l, st, r, how, items)
           s == [r.st EXCEPT !.open = TRUE]
<1>1. r.st \in Engine /\ r.st.reading \in Units /\ r.st.gen \in Int /\ Good(l, r.st)
    BY EngineIs, ReadingsAre DEF Step, Good
<1>2. CandsFit(items, r.st.reading)
    BY <1>1, CandidatesIs
<1> HIDE DEF items
<1>3. [gen |-> r.st.gen, items |-> items] \in Lists
    BY <1>1, <1>2, ListsAre
<1>4. /\ Good(l, s) /\ s.gen = r.st.gen /\ s.reading = r.st.reading /\ s.pending = r.st.pending
      /\ s.open = TRUE /\ s.conv = r.st.conv /\ s.convGen = r.st.convGen
    BY <1>1, OpenedList
<1>5. CASE OkToList(l, st, r, how, items)
    <2>1. /\ c.ok /\ c.ok \in BOOLEAN /\ c.spilled \in BOOLEAN /\ c.st = s
          /\ c.cands = [gen |-> r.st.gen, items |-> items]
        BY <1>5, ListedOk DEF IsListed
    <2> HIDE DEF c, s
    <2>2. c.ok \in BOOLEAN /\ c.spilled \in BOOLEAN /\ c.cands \in Lists
        BY <1>3, <2>1
    <2>3. c.cands.gen = c.st.gen /\ c.cands.items = items
        BY <1>4, <2>1
    <2>4. l.cand /\ items # <<>> /\ r.st.reading # <<>>
        BY <1>5 DEF OkToList
    <2>5. Newer(st, c.st)
        BY <1>4, <2>1 DEF Step, Newer
    <2>6. CandsFit(c.cands.items, c.st.reading)
        BY <1>2, <1>4, <2>1, <2>3
    <2>7. /\ how = "live" => c.st.pending = st.pending /\ c.st.reading = st.reading
          /\ how # "live" => c.st.pending = <<>>
        BY <1>4, <2>1
    <2>8. Good(l, c.st) /\ c.st.open = TRUE /\ c.st.conv = st.conv /\ c.st.convGen = st.convGen
        BY <1>4, <2>1 DEF SameShow
    <2>9. c.st.reading # <<>> /\ c.cands.items # <<>>
        BY <1>4, <2>1, <2>3, <2>4
    <2>10. IsConverted(l, st, how, c)
        BY <2>1, <2>2, <2>3, <2>4, <2>5, <2>6, <2>7, <2>8, <2>9 DEF IsConverted
    <2> QED BY <2>10 DEF c, items
<1>6. CASE ~OkToList(l, st, r, how, items)
    <2>1. /\ ~c.ok /\ c.ok \in BOOLEAN /\ c.spilled \in BOOLEAN /\ c.st = st
          /\ c.cands = [gen |-> r.st.gen, items |-> items]
        BY <1>6, ListedNot DEF IsNotListed
    <2> HIDE DEF c
    <2>2. IsConverted(l, st, how, c)
        BY <1>3, <2>1 DEF IsConverted
    <2> QED BY <2>2 DEF c, items
<1> QED BY <1>5, <1>6

\* A conversion offers a list of the reading it leaves, or changes nothing (SeqKb_Convert).
LEMMA ConvertIs ==
    ASSUME NEW l, Layout(l), NEW st, Good(l, st), NEW how
    PROVE  IsConverted(l, st, how, Convert(l, st, how))
<1>1. CASE how = "live"
    <2> DEFINE r == Result(st, <<>>, TRUE)
    <2>1. Convert(l, st, how) = Listed(l, st, r, how, Candidates(l, r.st.reading))
        BY <1>1 DEF Convert, Searched
    <2>2. Step(l, st, r) /\ r.st = st
        BY NothingIs DEF Result
    <2> HIDE DEF r
    <2>3. SameShow(st, r.st)
        BY <2>2 DEF SameShow
    <2>4. IsConverted(l, st, how, Listed(l, st, r, how, Candidates(l, r.st.reading)))
        BY <1>1, <2>2, <2>3, ListedConverts
    <2> QED BY <2>1, <2>4
<1>2. CASE how # "live"
    <2> DEFINE r == Settle(l, st)
    <2>1. Convert(l, st, how) = Listed(l, st, r, how, Candidates(l, r.st.reading))
        BY <1>2 DEF Convert, Searched
    <2>2. Step(l, st, r) /\ SameShow(st, r.st) /\ r.st.pending = <<>>
        BY SettleIs DEF IsSettled
    <2> HIDE DEF r
    <2>4. IsConverted(l, st, how, Listed(l, st, r, how, Candidates(l, r.st.reading)))
        BY <1>2, <2>2, ListedConverts
    <2> QED BY <2>1, <2>4
<1> QED BY <1>1, <1>2

\* Where the separators after the first k units end.
SepsEnd(units, k, u) ==
    /\ u \in k .. Len(units)
    /\ \A j \in k + 1 .. u : units[j] = <<Sep>>
    /\ u = Len(units) \/ units[u + 1] # <<Sep>>

LEMMA SepsEndExists ==
    ASSUME NEW units \in Units, NEW k \in 0 .. Len(units)
    PROVE  \E u : SepsEnd(units, k, u)
<1> DEFINE N == Len(units)
           S == {u \in k .. N : \A j \in k + 1 .. u : units[j] = <<Sep>>}
<1>1. N \in Nat /\ k \in Nat /\ k <= N
    BY DEF Units
<1>2. k \in S
    BY <1>1
<1>3. S \in SUBSET (0 .. N)
    BY <1>1
<1>4. \E x \in S : \A y \in S : y <= x
    <2>1. S # {}
        BY <1>2
    <2> HIDE DEF S, N
    <2> QED BY <1>1, <1>3, <2>1, GreatestNumber
<1>5. PICK x \in S : \A y \in S : y <= x
    BY <1>4
<1>6. x \in k .. N /\ \A j \in k + 1 .. x : units[j] = <<Sep>>
    BY <1>5
<1>7. CASE x # N /\ units[x + 1] = <<Sep>>
    <2>1. x + 1 \in k .. N
        BY <1>1, <1>6, <1>7
    <2>2. \A j \in k + 1 .. x + 1 : units[j] = <<Sep>>
        BY <1>1, <1>6, <1>7
    <2>3. x + 1 \in S
        BY <2>1, <2>2
    <2>4. x + 1 <= x
        BY <1>5, <2>3
    <2> QED BY <1>1, <1>6, <2>4
<1>8. CASE ~(x # N /\ units[x + 1] = <<Sep>>)
    BY <1>6, <1>8 DEF SepsEnd
<1> QED BY <1>7, <1>8

Used(st, c) == CHOOSE u \in c.used .. Len(st.reading) :
                   /\ \A k \in c.used + 1 .. u : st.reading[k] = <<Sep>>
                   /\ u = Len(st.reading) \/ st.reading[u + 1] # <<Sep>>

\* A choice uses the units it covers, and the separators after them.
LEMMA UsedIs ==
    ASSUME NEW st \in Engine, NEW c, IsCandidate(c, st.reading)
    PROVE  SepsEnd(st.reading, c.used, Used(st, c))
<1>1. st.reading \in Units /\ Len(st.reading) \in Nat
    BY EngineIs, ReadingsAre
<1>2. c.used \in 0 .. Len(st.reading)
    BY <1>1 DEF IsCandidate
<1>3. \E u : SepsEnd(st.reading, c.used, u)
    BY <1>1, <1>2, SepsEndExists
<1>4. \E u \in c.used .. Len(st.reading) :
          /\ \A k \in c.used + 1 .. u : st.reading[k] = <<Sep>>
          /\ u = Len(st.reading) \/ st.reading[u + 1] # <<Sep>>
    BY <1>3 DEF SepsEnd
<1> QED BY <1>4 DEF Used, SepsEnd

\* What is left of the reading, and of the pending keys, after a choice.
AfterUsed(st, c) == SubSeq(st.reading, Used(st, c) + 1, Len(st.reading))
PendingAfter(st, c) == IF Used(st, c) < Len(st.reading) THEN st.pending ELSE <<>>

LEMMA ChooseDef ==
    ASSUME NEW l, NEW st, NEW cands, NEW n
    PROVE  SeqKb_Choose(l, st, cands, n) =
             IF cands.gen # st.gen THEN Result(st, <<>>, FALSE)
             ELSE Result([NewReading(st, AfterUsed(st, cands.items[n]))
                            EXCEPT !.open = FALSE, !.pending = PendingAfter(st, cands.items[n])],
                         <<[keys |-> cands.items[n].keys, as |-> cands.items[n].as]>>, TRUE)
BY DEF SeqKb_Choose, AfterUsed, PendingAfter, Used, NewReading

IsChoice(l, st, cands, r) ==
    /\ Step(l, st, r)
    /\ ~r.eaten => r.st = st
    /\ cands.gen = st.gen => /\ Len(r.st.reading) < Len(st.reading)
                             /\ st.pending = <<>> => r.st.pending = <<>>
                             /\ r.eaten

\* A choice commits the first units, and leaves the others to be read (SeqKb_Choose).
LEMMA ChooseIs ==
    ASSUME NEW l, NEW st, Good(l, st), NEW cands, NEW n,
           cands.gen = st.gen => /\ n \in 1 .. Len(cands.items)
                                 /\ CandsFit(cands.items, st.reading)
    PROVE  IsChoice(l, st, cands, SeqKb_Choose(l, st, cands, n))
<1>0. st \in Engine /\ st.pending \in Words /\ st.reading \in Units /\ (l.cand \/ st.reading = <<>>)
      /\ Len(st.reading) \in Nat /\ Len(st.reading) <= MaxReading
    BY EngineIs, ReadingsAre DEF Good
<1>1. CASE cands.gen # st.gen
    <2>1. SeqKb_Choose(l, st, cands, n) = Result(st, <<>>, FALSE)
        BY <1>1, ChooseDef
    <2>2. Step(l, st, Result(st, <<>>, FALSE)) /\ Result(st, <<>>, FALSE).st = st
        BY NothingIs DEF Result
    <2> QED BY <1>1, <2>1, <2>2 DEF IsChoice
<1>2. CASE cands.gen = st.gen
    <2> DEFINE c == cands.items[n]
               u == AfterUsed(st, c)
               p == PendingAfter(st, c)
               s == [NewReading(st, u) EXCEPT !.open = FALSE, !.pending = p]
               o == <<[keys |-> c.keys, as |-> c.as]>>
    <2>1. IsCandidate(c, st.reading)
        BY <1>2 DEF CandsFit
    <2> HIDE DEF c
    <2>2. o \in Pieces(Printable)
        <3>1. c.keys \in Seq(Printable) /\ c.as \in Manners
            BY <2>1 DEF IsCandidate, Items1, Words
        <3> QED BY <3>1, KeysOfOne
    <2>3. /\ u \in Readings /\ p \in Words /\ (l.cand \/ u = <<>>)
          /\ Len(u) < Len(st.reading) /\ (st.pending = <<>> => p = <<>>)
        <3>1. SepsEnd(st.reading, c.used, Used(st, c))
            BY <1>0, <2>1, UsedIs
        <3>2. c.used \in 1 .. Len(st.reading)
            BY <2>1 DEF IsCandidate
        <3>3. Used(st, c) \in 0 .. Len(st.reading)
            BY <1>0, <3>1, <3>2 DEF SepsEnd
        <3>4. u \in Units /\ Len(u) = Len(st.reading) - Used(st, c)
            BY <1>0, <3>3, FirstUnits DEF AfterUsed
        <3>5. u \in Readings
            <4>1. Len(u) <= MaxReading
                BY <1>0, <3>3, <3>4, MaxReadingIs
            <4> QED BY <3>4, <4>1 DEF Readings
        <3>6. l.cand
            BY <1>0, <3>2
        <3>7. p \in Words
            BY <1>0, WordsJoin DEF PendingAfter
        <3>8. Len(u) < Len(st.reading)
            <4>1. Used(st, c) >= 1 /\ Used(st, c) \in Nat
                BY <1>0, <3>1, <3>2 DEF SepsEnd
            <4> QED BY <1>0, <3>4, <4>1
        <3>9. st.pending = <<>> => p = <<>>
            BY DEF PendingAfter
        <3> QED BY <3>5, <3>6, <3>7, <3>8, <3>9
    <2>4. SeqKb_Choose(l, st, cands, n) = Result(s, o, TRUE)
        <3>1. SeqKb_Choose(l, st, cands, n) =
             Result([NewReading(st, AfterUsed(st, cands.items[n]))
                            EXCEPT !.open = FALSE, !.pending = PendingAfter(st, cands.items[n])],
                         <<[keys |-> cands.items[n].keys, as |-> cands.items[n].as]>>, TRUE)
            BY <1>2, ChooseDef
        <3> QED BY <3>1 DEF c
    <2> HIDE DEF u, p, o
    <2>5. IsClosed(l, st, u, p, s)
        BY <2>3, ClosedReading
    <2> HIDE DEF s
    <2>6. /\ Step(l, st, Result(s, o, TRUE)) /\ Result(s, o, TRUE).eaten
          /\ Result(s, o, TRUE).st = s /\ s.reading = u /\ s.pending = p
        BY <2>2, <2>5 DEF IsClosed
    <2> QED BY <2>3, <2>4, <2>6 DEF IsChoice
<1> QED BY <1>1, <1>2

------------------------------------------------------------------------------
(* Committing the best candidates. *)

IsBest(l, st, f) ==
    f = [n \in 0 .. MaxReading + 1 |->
            IF n = 0 THEN Result(st, <<>>, TRUE) ELSE BestOrDone(l, f[n - 1])]

LEMMA CommitBestDef ==
    ASSUME NEW l, NEW st
    PROVE  SeqKb_CommitBest(l, st) =
             [(CHOOSE f : IsBest(l, st, f))[MaxReading + 1] EXCEPT !.eaten = TRUE]
BY Zenon DEF SeqKb_CommitBest, IsBest

\* A text in front of what an operation commits.
LEMMA WithBefore ==
    ASSUME NEW l, NEW st, NEW r, Step(l, st, r), NEW out \in Pieces(Printable)
    PROVE  /\ Step(l, st, [r EXCEPT !.out = out \o @]) /\ [r EXCEPT !.out = out \o @].st = r.st
<1>1. r \in Results /\ out \o r.out \in Pieces(Printable)
    BY PiecesJoin DEF Step, Results
<1>2. [r EXCEPT !.out = out \o @] \in Results /\ [r EXCEPT !.out = out \o @].st = r.st
    BY <1>1 DEF Results
<1> QED BY <1>2 DEF Step

\* One round: either nothing is left, or the reading is shorter and nothing is pending.
Shorter(a, b) == Idle(b) \/ (b.pending = <<>> /\ Len(b.reading) < Len(a.reading))
Round(l, r, q) ==
    /\ Step(l, r.st, q)
    /\ Idle(q.st) \/ (q.st.pending = <<>> /\ Len(q.st.reading) < MaxReading)
    /\ r.st.pending = <<>> => Shorter(r.st, q.st)

LEMMA BestOrDoneIs ==
    ASSUME NEW l, Layout(l), NEW st, Good(l, st), NEW r, Step(l, st, r)
    PROVE  Round(l, r, BestOrDone(l, r))
<1>0. r \in Results /\ Good(l, r.st) /\ r.st \in Engine /\ r.out \in Pieces(Printable)
    BY DEF Step, Good, Results
<1>1. CASE Idle(r.st)
    <2>1. BestOrDone(l, r) = r
        BY <1>1 DEF BestOrDone
    <2>2. Step(l, r.st, r)
        BY <1>0, SameReading DEF SameShow
    <2> QED BY <1>1, <2>1, <2>2 DEF Round, Shorter
<1>2. CASE ~Idle(r.st)
    <2> DEFINE c == Convert(l, r.st, "asked")
    <2>1. BestOrDone(l, r) = BestOf(l, r, c)
        BY <1>2 DEF BestOrDone
    <2>2. IsConverted(l, r.st, "asked", c)
        BY <1>0, ConvertIs
    <2> HIDE DEF c
    <2>3. CASE c.ok
        <3> DEFINE q == SeqKb_Choose(l, c.st, c.cands, 1)
                   p == [q EXCEPT !.out = r.out \o @]
        <3>1. /\ Good(l, c.st) /\ Newer(r.st, c.st) /\ c.cands.gen = c.st.gen
              /\ c.cands.items # <<>> /\ CandsFit(c.cands.items, c.st.reading)
              /\ c.st.pending = <<>>
            BY <2>2, <2>3 DEF IsConverted
        <3>2. 1 \in 1 .. Len(c.cands.items)
            <4>1. c.cands.items \in Seq(Items1)
                BY <3>1 DEF CandsFit
            <4>2. Len(c.cands.items) \in Nat /\ Len(c.cands.items) # 0
                BY <3>1, <4>1, EmptySeq
            <4> QED BY <4>2
        <3>3. IsChoice(l, c.st, c.cands, q)
            BY <3>1, <3>2, ChooseIs
        <3>4. BestOf(l, r, c) = p
            BY <2>3 DEF BestOf
        <3> HIDE DEF q
        <3>5. Step(l, c.st, q) /\ Len(q.st.reading) < Len(c.st.reading) /\ q.st.pending = <<>>
            BY <3>1, <3>3 DEF IsChoice
        <3>6. Step(l, c.st, p) /\ p.st = q.st
            BY <1>0, <3>5, WithBefore
        <3> HIDE DEF p
        <3>7. /\ r.st \in Engine /\ c.st \in Engine /\ q.st \in Engine /\ p \in Results
              /\ Good(l, p.st) /\ Newer(c.st, p.st)
            BY <1>0, <3>1, <3>5, <3>6 DEF Step, Good
        <3>8. Step(l, r.st, p)
            <4>1. Newer(r.st, p.st)
                <5>1. p.st \in Engine
                    BY <3>7, <3>6
                <5> QED BY <3>1, <3>7, <5>1, NewerIsTransitive
            <4> QED BY <3>7, <4>1 DEF Step
        <3>9. Len(q.st.reading) < MaxReading
            <4>1. /\ Len(c.st.reading) \in Nat /\ Len(c.st.reading) <= MaxReading
                  /\ Len(q.st.reading) \in Nat
                BY <3>7, EngineIs, ReadingsAre
            <4> QED BY <3>5, <4>1, MaxReadingIs
        <3>10. ASSUME r.st.pending = <<>> PROVE Shorter(r.st, p.st)
            <4>1. c = Convert(l, r.st, "asked")
                BY DEF c
            <4>2. c.st.reading = r.st.reading
                <5>1. Settle(l, r.st) = Result(r.st, <<>>, TRUE)
                    BY <1>0, <3>10, SettleIs DEF IsSettled
                <5>2. c = Listed(l, r.st, Settle(l, r.st), "asked", Candidates(l, Settle(l, r.st).st.reading))
                    BY <4>1 DEF Convert, Searched
                <5> DEFINE k == Candidates(l, Settle(l, r.st).st.reading)
                           x == Settle(l, r.st)
                <5>3. x.st = r.st
                    BY <5>1 DEF Result
                <5>4. c.st = r.st \/ c.st = [r.st EXCEPT !.open = TRUE]
                    <6> HIDE DEF k, x
                    <6>1. CASE OkToList(l, r.st, x, "asked", k)
                        <7>1. IsListed(x, k, Listed(l, r.st, x, "asked", k))
                            BY <6>1, ListedOk
                        <7>2. IsListed(x, k, c)
                            BY <5>2, <7>1 DEF k, x
                        <7> QED BY <5>3, <7>2 DEF IsListed
                    <6>2. CASE ~OkToList(l, r.st, x, "asked", k)
                        <7>1. IsNotListed(r.st, x, k, Listed(l, r.st, x, "asked", k))
                            BY <6>2, ListedNot
                        <7>2. IsNotListed(r.st, x, k, c)
                            BY <5>2, <7>1 DEF k, x
                        <7> QED BY <7>2 DEF IsNotListed
                    <6> QED BY <6>1, <6>2
                <5> QED BY <1>0, <5>4 DEF Engine
            <4> QED BY <3>5, <3>6, <4>2 DEF Shorter
        <3> QED BY <2>1, <3>4, <3>5, <3>6, <3>8, <3>9, <3>10 DEF Round
    <2>4. CASE ~c.ok
        <3> DEFINE q == SeqKb_Flush(l, r.st)
                   p == [q EXCEPT !.out = r.out \o @]
        <3>1. IsFlush(l, r.st, q)
            BY <1>0, FlushIs
        <3>2. BestOf(l, r, c) = p
            BY <2>4 DEF BestOf
        <3> HIDE DEF q
        <3>3. Step(l, r.st, p) /\ p.st = q.st /\ Idle(q.st)
            BY <1>0, <3>1, WithBefore, ZenonT(40) DEF IsFlush
        <3> HIDE DEF p
        <3> QED BY <2>1, <3>2, <3>3 DEF Round, Shorter
    <2> QED BY <2>3, <2>4
<1> QED BY <1>1, <1>2

LEMMA CommitBestExists ==
    ASSUME NEW l, Layout(l), NEW st, Good(l, st)
    PROVE  \E f : IsBest(l, st, f)
<1> DEFINE N == MaxReading + 1
           T == {r \in Results : Step(l, st, r)}
           next == [n \in 1 .. N |-> [r \in T |-> BestOrDone(l, r)]]
           e == Result(st, <<>>, TRUE)
<1>1. N \in Nat
    BY MaxReadingIs
<1>2. e \in T
    BY NothingIs DEF Step
<1>3. next \in [1 .. N -> [T -> T]]
    <2>1. ASSUME NEW r \in T PROVE BestOrDone(l, r) \in T
        <3>1. Step(l, st, r)
            OBVIOUS
        <3>2. Step(l, r.st, BestOrDone(l, r))
            BY <3>1, BestOrDoneIs DEF Round
        <3>3. Step(l, st, BestOrDone(l, r))
            BY <3>1, <3>2, StepTwice
        <3> QED BY <3>3 DEF Step
    <2> QED BY <2>1
<1>4. \E f \in [0 .. N -> T] : IsIteration(N, e, next, f)
    <2> HIDE DEF N, T, next, e
    <2> QED BY <1>1, <1>2, <1>3, Iteration
<1>5. PICK f \in [0 .. N -> T] : IsIteration(N, e, next, f)
    BY <1>4
<1>6. ASSUME NEW n \in 0 .. N PROVE f[n] = IF n = 0 THEN e ELSE BestOrDone(l, f[n - 1])
    <2>1. CASE n = 0
        BY <1>5, <2>1 DEF IsIteration
    <2>2. CASE n # 0
        <3>1. n \in 1 .. N /\ n - 1 \in 0 .. N
            BY <1>1, <2>2
        <3>2. f[n] = next[n][f[n - 1]] /\ f[n - 1] \in T
            <4> HIDE DEF T
            <4> QED BY <1>5, <3>1 DEF IsIteration
        <3> QED BY <2>2, <3>1, <3>2
    <2> QED BY <2>1, <2>2
<1>7. f = [n \in 0 .. N |-> f[n]]
    BY <1>5
<1>8. f = [n \in 0 .. N |-> IF n = 0 THEN e ELSE BestOrDone(l, f[n - 1])]
    <2> HIDE DEF N, e
    <2> QED BY <1>6, <1>7
<1>9. IsBest(l, st, f)
    BY <1>8 DEF IsBest
<1> QED BY <1>9

\* Committing the best candidates, one after another, empties the engine.
LEMMA CommitBestIs ==
    ASSUME NEW l, Layout(l), NEW st, Good(l, st)
    PROVE  LET r == SeqKb_CommitBest(l, st)
           IN  Step(l, st, r) /\ Idle(r.st)
<1> DEFINE N == MaxReading + 1
           g == CHOOSE f : IsBest(l, st, f)
           P == {n \in 0 .. N : /\ Step(l, st, g[n])
                                /\ n = 0 \/ Idle(g[n].st)
                                     \/ (g[n].st.pending = <<>> /\ Len(g[n].st.reading) <= MaxReading - n)}
<1>1. IsBest(l, st, g)
    BY CommitBestExists, Zenon
<1>2. SeqKb_CommitBest(l, st) = [g[N] EXCEPT !.eaten = TRUE]
    BY CommitBestDef
<1> HIDE DEF g
<1>3. N \in Nat /\ MaxReading \in Nat /\ N = MaxReading + 1
    BY MaxReadingIs
<1>4. \A n \in 0 .. N : g[n] = IF n = 0 THEN Result(st, <<>>, TRUE) ELSE BestOrDone(l, g[n - 1])
    BY <1>1 DEF IsBest
<1>5. ASSUME NEW n \in 0 .. N, \A m \in 0 .. n - 1 : m \in P PROVE n \in P
    <2>1. CASE n = 0
        BY <1>3, <1>4, <2>1, NothingIs
    <2>2. CASE n # 0
        <3>1. n - 1 \in 0 .. n - 1 /\ n \in 1 .. N
            BY <1>3, <2>2
        <3> DEFINE r == g[n - 1]
                   q == g[n]
        <3>2. /\ Step(l, st, r)
              /\ n - 1 = 0 \/ Idle(r.st)
                   \/ (r.st.pending = <<>> /\ Len(r.st.reading) <= MaxReading - (n - 1))
            <4>1. n - 1 \in P
                BY <1>5, <3>1
            <4> QED BY <4>1
        <3>3. q = BestOrDone(l, r)
            BY <1>4, <2>2
        <3> HIDE DEF r, q
        <3>4. Round(l, r, q)
            BY <3>2, <3>3, BestOrDoneIs
        <3>5. Step(l, st, q)
            BY <3>2, <3>4, StepTwice DEF Round
        <3>6. /\ Len(r.st.reading) \in Nat /\ Len(q.st.reading) \in Nat
              /\ r.st.reading = <<>> => Len(r.st.reading) = 0
            <4>1. r.st \in Engine /\ q.st \in Engine
                BY <3>2, <3>5 DEF Step, Good
            <4> QED BY <4>1, EngineIs, ReadingsAre
        <3>7. Idle(q.st) \/ (q.st.pending = <<>> /\ Len(q.st.reading) <= MaxReading - n)
            <4>1. CASE n - 1 = 0
                <5>1. n = 1
                    BY <3>1, <4>1
                <5> QED BY <1>3, <3>4, <3>6, <5>1 DEF Round
            <4>2. CASE Idle(r.st)
                <5>1. q = r
                    BY <3>3, <4>2 DEF BestOrDone
                <5> QED BY <4>2, <5>1
            <4>3. CASE r.st.pending = <<>> /\ Len(r.st.reading) <= MaxReading - (n - 1)
                <5>1. Idle(q.st) \/ (q.st.pending = <<>> /\ Len(q.st.reading) < Len(r.st.reading))
                    BY <3>4, <4>3 DEF Round, Shorter
                <5> QED BY <1>3, <3>1, <3>6, <4>3, <5>1
            <4> QED BY <3>2, <4>1, <4>2, <4>3
        <3>8. Step(l, st, g[n]) /\ (Idle(g[n].st) \/ (g[n].st.pending = <<>> /\ Len(g[n].st.reading) <= MaxReading - n))
            BY <3>5, <3>7 DEF q
        <3> QED BY <3>8
    <2> QED BY <2>1, <2>2
<1>6. N \in P
    <2> HIDE DEF P, N
    <2>1. \A n \in 0 .. N : n \in P
        BY <1>3, <1>5, UpTo
    <2> QED BY <1>3, <2>1
<1> DEFINE q == g[N]
           r == [q EXCEPT !.eaten = TRUE]
<1>7. Step(l, st, q) /\ (Idle(q.st) \/ (q.st.pending = <<>> /\ Len(q.st.reading) <= MaxReading - N))
    <2>1. N # 0
        BY <1>3
    <2> QED BY <1>6, <2>1
<1> HIDE DEF q
<1>8. Idle(q.st)
    <2>1. q.st \in Engine
        BY <1>7 DEF Step, Good
    <2>2. Len(q.st.reading) \in Nat
        BY <2>1, EngineIs, ReadingsAre
    <2>3. ~(Len(q.st.reading) <= MaxReading - N)
        BY <1>3, <2>2
    <2> QED BY <1>7, <2>3
<1>9. r \in Results /\ r.st = q.st
    BY <1>7 DEF Step, Results
<1>10. Step(l, st, r) /\ Idle(r.st)
    BY <1>7, <1>8, <1>9 DEF Step
<1> QED BY <1>2, <1>10 DEF q

------------------------------------------------------------------------------

(* The lengths of a cut sentence. *)
Lens == Seq(Nat \ {0})
IsStart(lens, i, f) == f = [n \in 1 .. i |-> IF n = 1 THEN 0 ELSE f[n - 1] + lens[n - 1]]

LEMMA StartDef == \A lens, i : StartOf(lens, i) = (CHOOSE f : IsStart(lens, i, f))[i]
BY Zenon DEF StartOf, IsStart

LEMMA LensAre ==
    ASSUME NEW lens \in Lens
    PROVE  Len(lens) \in Nat /\ \A n \in 1 .. Len(lens) : lens[n] \in Nat /\ lens[n] > 0
<1>1. \A n \in 1 .. Len(lens) : lens[n] \in Nat \ {0}
    BY ElementOfSeq DEF Lens
<1>2. Len(lens) \in Nat
    BY DEF Lens
<1> QED BY <1>1, <1>2

LEMMA StartExists ==
    ASSUME NEW lens \in Lens, NEW i \in 1 .. Len(lens) + 1
    PROVE  \E f \in [1 .. i -> Nat] : IsStart(lens, i, f)
<1> DEFINE N == i - 1
           next == [n \in 1 .. N |-> [x \in Nat |-> x + lens[n]]]
<1>1. N \in Nat /\ i \in Nat /\ i = N + 1 /\ N <= Len(lens) /\ Len(lens) \in Nat
    BY LensAre
<1>2. next \in [1 .. N -> [Nat -> Nat]]
    <2>1. \A n \in 1 .. N : lens[n] \in Nat
        BY <1>1, LensAre
    <2> QED BY <2>1
<1>3. \E g \in [0 .. N -> Nat] : IsIteration(N, 0, next, g)
    <2>1. 0 \in Nat
        OBVIOUS
    <2> HIDE DEF N, next
    <2> QED BY <1>1, <1>2, <2>1, Iteration
<1>4. PICK g \in [0 .. N -> Nat] : IsIteration(N, 0, next, g)
    BY <1>3
<1> DEFINE f == [n \in 1 .. i |-> g[n - 1]]
<1>5. f \in [1 .. i -> Nat]
    BY <1>1, <1>4
<1>6. ASSUME NEW n \in 1 .. i PROVE f[n] = IF n = 1 THEN 0 ELSE f[n - 1] + lens[n - 1]
    <2>1. f[n] = g[n - 1]
        OBVIOUS
    <2>2. CASE n = 1
        BY <1>4, <2>1, <2>2 DEF IsIteration
    <2>3. CASE n # 1
        <3>1. n - 1 \in 1 .. N /\ n - 1 \in 1 .. i /\ (n - 1) - 1 \in 0 .. N
            BY <1>1, <2>3
        <3>2. g[n - 1] = next[n - 1][g[(n - 1) - 1]]
            BY <1>4, <3>1 DEF IsIteration
        <3>3. g[(n - 1) - 1] \in Nat
            BY <1>4, <3>1
        <3>4. g[n - 1] = g[(n - 1) - 1] + lens[n - 1]
            BY <3>1, <3>2, <3>3
        <3>5. f[n - 1] = g[(n - 1) - 1]
            BY <3>1
        <3> QED BY <2>1, <2>3, <3>4, <3>5
    <2> QED BY <2>2, <2>3
<1>7. f = [n \in 1 .. i |-> f[n]]
    OBVIOUS
<1>8. IsStart(lens, i, f)
    <2> HIDE DEF f
    <2> QED BY <1>6, <1>7 DEF IsStart
<1> QED BY <1>5, <1>8

SameTo(a, b, n) == \A k \in 1 .. n - 1 : a[k] = b[k]

LEMMA StartSame ==
    ASSUME NEW a, NEW b, NEW i \in Nat, NEW j \in Nat, NEW f, IsStart(a, i, f),
           NEW g, IsStart(b, j, g), NEW n \in Nat, n >= 1, n <= i, n <= j, SameTo(a, b, n)
    PROVE  f[n] = g[n]
<1> DEFINE P == {m \in 0 .. n : m = 0 \/ f[m] = g[m]}
<1>1. ASSUME NEW m \in 0 .. n, \A k \in 0 .. m - 1 : k \in P PROVE m \in P
    <2>1. CASE m = 0
        BY <2>1
    <2>2. CASE m = 1
        <3>1. f[1] = 0 /\ g[1] = 0
            BY DEF IsStart
        <3> QED BY <2>2, <3>1
    <2>3. CASE m # 0 /\ m # 1
        <3>1. m \in 1 .. i /\ m \in 1 .. j /\ m - 1 \in 0 .. m - 1 /\ m - 1 # 0 /\ m - 1 \in 1 .. n - 1
            BY <2>3
        <3>2. f[m - 1] = g[m - 1] /\ a[m - 1] = b[m - 1]
            BY <1>1, <3>1 DEF SameTo
        <3>3. f[m] = f[m - 1] + a[m - 1] /\ g[m] = g[m - 1] + b[m - 1]
            BY <2>3, <3>1 DEF IsStart
        <3> QED BY <3>2, <3>3
    <2> QED BY <2>1, <2>2, <2>3
<1>2. n \in P
    <2> HIDE DEF P
    <2>1. \A m \in 0 .. n : m \in P
        BY <1>1, UpTo
    <2> QED BY <2>1
<1> QED BY <1>2

LEMMA StartFun ==
    ASSUME NEW lens \in Lens, NEW i \in 1 .. Len(lens) + 1
    PROVE  \E f \in [1 .. i -> Nat] : IsStart(lens, i, f) /\ StartOf(lens, i) = f[i]
<1>1. PICK f \in [1 .. i -> Nat] : IsStart(lens, i, f)
    BY StartExists
<1> DEFINE g == CHOOSE h : IsStart(lens, i, h)
<1>2. IsStart(lens, i, g)
    BY <1>1, Zenon
<1>3. StartOf(lens, i) = g[i]
    BY StartDef
<1> HIDE DEF g
<1>4. i \in Nat /\ i >= 1 /\ i <= i
    BY LensAre
<1>5. f[i] = g[i]
    <2>1. SameTo(lens, lens, i)
        BY DEF SameTo
    <2> QED BY <1>1, <1>2, <1>4, <2>1, StartSame
<1> QED BY <1>1, <1>3, <1>5

\* A segment starts where the ones before it end.
LEMMA StartIs ==
    ASSUME NEW lens \in Lens
    PROVE  /\ StartOf(lens, 1) = 0
           /\ \A i \in 1 .. Len(lens) + 1 : StartOf(lens, i) \in Nat
           /\ \A i \in 1 .. Len(lens) : StartOf(lens, i + 1) = StartOf(lens, i) + lens[i]
<1>1. ASSUME NEW i \in 1 .. Len(lens) + 1 PROVE StartOf(lens, i) \in Nat
    <2>1. \E f \in [1 .. i -> Nat] : IsStart(lens, i, f) /\ StartOf(lens, i) = f[i]
        BY StartFun
    <2>2. i \in 1 .. i
        BY LensAre
    <2> QED BY <2>1, <2>2
<1>2. StartOf(lens, 1) = 0
    <2>1. 1 \in 1 .. Len(lens) + 1
        BY LensAre
    <2>2. \E f \in [1 .. 1 -> Nat] : IsStart(lens, 1, f) /\ StartOf(lens, 1) = f[1]
        BY <2>1, StartFun
    <2> QED BY <2>2 DEF IsStart
<1>3. ASSUME NEW i \in 1 .. Len(lens) PROVE StartOf(lens, i + 1) = StartOf(lens, i) + lens[i]
    <2>1. i \in 1 .. Len(lens) + 1 /\ i + 1 \in 1 .. Len(lens) + 1 /\ i \in Nat /\ i + 1 \in Nat
        BY LensAre
    <2>2. \E f \in [1 .. i -> Nat] : IsStart(lens, i, f) /\ StartOf(lens, i) = f[i]
        BY <2>1, StartFun
    <2>3. PICK f \in [1 .. i -> Nat] : IsStart(lens, i, f) /\ StartOf(lens, i) = f[i]
        BY <2>2
    <2> DEFINE j == i + 1
    <2>4. \E g \in [1 .. j -> Nat] : IsStart(lens, j, g) /\ StartOf(lens, j) = g[j]
        BY <2>1, StartFun
    <2>5. PICK g \in [1 .. j -> Nat] : IsStart(lens, j, g) /\ StartOf(lens, j) = g[j]
        BY <2>4
    <2>6. f[i] = g[i]
        <3>1. SameTo(lens, lens, i) /\ i >= 1 /\ i <= i /\ i <= j
            BY <2>1 DEF SameTo
        <3> HIDE DEF j
        <3>2. j \in Nat
            BY <2>1 DEF j
        <3> QED BY <2>1, <2>3, <2>5, <3>1, <3>2, StartSame
    <2>7. g[j] = g[j - 1] + lens[j - 1]
        <3>1. j \in 1 .. j /\ j # 1
            BY <2>1
        <3> HIDE DEF j
        <3> QED BY <2>5, <3>1 DEF IsStart
    <2> QED BY <2>1, <2>3, <2>5, <2>6, <2>7
<1> QED BY <1>1, <1>2, <1>3

Total(lens) == StartOf(lens, Len(lens) + 1)

\* The same lengths start at the same places.
LEMMA StartAgrees ==
    ASSUME NEW a \in Lens, NEW b \in Lens, NEW i \in 1 .. Len(a) + 1, i <= Len(b) + 1,
           SameTo(a, b, i)
    PROVE  StartOf(a, i) = StartOf(b, i)
<1>1. i \in Nat /\ i >= 1 /\ i <= i /\ i \in 1 .. Len(b) + 1
    BY LensAre
<1>2. PICK f \in [1 .. i -> Nat] : IsStart(a, i, f) /\ StartOf(a, i) = f[i]
    BY StartFun
<1>3. PICK g \in [1 .. i -> Nat] : IsStart(b, i, g) /\ StartOf(b, i) = g[i]
    BY <1>1, StartFun
<1>4. f[i] = g[i]
    BY <1>1, <1>2, <1>3, StartSame
<1> QED BY <1>2, <1>3, <1>4

LEMMA TotalIs ==
    /\ <<>> \in Lens /\ Total(<<>>) = 0
    /\ \A a \in Lens : Total(a) \in Nat
<1>1. <<>> \in Lens /\ Len(<<>>) = 0
    BY DEF Lens
<1>2. Total(<<>>) = 0
    <2>1. StartOf(<<>>, 1) = 0
        BY <1>1, StartIs
    <2> QED BY <1>1, <2>1 DEF Total
<1>3. ASSUME NEW a \in Lens PROVE Total(a) \in Nat
    <2>1. Len(a) + 1 \in 1 .. Len(a) + 1
        BY LensAre
    <2> QED BY <2>1, StartIs DEF Total
<1> QED BY <1>1, <1>2, <1>3

LEMMA StartOfConcat ==
    ASSUME NEW a \in Lens, NEW b \in Lens
    PROVE  /\ a \o b \in Lens /\ Len(a \o b) = Len(a) + Len(b)
           /\ \A i \in 1 .. Len(a) + 1 : StartOf(a \o b, i) = StartOf(a, i)
           /\ \A j \in 1 .. Len(b) + 1 : StartOf(a \o b, Len(a) + j) = Total(a) + StartOf(b, j)
           /\ Total(a \o b) = Total(a) + Total(b)
<1> DEFINE c == a \o b
           T == Nat \ {0}
<1>1. c \in Lens /\ Len(c) = Len(a) + Len(b) /\ Len(a) \in Nat /\ Len(b) \in Nat
    <2>1. a \in Seq(T) /\ b \in Seq(T)
        BY DEF Lens
    <2> HIDE DEF T
    <2>2. c \in Seq(T) /\ Len(c) = Len(a) + Len(b) /\ Len(a) \in Nat /\ Len(b) \in Nat
        BY <2>1
    <2> QED BY <2>2 DEF T, Lens
<1>2. /\ \A k \in 1 .. Len(a) : c[k] = a[k]
      /\ \A k \in 1 .. Len(b) : c[Len(a) + k] = b[k]
    <2>1. a \in Seq(T) /\ b \in Seq(T)
        BY DEF Lens
    <2> HIDE DEF T
    <2>2. \A k \in 1 .. Len(a) + Len(b) : c[k] = IF k <= Len(a) THEN a[k] ELSE b[k - Len(a)]
        BY <2>1
    <2>3. ASSUME NEW k \in 1 .. Len(b) PROVE c[Len(a) + k] = b[k]
        <3>1. Len(a) + k \in 1 .. Len(a) + Len(b) /\ ~(Len(a) + k <= Len(a)) /\ (Len(a) + k) - Len(a) = k
            BY <1>1
        <3> QED BY <2>2, <3>1
    <2> HIDE DEF c
    <2>4. \A k \in 1 .. Len(a) : c[k] = a[k]
        <3>1. \A k \in 1 .. Len(a) : k \in 1 .. Len(a) + Len(b) /\ k <= Len(a)
            BY <1>1
        <3> QED BY <2>2, <3>1
    <2> QED BY <2>3, <2>4
<1> HIDE DEF c
<1>3. ASSUME NEW i \in 1 .. Len(a) + 1 PROVE StartOf(c, i) = StartOf(a, i)
    <2>1. i <= Len(c) + 1
        BY <1>1
    <2>2. SameTo(a, c, i)
        BY <1>1, <1>2 DEF SameTo
    <2> QED BY <1>1, <2>1, <2>2, StartAgrees
<1>4. ASSUME NEW j \in 1 .. Len(b) + 1 PROVE StartOf(c, Len(a) + j) = Total(a) + StartOf(b, j)
    <2> DEFINE P == {n \in 0 .. Len(b) : StartOf(c, Len(a) + (n + 1)) = Total(a) + StartOf(b, n + 1)}
    <2>1. ASSUME NEW n \in 0 .. Len(b), \A m \in 0 .. n - 1 : m \in P PROVE n \in P
        <3>1. CASE n = 0
            <4>1. StartOf(c, Len(a) + 1) = Total(a)
                <5>1. Len(a) + 1 \in 1 .. Len(a) + 1
                    BY <1>1
                <5> QED BY <1>3, <5>1 DEF Total
            <4>2. StartOf(b, 1) = 0 /\ Total(a) \in Nat
                BY StartIs, TotalIs
            <4> QED BY <3>1, <4>1, <4>2
        <3>2. CASE n # 0
            <4>1. n - 1 \in 0 .. n - 1 /\ n \in 1 .. Len(b) /\ Len(a) + n \in 1 .. Len(c)
                  /\ (n - 1) + 1 = n
                BY <1>1, <3>2
            <4>2. StartOf(c, Len(a) + n) = Total(a) + StartOf(b, n)
                BY <2>1, <4>1
            <4>3. StartOf(c, (Len(a) + n) + 1) = StartOf(c, Len(a) + n) + c[Len(a) + n]
                BY <1>1, <4>1, StartIs
            <4>4. StartOf(b, n + 1) = StartOf(b, n) + b[n]
                BY <4>1, StartIs
            <4>5. c[Len(a) + n] = b[n] /\ b[n] \in Nat
                BY <1>2, <4>1, LensAre
            <4>6. StartOf(b, n) \in Nat /\ Total(a) \in Nat
                <5>1. n \in 1 .. Len(b) + 1
                    BY <1>1, <4>1
                <5> QED BY <5>1, StartIs, TotalIs
            <4>7. (Len(a) + n) + 1 = Len(a) + (n + 1)
                BY <1>1
            <4> QED BY <4>2, <4>3, <4>4, <4>5, <4>6, <4>7
        <3> QED BY <3>1, <3>2
    <2>2. j - 1 \in 0 .. Len(b) /\ (j - 1) + 1 = j
        BY <1>1
    <2>3. j - 1 \in P
        <3> HIDE DEF P
        <3>1. \A n \in 0 .. Len(b) : n \in P
            BY <1>1, <2>1, UpTo
        <3> QED BY <2>2, <3>1
    <2> QED BY <2>2, <2>3
<1>5. Total(c) = Total(a) + Total(b)
    <2>1. Len(b) + 1 \in 1 .. Len(b) + 1 /\ Len(c) + 1 = Len(a) + (Len(b) + 1)
        BY <1>1
    <2> QED BY <1>4, <2>1 DEF Total
<1> QED BY <1>1, <1>3, <1>4, <1>5 DEF c

LEMMA LensOne ==
    ASSUME NEW x \in Nat, x > 0
    PROVE  <<x>> \in Lens /\ Total(<<x>>) = x /\ Len(<<x>>) = 1
<1>1. <<x>> \in Lens /\ Len(<<x>>) = 1 /\ <<x>>[1] = x
    BY DEF Lens
<1>2. StartOf(<<x>>, 1 + 1) = StartOf(<<x>>, 1) + <<x>>[1] /\ StartOf(<<x>>, 1) = 0
    <2> DEFINE s == <<x>>
    <2>1. s \in Lens /\ 1 \in 1 .. Len(s)
        BY <1>1
    <2> HIDE DEF s
    <2>2. StartOf(s, 1 + 1) = StartOf(s, 1) + s[1] /\ StartOf(s, 1) = 0
        BY <2>1, StartIs
    <2> QED BY <2>2 DEF s
<1> QED BY <1>1, <1>2 DEF Total

LEMMA LensCut ==
    ASSUME NEW lens \in Lens, NEW i \in 1 .. Len(lens) + 1
    PROVE  /\ SubSeq(lens, 1, i - 1) \in Lens /\ Len(SubSeq(lens, 1, i - 1)) = i - 1
           /\ Total(SubSeq(lens, 1, i - 1)) = StartOf(lens, i)
           /\ StartOf(lens, i) <= Total(lens)
<1> DEFINE a == SubSeq(lens, 1, i - 1)
           b == SubSeq(lens, i, Len(lens))
           T == Nat \ {0}
<1>1. lens \in Seq(T) /\ Len(lens) \in Nat /\ \A k \in 1 .. Len(lens) : lens[k] \in T
    BY LensAre, ElementOfSeq DEF Lens
<1>2. /\ a \in Seq(T) /\ Len(a) = i - 1 /\ \A k \in 1 .. i - 1 : a[k] = lens[k]
    <2> DEFINE n == i - 1
    <2>1. n \in Int /\ (1 <= n \/ n = 0) /\ \A k \in 1 .. n : lens[k] \in T
        BY <1>1
    <2> HIDE DEF n, T
    <2>2. /\ SubSeq(lens, 1, n) \in Seq(T) /\ Len(SubSeq(lens, 1, n)) = n
          /\ \A k \in 1 .. n - 1 + 1 : SubSeq(lens, 1, n)[k] = lens[1 + k - 1]
        BY <2>1, SubSeqProperties
    <2> QED BY <2>1, <2>2 DEF n
<1>3. /\ b \in Seq(T) /\ Len(b) = Len(lens) - i + 1
      /\ \A k \in 1 .. Len(lens) - i + 1 : b[k] = lens[i + k - 1]
    <2>1. i \in Int /\ Len(lens) \in Int /\ (i <= Len(lens) \/ Len(lens) - i + 1 = 0)
        BY <1>1
    <2>2. \A k \in i .. Len(lens) : lens[k] \in T
        BY <1>1, <2>1
    <2> HIDE DEF T
    <2>3. /\ SubSeq(lens, i, Len(lens)) \in Seq(T)
          /\ Len(SubSeq(lens, i, Len(lens))) = IF i <= Len(lens) THEN Len(lens) - i + 1 ELSE 0
          /\ \A k \in 1 .. Len(lens) - i + 1 : SubSeq(lens, i, Len(lens))[k] = lens[i + k - 1]
        BY <2>1, <2>2, SubSeqProperties
    <2> QED BY <2>1, <2>3
<1> HIDE DEF a, b
<1>4. lens = a \o b
    <2> HIDE DEF T
    <2>1. a \o b \in Seq(T) /\ Len(a \o b) = Len(lens)
        BY <1>1, <1>2, <1>3
    <2>2. ASSUME NEW k \in 1 .. Len(lens) PROVE (a \o b)[k] = lens[k]
        <3>1. (a \o b)[k] = IF k <= Len(a) THEN a[k] ELSE b[k - Len(a)]
            BY <1>1, <1>2, <1>3, <2>1
        <3>2. CASE k <= i - 1
            BY <1>2, <3>1, <3>2
        <3>3. CASE ~(k <= i - 1)
            <4>1. k - Len(a) \in 1 .. Len(lens) - i + 1 /\ i + (k - Len(a)) - 1 = k
                BY <1>1, <1>2, <3>3
            <4> QED BY <1>2, <1>3, <3>1, <3>3, <4>1
        <3> QED BY <3>2, <3>3
    <2> QED BY <1>1, <2>1, <2>2, SeqEqual
<1>5. a \in Lens /\ b \in Lens
    BY <1>2, <1>3 DEF Lens
<1>6. Total(lens) = Total(a) + Total(b) /\ StartOf(lens, i) = StartOf(a, i)
    <2>1. Len(a) + 1 = i /\ i \in 1 .. Len(a) + 1
        BY <1>1, <1>2
    <2> QED BY <1>4, <1>5, <2>1, StartOfConcat
<1>7. Total(a) = StartOf(a, i)
    <2>1. Len(a) + 1 = i
        BY <1>1, <1>2
    <2> QED BY <2>1 DEF Total
<1>8. Total(a) \in Nat /\ Total(b) \in Nat
    BY <1>5, TotalIs
<1> QED BY <1>2, <1>5, <1>6, <1>7, <1>8 DEF a

LEMMA OneMoreIs ==
    ASSUME NEW lens \in Lens, NEW new, new \/ lens # <<>>
    PROVE  /\ OneMore(lens, new) \in Lens /\ OneMore(lens, new) # <<>>
           /\ Total(OneMore(lens, new)) = Total(lens) + 1
<1>1. CASE new
    <2>1. OneMore(lens, new) = Append(lens, 1) /\ Append(lens, 1) = lens \o <<1>>
        BY <1>1 DEF OneMore, Lens
    <2>2. <<1>> \in Lens /\ Total(<<1>>) = 1 /\ Len(<<1>>) = 1
        BY LensOne
    <2> DEFINE s == <<1>>
    <2> HIDE DEF s
    <2>3. lens \o s \in Lens /\ Len(lens \o s) = Len(lens) + Len(s) /\ Total(lens \o s) = Total(lens) + Total(s)
        BY <2>2, StartOfConcat DEF s
    <2>4. lens \o s # <<>>
        <3>1. Len(lens \o s) # 0
            BY <2>2, <2>3, LensAre DEF s
        <3> QED BY <3>1
    <2> QED BY <2>1, <2>2, <2>3, <2>4 DEF s
<1>2. CASE ~new
    <2> DEFINE n == Len(lens)
               s == [lens EXCEPT ![n] = @ + 1]
    <2>1. n \in Nat /\ n # 0 /\ n \in 1 .. n
        BY <1>2, LensAre, EmptySeq DEF Lens
    <2>2. OneMore(lens, new) = s
        BY <1>2 DEF OneMore
    <2>3. \A k \in 1 .. n : lens[k] \in Nat /\ lens[k] > 0
        BY LensAre
    <2>4. DOMAIN lens = 1 .. n /\ lens \in [1 .. n -> Nat \ {0}]
        BY DEF Lens
    <2> HIDE DEF n
    <2>5. s \in [1 .. n -> Nat \ {0}] /\ s[n] = lens[n] + 1 /\ \A k \in 1 .. n - 1 : s[k] = lens[k]
        BY <2>1, <2>3, <2>4
    <2>6. s \in Lens /\ Len(s) = n
        <3> HIDE DEF s
        <3>1. s \in Seq(Nat \ {0}) /\ Len(s) = n
            BY <2>1, <2>5
        <3> QED BY <3>1 DEF Lens
    <2>7. n \in 1 .. Len(lens) + 1 /\ n <= Len(s) + 1 /\ n \in 1 .. Len(lens) /\ n \in 1 .. Len(s)
        BY <2>1, <2>6 DEF n
    <2>8. SameTo(lens, s, n)
        BY <2>5 DEF SameTo
    <2> HIDE DEF s
    <2>9. StartOf(lens, n) = StartOf(s, n)
        BY <2>6, <2>7, <2>8, StartAgrees
    <2>10. /\ StartOf(lens, n + 1) = StartOf(lens, n) + lens[n]
           /\ StartOf(s, n + 1) = StartOf(s, n) + s[n]
        BY <2>6, <2>7, StartIs
    <2>11. Total(lens) = StartOf(lens, n + 1) /\ Total(s) = StartOf(s, n + 1)
        BY <2>6 DEF Total, n
    <2>12. StartOf(lens, n) \in Nat /\ lens[n] \in Nat
        BY <2>3, <2>7, StartIs
    <2>13. s # <<>>
        BY <2>1, <2>6
    <2> QED BY <2>2, <2>5, <2>6, <2>9, <2>10, <2>11, <2>12, <2>13
<1> QED BY <1>1, <1>2

NewAt(cut, from, k) == k - 1 \in cut \cup {from}
IsLensOf(cut, from, n, f) ==
    f = [k \in from .. n |-> IF k = from THEN <<>> ELSE OneMore(f[k - 1], NewAt(cut, from, k))]

LEMMA LensOfDef ==
    \A cut, from, n : LensOf(cut, from, n) =
        IF from >= n THEN <<>> ELSE (CHOOSE f : IsLensOf(cut, from, n, f))[n]
BY Zenon DEF LensOf, IsLensOf, NewAt

LEMMA LensOfExists ==
    ASSUME NEW cut, NEW from \in Nat, NEW n \in Nat, from <= n
    PROVE  \E f : IsLensOf(cut, from, n, f)
<1> DEFINE N == n - from
           next == [k \in 1 .. N |-> [s \in Lens |->
                       IF s = <<>> /\ ~NewAt(cut, from, from + k) THEN <<>>
                       ELSE OneMore(s, NewAt(cut, from, from + k))]]
<1>1. N \in Nat
    OBVIOUS
<1>2. next \in [1 .. N -> [Lens -> Lens]]
    <2>1. ASSUME NEW k \in 1 .. N, NEW s \in Lens
          PROVE  (IF s = <<>> /\ ~NewAt(cut, from, from + k) THEN <<>>
                  ELSE OneMore(s, NewAt(cut, from, from + k))) \in Lens
        BY OneMoreIs, TotalIs
    <2> QED BY <2>1
<1>3. \E g \in [0 .. N -> Lens] : IsIteration(N, <<>>, next, g)
    <2>1. <<>> \in Lens
        BY TotalIs
    <2> HIDE DEF N, next
    <2> QED BY <1>1, <1>2, <2>1, Iteration
<1>4. PICK g \in [0 .. N -> Lens] : IsIteration(N, <<>>, next, g)
    BY <1>3
<1> DEFINE f == [k \in from .. n |-> g[k - from]]
<1>5. ASSUME NEW k \in from .. n PROVE k # from => g[k - from] # <<>>
    <2> DEFINE P == {m \in 0 .. N : m # 0 => g[m] # <<>>}
    <2>1. ASSUME NEW m \in 0 .. N, \A i \in 0 .. m - 1 : i \in P PROVE m \in P
        <3>1. CASE m = 0
            BY <3>1
        <3>2. CASE m = 1
            <4>0. 1 \in 1 .. N /\ 1 - 1 = 0
                BY <3>2
            <4>1. g[1] = next[1][g[0]] /\ g[0] = <<>> /\ <<>> \in Lens
                <5> HIDE DEF next, N
                <5>1. g[1] = next[1][g[1 - 1]] /\ g[0] = <<>>
                    BY <1>4, <4>0 DEF IsIteration
                <5> QED BY <4>0, <5>1, TotalIs
            <4>2. NewAt(cut, from, from + 1)
                BY DEF NewAt
            <4>3. g[1] = OneMore(<<>>, NewAt(cut, from, from + 1))
                BY <3>2, <4>1, <4>2
            <4>4. OneMore(<<>>, NewAt(cut, from, from + 1)) # <<>>
                BY <4>1, <4>2, OneMoreIs
            <4> QED BY <3>2, <4>3, <4>4
        <3>3. CASE m # 0 /\ m # 1
            <4>1. m \in 1 .. N /\ m - 1 \in 0 .. m - 1 /\ m - 1 # 0 /\ m - 1 \in 0 .. N
                BY <3>3
            <4>2. g[m - 1] # <<>> /\ g[m - 1] \in Lens
                BY <1>4, <2>1, <4>1
            <4>3. g[m] = next[m][g[m - 1]]
                BY <1>4, <4>1 DEF IsIteration
            <4>4. g[m] = OneMore(g[m - 1], NewAt(cut, from, from + m))
                BY <4>1, <4>2, <4>3
            <4>5. OneMore(g[m - 1], NewAt(cut, from, from + m)) # <<>>
                BY <4>2, OneMoreIs
            <4> QED BY <4>4, <4>5
        <3> QED BY <3>1, <3>2, <3>3
    <2>2. k - from \in 0 .. N /\ (k # from => k - from # 0)
        OBVIOUS
    <2>3. k - from \in P
        <3> HIDE DEF P, N
        <3>1. \A m \in 0 .. N : m \in P
            BY <1>1, <2>1, UpTo
        <3> QED BY <2>2, <3>1
    <2> QED BY <2>2, <2>3
<1>6. ASSUME NEW k \in from .. n
      PROVE  f[k] = IF k = from THEN <<>> ELSE OneMore(f[k - 1], NewAt(cut, from, k))
    <2>1. f[k] = g[k - from]
        OBVIOUS
    <2>2. CASE k = from
        <3>1. k - from = 0
            BY <2>2
        <3> QED BY <1>4, <2>1, <2>2, <3>1 DEF IsIteration
    <2>3. CASE k # from
        <3> DEFINE m == k - from
        <3>1. /\ m \in 1 .. N /\ m - 1 \in 0 .. N /\ k - 1 \in from .. n
              /\ (k - 1) - from = m - 1 /\ from + m = k
            BY <2>3
        <3>2. f[k - 1] = g[m - 1] /\ g[m - 1] \in Lens
            BY <1>4, <3>1
        <3>3. g[m] = next[m][g[m - 1]]
            BY <1>4, <3>1 DEF IsIteration
        <3>4. NewAt(cut, from, k) \/ g[m - 1] # <<>>
            <4>1. CASE k - 1 = from
                BY <4>1 DEF NewAt
            <4>2. CASE k - 1 # from
                BY <1>5, <3>1, <4>2
            <4> QED BY <4>1, <4>2
        <3>5. next[m][g[m - 1]] = OneMore(g[m - 1], NewAt(cut, from, k))
            BY <3>1, <3>2, <3>4
        <3> QED BY <2>1, <2>3, <3>2, <3>3, <3>5
    <2> QED BY <2>2, <2>3
<1>7. f = [k \in from .. n |-> f[k]]
    OBVIOUS
<1>8. IsLensOf(cut, from, n, f)
    <2> HIDE DEF f
    <2> QED BY <1>6, <1>7 DEF IsLensOf
<1> QED BY <1>8

\* A cut gives segments that cover the reading.
LEMMA LensOfIs ==
    ASSUME NEW cut, NEW from \in Nat, NEW n \in Nat, from <= n
    PROVE  /\ LensOf(cut, from, n) \in Lens /\ Total(LensOf(cut, from, n)) = n - from
<1>1. CASE from >= n
    <2>1. n - from = 0
        BY <1>1
    <2>2. LensOf(cut, from, n) = <<>>
        BY <1>1, LensOfDef
    <2> QED BY <2>1, <2>2, TotalIs
<1>2. CASE ~(from >= n)
    <2> DEFINE g == CHOOSE f : IsLensOf(cut, from, n, f)
               N == n - from
               P == {m \in 0 .. N : /\ g[from + m] \in Lens /\ Total(g[from + m]) = m
                                    /\ m # 0 => g[from + m] # <<>>}
    <2>1. IsLensOf(cut, from, n, g)
        BY LensOfExists, Zenon
    <2>2. LensOf(cut, from, n) = g[n]
        BY <1>2, LensOfDef
    <2> HIDE DEF g
    <2>3. \A k \in from .. n : g[k] = IF k = from THEN <<>> ELSE OneMore(g[k - 1], NewAt(cut, from, k))
        BY <2>1 DEF IsLensOf
    <2>4. ASSUME NEW m \in 0 .. N, \A i \in 0 .. m - 1 : i \in P PROVE m \in P
        <3>1. CASE m = 0
            <4>1. g[from + m] = <<>>
                BY <2>3, <3>1
            <4> QED BY <3>1, <4>1, TotalIs
        <3>2. CASE m # 0
            <4>1. /\ from + m \in from .. n /\ from + m # from /\ (from + m) - 1 = from + (m - 1)
                  /\ m - 1 \in 0 .. m - 1
                BY <3>2
            <4>2. /\ g[from + (m - 1)] \in Lens /\ Total(g[from + (m - 1)]) = m - 1
                  /\ m - 1 # 0 => g[from + (m - 1)] # <<>>
                BY <2>4, <4>1
            <4>3. g[from + m] = OneMore(g[from + (m - 1)], NewAt(cut, from, from + m))
                BY <2>3, <4>1
            <4>4. NewAt(cut, from, from + m) \/ g[from + (m - 1)] # <<>>
                <5>1. CASE m - 1 = 0
                    BY <4>1, <5>1 DEF NewAt
                <5>2. CASE m - 1 # 0
                    BY <4>2, <5>2
                <5> QED BY <5>1, <5>2
            <4> DEFINE s == g[from + (m - 1)]
                       t == OneMore(s, NewAt(cut, from, from + m))
            <4>5. t \in Lens /\ t # <<>> /\ Total(t) = Total(s) + 1
                <5>1. s \in Lens /\ (NewAt(cut, from, from + m) \/ s # <<>>)
                    BY <4>2, <4>4
                <5> HIDE DEF s
                <5> QED BY <5>1, OneMoreIs
            <4> QED BY <4>2, <4>3, <4>5
        <3> QED BY <3>1, <3>2
    <2>5. N \in P
        <3>1. N \in Nat
            BY <1>2
        <3> HIDE DEF P, N
        <3>2. \A m \in 0 .. N : m \in P
            BY <2>4, <3>1, UpTo
        <3> QED BY <3>1, <3>2
    <2>6. from + N = n
        OBVIOUS
    <2> QED BY <2>2, <2>5, <2>6
<1> QED BY <1>1, <1>2

(* Segments: of a reading, with a form for each. *)
SegsType == [gen : Int, focus : Nat, lens : Lens, as : Seq(Manners)]
SegsFit(sg, units) ==
    /\ sg \in SegsType /\ Len(sg.as) = Len(sg.lens) /\ sg.focus \in 1 .. Len(sg.lens)
    /\ Total(sg.lens) = Len(units)

\* The first a + b of a sequence are its first a and the b that follow.
LEMMA TwoParts ==
    ASSUME NEW S, NEW s \in Seq(S), NEW a \in Nat, NEW b \in Nat, a + b <= Len(s)
    PROVE  /\ SubSeq(s, 1, a) \in Seq(S) /\ SubSeq(s, a + 1, a + b) \in Seq(S)
           /\ SubSeq(s, 1, a + b) = SubSeq(s, 1, a) \o SubSeq(s, a + 1, a + b)
<1> DEFINE p == SubSeq(s, 1, a)
           q == SubSeq(s, a + 1, a + b)
           r == SubSeq(s, 1, a + b)
<1>1. Len(s) \in Nat /\ \A n \in 1 .. Len(s) : s[n] \in S
    BY ElementOfSeq
<1>2. p \in Seq(S) /\ Len(p) = a /\ \A n \in 1 .. a : p[n] = s[n]
    <2>1. \A n \in 1 .. a : s[n] \in S
        BY <1>1
    <2>2. /\ p \in Seq(S) /\ Len(p) = IF 1 <= a THEN a - 1 + 1 ELSE 0
          /\ \A n \in 1 .. a - 1 + 1 : p[n] = s[1 + n - 1]
        BY <2>1, SubSeqProperties
    <2> QED BY <2>2
<1>3. q \in Seq(S) /\ Len(q) = b /\ \A n \in 1 .. b : q[n] = s[a + n]
    <2>1. a + 1 \in Int /\ a + b \in Int /\ \A n \in a + 1 .. a + b : s[n] \in S
        BY <1>1
    <2>2. /\ q \in Seq(S) /\ Len(q) = IF a + 1 <= a + b THEN (a + b) - (a + 1) + 1 ELSE 0
          /\ \A n \in 1 .. (a + b) - (a + 1) + 1 : q[n] = s[(a + 1) + n - 1]
        BY <2>1, SubSeqProperties
    <2> QED BY <2>2
<1>4. r \in Seq(S) /\ Len(r) = a + b /\ \A n \in 1 .. a + b : r[n] = s[n]
    <2>1. a + b \in Int /\ \A n \in 1 .. a + b : s[n] \in S
        BY <1>1
    <2>2. /\ r \in Seq(S) /\ Len(r) = IF 1 <= a + b THEN (a + b) - 1 + 1 ELSE 0
          /\ \A n \in 1 .. (a + b) - 1 + 1 : r[n] = s[1 + n - 1]
        BY <2>1, SubSeqProperties
    <2> QED BY <2>2
<1> HIDE DEF p, q, r
<1>5. p \o q \in Seq(S) /\ Len(p \o q) = a + b
    <2>1. p \in Seq(S) /\ q \in Seq(S) /\ Len(p) = a /\ Len(q) = b
        BY <1>2, <1>3
    <2> QED BY <2>1, ConcatProperties
<1>6. ASSUME NEW n \in 1 .. a + b PROVE r[n] = (p \o q)[n]
    <2>1. (p \o q)[n] = IF n <= a THEN p[n] ELSE q[n - a]
        <3>1. p \in Seq(S) /\ q \in Seq(S) /\ Len(p) = a /\ Len(q) = b
            BY <1>2, <1>3
        <3> QED BY <3>1, ConcatProperties
    <2>2. CASE n <= a
        BY <1>2, <1>4, <2>1, <2>2
    <2>3. CASE ~(n <= a)
        <3>1. n - a \in 1 .. b /\ a + (n - a) = n
            BY <2>3
        <3> QED BY <1>3, <1>4, <2>1, <2>3, <3>1
    <2> QED BY <2>2, <2>3
<1>7. r = p \o q
    BY <1>4, <1>5, <1>6, SeqEqual
<1> QED BY <1>2, <1>3, <1>7 DEF p, q, r

LEMMA OneMoreOf ==
    ASSUME NEW S, NEW s \in Seq(S), NEW n \in 1 .. Len(s)
    PROVE  /\ SubSeq(s, 1, n - 1) \in Seq(S) /\ s[n] \in S
           /\ SubSeq(s, 1, n) = SubSeq(s, 1, n - 1) \o <<s[n]>>
<1>1. Len(s) \in Nat /\ s[n] \in S
    BY ElementOfSeq
<1> DEFINE m == n - 1
<1>2. m \in Nat /\ m + 1 = n /\ m + 1 <= Len(s) /\ 1 \in Nat
    BY <1>1
<1> HIDE DEF m
<1>3. /\ SubSeq(s, 1, m) \in Seq(S)
      /\ SubSeq(s, 1, m + 1) = SubSeq(s, 1, m) \o SubSeq(s, m + 1, m + 1)
    BY <1>2, TwoParts
<1>4. SubSeq(s, m + 1, m + 1) = <<s[n]>>
    <2> DEFINE q == SubSeq(s, n, n)
    <2>1. n \in Int /\ \A k \in n .. n : s[k] \in S
        BY <1>1
    <2>2. /\ q \in Seq(S) /\ Len(q) = IF n <= n THEN n - n + 1 ELSE 0
          /\ \A k \in 1 .. n - n + 1 : q[k] = s[n + k - 1]
        BY <2>1, SubSeqProperties
    <2>3. Len(q) = 1 /\ q[1] = s[n]
        <3>1. 1 \in 1 .. n - n + 1 /\ n + 1 - 1 = n /\ n <= n /\ n - n + 1 = 1
            OBVIOUS
        <3> HIDE DEF q
        <3>2. q[1] = s[n + 1 - 1]
            BY <2>2, <3>1
        <3>3. Len(q) = 1
            BY <2>2, <3>1
        <3> QED BY <3>1, <3>2, <3>3
    <2> HIDE DEF q
    <2>4. <<s[n]>> \in Seq(S) /\ Len(<<s[n]>>) = 1 /\ <<s[n]>>[1] = s[n]
        BY <1>1
    <2>5. q = <<s[n]>>
        BY <2>2, <2>3, <2>4, SeqEqual
    <2> QED BY <1>2, <2>5 DEF q
<1> QED BY <1>1, <1>2, <1>3, <1>4 DEF m

\* The sentence the segments spell has the keys of the reading.
TextAt(units, sg, i) ==
    [keys |-> Flat(SubSeq(units, SegStart(sg, i) + 1, SegStart(sg, i) + sg.lens[i])),
     as |-> sg.as[i]]

\* The text of a segment has the keys of the units it covers.
LEMMA TextAtIs ==
    ASSUME NEW units \in Units, NEW sg, SegsFit(sg, units), NEW i \in 1 .. Len(sg.lens)
    PROVE  /\ TextAt(units, sg, i) \in [keys : Words, as : Manners]
           /\ StartOf(sg.lens, i) \in Nat /\ StartOf(sg.lens, i + 1) \in Nat
           /\ StartOf(sg.lens, i + 1) <= Len(units)
           /\ Flat(SubSeq(units, 1, StartOf(sg.lens, i + 1)))
                = Flat(SubSeq(units, 1, StartOf(sg.lens, i))) \o TextAt(units, sg, i).keys
<1> DEFINE a == StartOf(sg.lens, i)
           b == sg.lens[i]
<1>1. sg.lens \in Lens /\ Len(sg.lens) \in Nat /\ sg.as[i] \in Manners
    BY LensAre, ElementOfSeq DEF SegsFit, SegsType
<1>2. a \in Nat /\ b \in Nat /\ StartOf(sg.lens, i + 1) = a + b
    BY <1>1, StartIs, LensAre
<1>3. a + b <= Len(units)
    <2>1. i + 1 \in 1 .. Len(sg.lens) + 1
        BY <1>1
    <2>2. StartOf(sg.lens, i + 1) <= Total(sg.lens)
        BY <1>1, <2>1, LensCut
    <2> QED BY <1>2, <2>2 DEF SegsFit
<1>4. SegStart(sg, i) = a
    BY DEF SegStart
<1> HIDE DEF a, b
<1>5. /\ SubSeq(units, 1, a) \in Units /\ SubSeq(units, a + 1, a + b) \in Units
      /\ SubSeq(units, 1, a + b) = SubSeq(units, 1, a) \o SubSeq(units, a + 1, a + b)
    BY <1>2, <1>3, TwoParts DEF Units
<1>6. /\ Flat(SubSeq(units, 1, a + b)) = Flat(SubSeq(units, 1, a)) \o Flat(SubSeq(units, a + 1, a + b))
      /\ Flat(SubSeq(units, a + 1, a + b)) \in Words
    <2> DEFINE p == SubSeq(units, 1, a)
               q == SubSeq(units, a + 1, a + b)
               r == SubSeq(units, 1, a + b)
    <2>1. p \in Units /\ q \in Units /\ r = p \o q
        BY <1>5
    <2> HIDE DEF p, q, r
    <2>2. Flat(p \o q) = Flat(p) \o Flat(q) /\ Flat(q) \in Words
        BY <2>1, UnitsJoin, UnitsAreWords
    <2>3. Flat(r) = Flat(p) \o Flat(q) /\ Flat(q) \in Words
        BY <2>1, <2>2
    <2> QED BY <2>3 DEF p, q, r
<1>7. TextAt(units, sg, i) = [keys |-> Flat(SubSeq(units, a + 1, a + b)), as |-> sg.as[i]]
    BY <1>4 DEF TextAt, b
<1>8. TextAt(units, sg, i) \in [keys : Words, as : Manners]
    BY <1>1, <1>6, <1>7
<1>9. TextAt(units, sg, i).keys = Flat(SubSeq(units, a + 1, a + b))
    BY <1>7
<1>10. StartOf(sg.lens, i) = a
    BY DEF a
<1> QED BY <1>2, <1>3, <1>6, <1>8, <1>9, <1>10

\* The text of a sentence has the keys of the whole reading, whatever forms are chosen.
LEMMA SegTextIs ==
    ASSUME NEW st \in Engine, NEW sg, SegsFit(sg, st.reading)
    PROVE  SegText(st, sg) \in Pieces(Printable) /\ KeysOf(SegText(st, sg)) = Flat(st.reading)
<1> DEFINE units == st.reading
           N == Len(sg.lens)
           p == [i \in 1 .. N |-> TextAt(units, sg, i)]
           k == KeysOfEach(p)
           P == {n \in 0 .. N : Flat(SubSeq(k, 1, n)) = Flat(SubSeq(units, 1, StartOf(sg.lens, n + 1)))}
<1>1. units \in Units /\ sg.lens \in Lens /\ N \in Nat /\ DOMAIN sg.lens = 1 .. N
    <2>1. units \in Units
        BY EngineIs, ReadingsAre
    <2>2. sg.lens \in Lens
        BY DEF SegsFit, SegsType
    <2>3. N \in Nat /\ DOMAIN sg.lens = 1 .. N
        BY <2>2 DEF Lens
    <2> QED BY <2>1, <2>2, <2>3
<1>2. SegText(st, sg) = p
    BY <1>1 DEF SegText, TextAt
<1>3. p \in Pieces(Printable) /\ Len(p) = N
    <2>1. \A i \in 1 .. N : TextAt(units, sg, i) \in [keys : Words, as : Manners]
        <3> HIDE DEF units
        <3> QED BY <1>1, TextAtIs DEF units
    <2>2. p \in [1 .. N -> [keys : Words, as : Manners]]
        BY <2>1
    <2> DEFINE R == [keys : Words, as : Manners]
    <2> HIDE DEF p, R, N
    <2>3. p \in [1 .. N -> R]
        BY <2>2 DEF R
    <2>4. N \in Nat
        BY <1>1
    <2>5. p \in Seq(R) /\ Len(p) = N
        BY <2>3, <2>4
    <2> QED BY <2>5 DEF Pieces, Words, R
<1>4. /\ k \in Seq(Words) /\ Len(k) = N /\ KeysOf(p) = Flat(k)
      /\ \A i \in 1 .. N : k[i] = TextAt(units, sg, i).keys
    <2>1. \A i \in 1 .. N : p[i] = TextAt(units, sg, i)
        OBVIOUS
    <2>2. DOMAIN p = 1 .. N
        OBVIOUS
    <2> HIDE DEF p
    <2>3. k \in Seq(Seq(Printable)) /\ Len(k) = Len(p) /\ KeysOf(p) = Flat(k)
        BY <1>3, KeysOfType
    <2>4. \A i \in 1 .. N : k[i] = p[i].keys
        BY <2>2 DEF KeysOfEach
    <2> QED BY <1>3, <2>1, <2>3, <2>4 DEF Words
<1> HIDE DEF k, p, units
<1>5. ASSUME NEW n \in 0 .. N, \A m \in 0 .. n - 1 : m \in P PROVE n \in P
    <2>1. CASE n = 0
        <3>1. SubSeq(k, 1, 0) = <<>> /\ SubSeq(units, 1, 0) = <<>>
            BY SubSeqEmpty
        <3>2. StartOf(sg.lens, 0 + 1) = 0
            BY <1>1, StartIs
        <3> QED BY <2>1, <3>1, <3>2
    <2>2. CASE n # 0
        <3>1. n \in 1 .. N /\ n - 1 \in 0 .. n - 1 /\ (n - 1) + 1 = n
            BY <1>1, <2>2
        <3>2. Flat(SubSeq(k, 1, n - 1)) = Flat(SubSeq(units, 1, StartOf(sg.lens, n)))
            BY <1>5, <3>1
        <3>3. SubSeq(k, 1, n) = SubSeq(k, 1, n - 1) \o <<k[n]>> /\ SubSeq(k, 1, n - 1) \in Seq(Words)
              /\ k[n] \in Words
            BY <1>4, <3>1, OneMoreOf
        <3>4. Flat(SubSeq(k, 1, n)) = Flat(SubSeq(k, 1, n - 1)) \o k[n]
            <4>1. <<k[n]>> \in Seq(Words)
                BY <3>3
            <4>2. Flat(SubSeq(k, 1, n - 1) \o <<k[n]>>) = Flat(SubSeq(k, 1, n - 1)) \o Flat(<<k[n]>>)
                BY <3>3, <4>1, FlatConcat DEF Words
            <4> QED BY <3>3, <4>2, FlatOne
        <3>5. SegsFit(sg, units)
            BY DEF units
        <3>6. Flat(SubSeq(units, 1, StartOf(sg.lens, n + 1)))
                = Flat(SubSeq(units, 1, StartOf(sg.lens, n))) \o TextAt(units, sg, n).keys
            BY <1>1, <3>1, <3>5, TextAtIs
        <3> QED BY <1>4, <3>1, <3>2, <3>4, <3>6
    <2> QED BY <2>1, <2>2
<1>6. N \in P
    <2> HIDE DEF P, N
    <2>1. \A n \in 0 .. N : n \in P
        BY <1>1, <1>5, UpTo
    <2> QED BY <1>1, <2>1
<1>7. StartOf(sg.lens, N + 1) = Len(units)
    BY DEF SegsFit, Total, units
<1>8. SubSeq(k, 1, N) = k /\ SubSeq(units, 1, Len(units)) = units
    BY <1>1, <1>4 DEF Units
<1>9. KeysOf(p) = Flat(units)
    BY <1>4, <1>6, <1>7, <1>8
<1> QED BY <1>2, <1>3, <1>9 DEF units

\* Segments made by a cut fit the reading (SeqKb_Segments).
LEMMA SegsAre ==
    ASSUME NEW sg, NEW units, SegsFit(sg, units)
    PROVE  /\ sg \in SegsType /\ sg.gen \in Int /\ sg.lens \in Lens /\ sg.as \in Seq(Manners)
           /\ Len(sg.lens) \in Nat /\ Len(sg.lens) > 0 /\ DOMAIN sg.lens = 1 .. Len(sg.lens)
           /\ sg.focus \in 1 .. Len(sg.lens) /\ Len(sg.as) = Len(sg.lens)
           /\ sg = [gen |-> sg.gen, focus |-> sg.focus, lens |-> sg.lens, as |-> sg.as]
<1>1. sg \in SegsType /\ sg.gen \in Int /\ sg.lens \in Lens /\ sg.as \in Seq(Manners)
    BY DEF SegsFit, SegsType
<1>2. Len(sg.lens) \in Nat /\ DOMAIN sg.lens = 1 .. Len(sg.lens)
    BY <1>1 DEF Lens
<1>3. sg.focus \in 1 .. Len(sg.lens) /\ Len(sg.as) = Len(sg.lens)
    BY DEF SegsFit
<1>4. sg = [gen |-> sg.gen, focus |-> sg.focus, lens |-> sg.lens, as |-> sg.as]
    BY <1>1 DEF SegsType
<1>5. Len(sg.lens) > 0
    BY <1>2, <1>3
<1> QED BY <1>1, <1>2, <1>3, <1>4, <1>5

LEMMA SegsOf ==
    ASSUME NEW g \in Int, NEW lens \in Lens, NEW as \in Seq(Manners), Len(as) = Len(lens),
           NEW f \in 1 .. Len(lens), NEW units, Total(lens) = Len(units)
    PROVE  SegsFit([gen |-> g, focus |-> f, lens |-> lens, as |-> as], units)
<1>1. f \in Nat
    BY LensAre
<1> QED BY <1>1 DEF SegsFit, SegsType

LEMMA FormsIs ==
    ASSUME NEW n \in Nat
    PROVE  Forms(n) \in Seq(Manners) /\ Len(Forms(n)) = n
<1>1. "word" \in Manners
    BY DEF Manners
<1>2. Forms(n) \in [1 .. n -> Manners]
    BY <1>1 DEF Forms
<1> HIDE DEF Forms
<1> QED BY <1>2

\* Moving the focus keeps the segments.
LEMMA MoveIs ==
    ASSUME NEW units, NEW sg, SegsFit(sg, units), NEW delta \in Int
    PROVE  SegsFit(Move(sg, delta), units) /\ Move(sg, delta).gen = sg.gen
<1>1. CASE sg.focus + delta \in DOMAIN sg.lens
    <2> DEFINE f == sg.focus + delta
    <2>1. Move(sg, delta) = [sg EXCEPT !.focus = f]
        BY <1>1 DEF Move
    <2>2. f \in 1 .. Len(sg.lens)
        BY <1>1, SegsAre
    <2> HIDE DEF f
    <2>3. [sg EXCEPT !.focus = f] = [gen |-> sg.gen, focus |-> f, lens |-> sg.lens, as |-> sg.as]
        <3>1. sg \in SegsType
            BY SegsAre
        <3> QED BY <3>1 DEF SegsType
    <2>4. SegsFit([gen |-> sg.gen, focus |-> f, lens |-> sg.lens, as |-> sg.as], units)
        <3>1. sg.gen \in Int /\ sg.lens \in Lens /\ sg.as \in Seq(Manners) /\ Len(sg.as) = Len(sg.lens)
            BY SegsAre
        <3>2. Total(sg.lens) = Len(units)
            BY DEF SegsFit
        <3> QED BY <2>2, <3>1, <3>2, SegsOf
    <2> QED BY <2>1, <2>3, <2>4
<1>2. CASE ~(sg.focus + delta \in DOMAIN sg.lens)
    BY <1>2 DEF Move
<1> QED BY <1>1, <1>2

LEMMA FunIsSeq ==
    ASSUME NEW S, NEW m \in Nat, NEW f \in [1 .. m -> S]
    PROVE  f \in Seq(S) /\ Len(f) = m
OBVIOUS

LEMMA WithForm ==
    ASSUME NEW units, NEW sg, SegsFit(sg, units), NEW a \in Manners
    PROVE  LET s == [sg EXCEPT !.as[sg.focus] = a] IN SegsFit(s, units) /\ s.gen = sg.gen
<1> DEFINE f == sg.focus
           m == Len(sg.as)
           as == [sg.as EXCEPT ![f] = a]
           s == [sg EXCEPT !.as[f] = a]
<1>1. sg \in SegsType /\ m \in Nat /\ f \in 1 .. m /\ sg.as \in [1 .. m -> Manners]
    BY SegsAre
<1>2. as \in [1 .. m -> Manners]
    BY <1>1
<1>3. as \in Seq(Manners) /\ Len(as) = m
    <2> HIDE DEF as, m
    <2> QED BY <1>1, <1>2, FunIsSeq
<1>4. s = [gen |-> sg.gen, focus |-> sg.focus, lens |-> sg.lens, as |-> as]
    BY <1>1, SMTT(20) DEF SegsType
<1> HIDE DEF as
<1>5. SegsFit([gen |-> sg.gen, focus |-> sg.focus, lens |-> sg.lens, as |-> as], units)
    <2>1. /\ sg.gen \in Int /\ sg.lens \in Lens /\ Len(as) = Len(sg.lens)
          /\ sg.focus \in 1 .. Len(sg.lens)
        BY <1>3, SegsAre
    <2>2. Total(sg.lens) = Len(units)
        BY DEF SegsFit
    <2> QED BY <1>3, <2>1, <2>2, SegsOf
<1> QED BY <1>4, <1>5

IsItem(cands, n) == n \in 1 .. Len(cands.items) /\ cands.items \in Seq(Items1)

\* A form chosen for the segment in focus is one of its list.
LEMMA SegChooseIs ==
    ASSUME NEW st, NEW units, NEW sg, SegsFit(sg, units), NEW cands, NEW n,
           IsItem(cands, n)
    PROVE  SegsFit(SegChoose(st, sg, cands, n), units) /\ SegChoose(st, sg, cands, n).gen = sg.gen
<1>1. CASE sg.gen = st.gen /\ cands.gen = st.gen
    <2> DEFINE a == cands.items[n].as
    <2>1. a \in Manners
        <3>1. cands.items[n] \in Items1
            BY ElementOfSeq DEF IsItem
        <3> QED BY <3>1 DEF Items1
    <2>2. SegChoose(st, sg, cands, n) = [sg EXCEPT !.as[sg.focus] = a]
        BY <1>1 DEF SegChoose
    <2> HIDE DEF a
    <2> QED BY <2>1, <2>2, WithForm
<1>2. CASE ~(sg.gen = st.gen /\ cands.gen = st.gen)
    BY <1>2 DEF SegChoose
<1> QED BY <1>1, <1>2

IsSynced(l, st, s) ==
    /\ Good(l, s) /\ s.reading = st.reading /\ s.pending = st.pending /\ s.gen = st.gen
    /\ s.open = st.open

\* The sentence shown is what the engine would commit (SyncConversion).
LEMMA SyncIs ==
    ASSUME NEW l, NEW st, Good(l, st), NEW sg, sg.gen = st.gen => SegsFit(sg, st.reading)
    PROVE  /\ IsSynced(l, st, Sync(st, sg))
           /\ sg.gen = st.gen => /\ Sync(st, sg).conv = SegText(st, sg)
                                 /\ Sync(st, sg).convGen = st.gen
<1>1. CASE sg.gen = st.gen
    <2> DEFINE p == SegText(st, sg)
               s == [st EXCEPT !.conv = p, !.convGen = st.gen]
    <2>1. Sync(st, sg) = s
        BY <1>1 DEF Sync
    <2>2. p \in Pieces(Printable) /\ KeysOf(p) = Flat(st.reading)
        BY <1>1, SegTextIs DEF Good
    <2> HIDE DEF p
    <2>3. /\ s \in Engine /\ s.reading = st.reading /\ s.pending = st.pending /\ s.gen = st.gen
          /\ s.open = st.open /\ s.conv = p /\ s.convGen = st.gen
        BY <2>2 DEF Good, Engine
    <2> HIDE DEF s
    <2>4. Good(l, s)
        <3>1. s.convGen <= s.gen
            BY <2>3, GenIs
        <3> QED BY <2>2, <2>3, <3>1 DEF Good
    <2> QED BY <2>1, <2>3, <2>4 DEF IsSynced, p
<1>2. CASE sg.gen # st.gen
    <2> DEFINE s == [st EXCEPT !.conv = <<>>]
    <2>1. Sync(st, sg) = s
        BY <1>2 DEF Sync
    <2>2. /\ s \in Engine /\ s.reading = st.reading /\ s.pending = st.pending /\ s.gen = st.gen
          /\ s.open = st.open /\ s.conv = <<>> /\ s.convGen = st.convGen
        BY PiecesJoin DEF Good, Engine
    <2> HIDE DEF s
    <2>3. Good(l, s)
        BY <2>2 DEF Good
    <2> QED BY <1>2, <2>1, <2>2, <2>3 DEF IsSynced
<1> QED BY <1>1, <1>2

\* The list under a segment is of that segment.
LEMMA SegCandsIs ==
    ASSUME NEW st \in Engine, NEW sg, SegsFit(sg, st.reading)
    PROVE  LET c == SegCands(st, sg) IN c \in Lists /\ c.gen = st.gen /\ c.items # <<>>
<1> DEFINE a == sg.as[sg.focus]
           K == {"word", "kana"} \ {a}
           more == Only(K, <<"word", "kana">>)
           forms == <<a>> \o more
           item(i) == [keys |-> TextAt(st.reading, sg, sg.focus).keys, as |-> forms[i],
                       used |-> sg.lens[sg.focus]]
           N == Len(forms)
           items == [i \in 1 .. N |-> item(i)]
<1>1. a \in Manners /\ <<a>> \in Seq(Manners) /\ Len(<<a>>) = 1
    BY SegsAre, ElementOfSeq
<1>2. more \in Seq(Manners)
    <2>1. {"word", "kana"} \subseteq Manners
        BY DEF Manners
    <2>2. <<"word", "kana">> \in Seq({"word", "kana"})
        OBVIOUS
    <2> HIDE DEF K
    <2>3. more \in Seq({"word", "kana"} \cap K)
        BY <2>2, OnlyType
    <2> QED BY <2>1, <2>3, SeqSub
<1> HIDE DEF more, a
<1>3. forms \in Seq(Manners) /\ N \in Nat /\ N > 0 /\ \A i \in 1 .. N : forms[i] \in Manners
    <2>1. forms \in Seq(Manners) /\ Len(forms) = 1 + Len(more)
        BY <1>1, <1>2
    <2>2. \A i \in 1 .. N : forms[i] \in Manners
        <3> HIDE DEF forms
        <3> QED BY <2>1, ElementOfSeq
    <2> QED BY <1>2, <2>1, <2>2
<1>4. /\ TextAt(st.reading, sg, sg.focus).keys \in Words /\ sg.lens[sg.focus] \in Nat
    <2>1. st.reading \in Units /\ sg.focus \in 1 .. Len(sg.lens) /\ sg.lens \in Lens
        BY EngineIs, ReadingsAre, SegsAre
    <2>2. TextAt(st.reading, sg, sg.focus) \in [keys : Words, as : Manners]
        BY <2>1, TextAtIs
    <2> QED BY <2>1, <2>2, LensAre
<1>5. DOMAIN forms = 1 .. N
    BY <1>3
<1>6. SegCands(st, sg) = [gen |-> st.gen, items |-> items]
    BY <1>5 DEF SegCands, TextAt, forms, more, K, a
<1> HIDE DEF forms, N
<1>7. items \in [1 .. N -> Items1]
    <2>1. \A i \in 1 .. N : item(i) \in Items1
        BY <1>3, <1>4 DEF Items1
    <2> QED BY <2>1
<1> HIDE DEF items
<1>8. items \in Seq(Items1) /\ Len(items) = N
    BY <1>3, <1>7, FunIsSeq
<1>9. items # <<>>
    BY <1>3, <1>8
<1>10. st.gen \in Int
    BY EngineIs
<1> QED BY <1>6, <1>8, <1>9, <1>10 DEF Lists

LEMMA WithLens ==
    ASSUME NEW sg \in SegsType, NEW lens, NEW as
    PROVE  [sg EXCEPT !.lens = lens, !.as = as]
             = [gen |-> sg.gen, focus |-> sg.focus, lens |-> lens, as |-> as]
<1> DEFINE a == [sg EXCEPT !.lens = lens, !.as = as]
           b == [gen |-> sg.gen, focus |-> sg.focus, lens |-> lens, as |-> as]
           D == {"gen", "focus", "lens", "as"}
<1>1. a = [k \in D |-> a[k]] /\ b = [k \in D |-> b[k]]
    BY DEF SegsType
<1>2. a.gen = b.gen /\ a.focus = b.focus /\ a.lens = b.lens /\ a.as = b.as
    BY DEF SegsType
<1>3. \A k \in D : a[k] = b[k]
    <2> HIDE DEF a, b
    <2> QED BY <1>2
<1> HIDE DEF a, b
<1>4. a = b
    BY <1>1, <1>3
<1> QED BY <1>4 DEF a, b

\* A segment made longer or shorter: they still cover the reading (SeqKb_Resize).
LEMMA ResizeIs ==
    ASSUME NEW st \in Engine, NEW sg, SegsFit(sg, st.reading), NEW delta \in Int, NEW cut
    PROVE  /\ SegsFit(Resize(st, sg, delta, cut), st.reading)
           /\ Resize(st, sg, delta, cut).gen = sg.gen
<1> DEFINE units == st.reading
           n == Len(units)
           f == sg.focus
           start == StartOf(sg.lens, f)
           len == sg.lens[f] + delta
           end == start + len
           a == SubSeq(sg.lens, 1, f - 1)
           b == LensOf(cut, end, n)
           lens == Append(a, len) \o b
           as == SubSeq(sg.as, 1, f - 1) \o Forms(Len(lens) - f + 1)
<1>1. CASE sg.gen # st.gen \/ len < 1 \/ end > n
    <2>1. Resize(st, sg, delta, cut) = sg
        BY <1>1 DEF Resize, SegStart
    <2> QED BY <2>1
<1>2. CASE ~(sg.gen # st.gen \/ len < 1 \/ end > n)
    <2>1. n \in Nat /\ sg.lens \in Lens /\ f \in 1 .. Len(sg.lens) /\ f \in Nat /\ f > 0
        BY EngineIs, ReadingsAre, SegsAre
    <2>2. start \in Nat /\ len \in Nat /\ len > 0 /\ end \in Nat /\ end <= n
        <3>1. start \in Nat /\ sg.lens[f] \in Nat
            BY <2>1, StartIs, LensAre
        <3> QED BY <1>2, <2>1, <3>1
    <2>3. a \in Lens /\ Len(a) = f - 1 /\ Total(a) = start
        <3>1. f \in 1 .. Len(sg.lens) + 1
            BY <2>1
        <3> QED BY <2>1, <3>1, LensCut
    <2>4. b \in Lens /\ Total(b) = n - end
        <3> HIDE DEF n, end
        <3> QED BY <2>1, <2>2, LensOfIs
    <2>5. Resize(st, sg, delta, cut) = [sg EXCEPT !.lens = lens, !.as = as]
        BY <1>2 DEF Resize, SegStart
    <2> HIDE DEF a, b, start
    <2>6. /\ Append(a, len) \in Lens /\ Len(Append(a, len)) = f
          /\ Total(Append(a, len)) = end
        <3> DEFINE x == len
        <3>1. Append(a, x) = a \o <<x>>
            BY <2>2, <2>3 DEF Lens
        <3>2. <<x>> \in Lens /\ Total(<<x>>) = x /\ Len(<<x>>) = 1
            <4> HIDE DEF x
            <4> QED BY <2>2, LensOne DEF x
        <3> DEFINE o == <<x>>
        <3> HIDE DEF o, x
        <3>3. a \o o \in Lens /\ Len(a \o o) = Len(a) + Len(o) /\ Total(a \o o) = Total(a) + Total(o)
            BY <2>3, <3>2, StartOfConcat DEF o
        <3>4. o \in Lens /\ Total(o) = x /\ Len(o) = 1 /\ Append(a, x) = a \o o
            BY <3>1, <3>2 DEF o
        <3>5. /\ Append(a, x) \in Lens /\ Len(Append(a, x)) = (f - 1) + 1
              /\ Total(Append(a, x)) = start + x
            BY <2>3, <3>3, <3>4
        <3> QED BY <2>1, <3>5 DEF x
    <2> DEFINE c == Append(a, len)
    <2> HIDE DEF c, len, end
    <2>7. lens \in Lens /\ Len(lens) = f + Len(b) /\ Total(lens) = n /\ Len(b) \in Nat
        <3>1. /\ c \o b \in Lens /\ Len(c \o b) = Len(c) + Len(b)
              /\ Total(c \o b) = Total(c) + Total(b)
            BY <2>4, <2>6, StartOfConcat DEF c
        <3>2. Len(b) \in Nat
            BY <2>4, LensAre
        <3> QED BY <2>1, <2>2, <2>4, <2>6, <3>1, <3>2 DEF c
    <2> HIDE DEF lens, n
    <2>8. as \in Seq(Manners) /\ Len(as) = Len(lens)
        <3> DEFINE k == Len(lens) - f + 1
                   p == SubSeq(sg.as, 1, f - 1)
        <3>1. k \in Nat /\ (f - 1) + k = Len(lens)
            BY <2>1, <2>7
        <3>2. Forms(k) \in Seq(Manners) /\ Len(Forms(k)) = k
            <4> HIDE DEF k
            <4> QED BY <3>1, FormsIs
        <3>3. p \in Seq(Manners) /\ Len(p) = f - 1
            <4>1. sg.as \in Seq(Manners) /\ f <= Len(sg.as)
                BY <2>1, SegsAre
            <4>2. f - 1 \in Int /\ \A i \in 1 .. f - 1 : sg.as[i] \in Manners
                BY <2>1, <4>1, ElementOfSeq
            <4>3. /\ p \in Seq(Manners)
                  /\ Len(p) = IF 1 <= f - 1 THEN (f - 1) - 1 + 1 ELSE 0
                BY <4>2, SubSeqProperties
            <4> QED BY <2>1, <4>3
        <3> HIDE DEF k, p
        <3>4. p \o Forms(k) \in Seq(Manners) /\ Len(p \o Forms(k)) = (f - 1) + k
            BY <3>2, <3>3, ConcatProperties
        <3> QED BY <3>1, <3>4 DEF k, p
    <2> HIDE DEF as
    <2>9. [sg EXCEPT !.lens = lens, !.as = as] = [gen |-> sg.gen, focus |-> f, lens |-> lens, as |-> as]
        <3>1. sg \in SegsType
            BY SegsAre
        <3> QED BY <3>1, WithLens
    <2> HIDE DEF f
    <2>10. SegsFit([gen |-> sg.gen, focus |-> f, lens |-> lens, as |-> as], units)
        <3>1. sg.gen \in Int /\ f \in 1 .. Len(lens) /\ Total(lens) = Len(units)
            BY <2>1, <2>7, SegsAre DEF n
        <3> QED BY <2>7, <2>8, <3>1, SegsOf
    <2> QED BY <2>5, <2>9, <2>10
<1> QED BY <1>1, <1>2

IsSegmented(l, st, s) ==
    /\ s.ok \in BOOLEAN /\ s.spilled \in BOOLEAN
    /\ s.ok =>
           /\ Good(l, s.st) /\ Newer(st, s.st) /\ s.st.open = TRUE
           /\ s.st.pending = <<>> /\ s.st.reading # <<>>
           /\ s.segs.gen = s.st.gen /\ SegsFit(s.segs, s.st.reading)

OkToCut(l, lens) == l.ja /\ l.conn /\ Len(lens) >= 2
CutOf(r, lens) == [gen |-> r.st.gen, focus |-> 1, lens |-> lens, as |-> Forms(Len(lens))]

LEMMA CutAtOk ==
    ASSUME NEW l, NEW st, NEW r, NEW lens, OkToCut(l, lens)
    PROVE  LET c == CutAt(l, st, r, lens)
           IN  /\ c.ok /\ c.ok \in BOOLEAN /\ c.spilled \in BOOLEAN
               /\ c.st = [r.st EXCEPT !.open = TRUE] /\ c.segs = CutOf(r, lens)
BY DEF CutAt, Segmented, OkToCut, CutOf

LEMMA CutAtNot ==
    ASSUME NEW l, NEW st, NEW r, NEW lens, ~OkToCut(l, lens)
    PROVE  LET c == CutAt(l, st, r, lens)
           IN  ~c.ok /\ c.ok \in BOOLEAN /\ c.spilled \in BOOLEAN
BY DEF CutAt, Segmented, OkToCut, CutOf

\* The reading cut into segments, or left as it is.
LEMMA SegmentsIs ==
    ASSUME NEW l, Layout(l), NEW st, Good(l, st), NEW cut
    PROVE  IsSegmented(l, st, Segments(l, st, cut))
<1> DEFINE r == Settle(l, st)
           n == Len(r.st.reading)
           lens == LensOf(cut, 0, n)
           c == CutAt(l, st, r, lens)
           sg == CutOf(r, lens)
<1>1. IsSettled(l, st, r)
    BY SettleIs
<1>2. Segments(l, st, cut) = c
    BY DEF Segments, SettledAt
<1> HIDE DEF r
<1>3. n \in Nat /\ r.st \in Engine /\ Good(l, r.st) /\ r.st.reading \in Units
    <2>1. Good(l, r.st)
        BY <1>1 DEF IsSettled, Step
    <2>2. r.st \in Engine
        BY <2>1 DEF Good
    <2> QED BY <2>1, <2>2, EngineIs, ReadingsAre
<1>4. lens \in Lens /\ Total(lens) = n
    <2> HIDE DEF n
    <2>1. 0 \in Nat /\ 0 <= n /\ n - 0 = n
        BY <1>3
    <2> QED BY <1>3, <2>1, LensOfIs
<1> HIDE DEF lens
<1>5. CASE ~OkToCut(l, lens)
    BY <1>2, <1>5, CutAtNot DEF IsSegmented
<1>6. CASE OkToCut(l, lens)
    <2>0. Len(lens) >= 2
        BY <1>6 DEF OkToCut
    <2>1. /\ c.ok /\ c.ok \in BOOLEAN /\ c.spilled \in BOOLEAN
          /\ c.st = [r.st EXCEPT !.open = TRUE] /\ c.segs = sg
        BY <1>6, CutAtOk
    <2>2. SegsFit(sg, r.st.reading) /\ sg.gen = r.st.gen
        <3>1. Len(lens) \in Nat /\ 1 \in 1 .. Len(lens)
            BY <1>4, <2>0, LensAre
        <3>2. Forms(Len(lens)) \in Seq(Manners) /\ Len(Forms(Len(lens))) = Len(lens)
            BY <3>1, FormsIs
        <3>3. r.st.gen \in Int
            BY <1>3, EngineIs
        <3> QED BY <1>4, <3>1, <3>2, <3>3, SegsOf DEF CutOf
    <2> HIDE DEF sg, c
    <2>3. /\ Good(l, c.st) /\ c.st.gen = r.st.gen /\ c.st.reading = r.st.reading
          /\ c.st.pending = r.st.pending /\ c.st.open = TRUE
        BY <1>3, <2>1, OpenedList
    <2>4. r.st.reading # <<>>
        <3>1. Len(lens) # 0 /\ Len(lens) \in Nat
            BY <1>4, <2>0, LensAre
        <3>2. lens # <<>>
            BY <3>1
        <3>3. n # 0
            <4>1. n >= lens[1]
                <5>1. 1 + 1 \in 1 .. Len(lens) + 1 /\ 1 \in 1 .. Len(lens)
                    BY <2>0, <3>1
                <5>2. StartOf(lens, 1 + 1) <= Total(lens)
                    BY <1>4, <5>1, LensCut
                <5>3. StartOf(lens, 1 + 1) = StartOf(lens, 1) + lens[1] /\ StartOf(lens, 1) = 0
                    BY <1>4, <5>1, StartIs
                <5>4. lens[1] \in Nat
                    BY <1>4, <5>1, LensAre
                <5> QED BY <1>4, <5>2, <5>3, <5>4
            <4>2. lens[1] \in Nat /\ lens[1] > 0
                BY <1>4, <2>0, <3>1, LensAre
            <4> QED BY <1>3, <4>1, <4>2
        <3> QED BY <3>3
    <2>5. Newer(st, c.st)
        BY <1>1, <2>3 DEF IsSettled, Step, Newer
    <2>6. c.st.pending = <<>>
        BY <1>1, <2>3 DEF IsSettled
    <2> QED BY <1>2, <2>1, <2>2, <2>3, <2>4, <2>5, <2>6 DEF IsSegmented
<1> QED BY <1>5, <1>6
==============================================================================

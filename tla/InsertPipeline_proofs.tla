------------------------ MODULE InsertPipeline_proofs ------------------------
(***************************************************************************)
(* Theorems about InsertPipeline for any number of tasks, beliefs and      *)
(* observations: scenarios become stale only by a late store, every signal *)
(* is about the observations before it, the credit is the recent excess,   *)
(* and a query returns the best beliefs its budget allows.                 *)
(*                                                                         *)
(* The lemmas about QuadOps ask for a quad whose index is current.  Here   *)
(* it need not be, so they are applied to the quad without its index: no   *)
(* operator reads the index to decide anything else.                       *)
(***************************************************************************)
EXTENDS InsertPipeline, QuadOps_proofs, FunctionTheorems

-----------------------------------------------------------------------------
(* Sums *)

Summands(n) == [1 .. n -> Int]
SumEquation(m, n, w) == m = [i \in 0 .. n |-> IF i = 0 THEN 0 ELSE m[i - 1] + w[i]]
Sums(m, n, w) ==
    /\ m \in [0 .. n -> Int] /\ m[0] = 0
    /\ \A i \in 1 .. n : m[i] = m[i - 1] + w[i]

\* The partial sums of n integers exist and are what the recursion says.
LEMMA RunningSum ==
    ASSUME NEW n \in Nat, NEW w \in Summands(n)
    PROVE  /\ \E m : SumEquation(m, n, w)
           /\ \A m : SumEquation(m, n, w) => Sums(m, n, w)
<1> USE DEF Summands, SumEquation, Sums
<1> DEFINE step == [x \in (1 .. n) \X Int |-> x[2] + w[x[1]]]
<1>1. step \in Steps(n, Int) /\ 0 \in Int
  <2>1. \A x \in (1 .. n) \X Int : x[2] + w[x[1]] \in Int
      OBVIOUS
  <2> QED
      BY <2>1 DEF Steps
<1>2. \A i \in 1 .. n, x \in Int : step[<<i, x>>] = x + w[i]
    OBVIOUS
<1> HIDE DEF step
<1>3. PICK f : Iterates(f, n, Int, 0, step)
    BY <1>1, SegmentRecursion
<1>4. SumEquation(f, n, w)
  <2> USE <1>3 DEF Iterates
  <2>1. \A i \in 0 .. n : f[i] = IF i = 0 THEN 0 ELSE f[i - 1] + w[i]
    <3> SUFFICES ASSUME NEW i \in 0 .. n PROVE f[i] = IF i = 0 THEN 0 ELSE f[i - 1] + w[i]
        OBVIOUS
    <3>1. CASE i = 0
        BY <1>3, <3>1
    <3>2. CASE i # 0
      <4>1. i \in 1 .. n /\ i - 1 \in 0 .. n
          BY <3>2
      <4>2. f[i - 1] \in Int
          BY <4>1
      <4> QED
          BY <1>2, <1>3, <3>2, <4>1, <4>2
    <3> QED
        BY <3>1, <3>2
  <2> QED
      BY <2>1
<1>5. ASSUME NEW m, SumEquation(m, n, w)
      PROVE  Sums(m, n, w)
  <2> DEFINE T == {i \in 0 .. n : m[i] \in Int}
  <2>1. m[0] = 0 /\ \A i \in 1 .. n : m[i] = m[i - 1] + w[i]
    <3>1. \A i \in 0 .. n : m[i] = IF i = 0 THEN 0 ELSE m[i - 1] + w[i]
        BY <1>5
    <3>2. 0 \in 0 .. n /\ \A i \in 1 .. n : i \in 0 .. n /\ i # 0
        OBVIOUS
    <3> QED
        BY <3>1, <3>2
  <2>2. 0 \in T
      BY <2>1
  <2>3. ASSUME NEW i \in 0 .. n - 1, i \in T PROVE i + 1 \in T
    <3>1. i + 1 \in 1 .. n /\ (i + 1) - 1 = i
        OBVIOUS
    <3>2. m[i + 1] = m[i] + w[i + 1] /\ w[i + 1] \in Int /\ m[i] \in Int
        BY <2>1, <2>3, <3>1
    <3> QED
        BY <3>1, <3>2
  <2> HIDE DEF T
  <2>4. 0 .. n \subseteq T
      BY <2>2, <2>3, SegmentInduction
  <2>5. \A i \in 0 .. n : m[i] \in Int
      BY <2>4 DEF T
  <2>6. m = [i \in 0 .. n |-> m[i]]
      BY <1>5
  <2> QED
      BY <2>1, <2>5, <2>6
<1> HIDE DEF SumEquation, Sums
<1> QED
    BY <1>4, <1>5

\* SumOf adds its numbers one by one.
LEMMA SumOfRun ==
    ASSUME NEW s \in Seq(Int)
    PROVE  \E m : Sums(m, Len(s), s) /\ SumOf(s) = m[Len(s)]
<1> DEFINE n == Len(s)
           sum == CHOOSE m : SumEquation(m, n, s)
<1>1. n \in Nat /\ s \in Summands(n)
    BY DEF Summands
<1>2. SumOf(s) =
        LET m == CHOOSE m : m = [i \in 0 .. Len(s) |-> IF i = 0 THEN 0 ELSE m[i - 1] + s[i]]
        IN  m[Len(s)]
    BY Zenon DEF SumOf
<1>3. SumOf(s) = sum[n]
    BY <1>2, Zenon DEF SumEquation
<1>4. SumEquation(sum, n, s)
  <2> HIDE DEF n
  <2> QED
      BY <1>1, RunningSum, Zenon
<1> HIDE DEF sum
<1>5. Sums(sum, n, s)
    BY <1>1, <1>4, RunningSum, Zenon
<1> QED
    BY <1>3, <1>5

LEMMA SumOfEmpty == SumOf(<<>>) = 0
<1>1. <<>> \in Seq(Int) /\ Len(<<>>) = 0
    OBVIOUS
<1> QED
    BY <1>1, SumOfRun DEF Sums

LEMMA SumOfType ==
    ASSUME NEW s \in Seq(Int)
    PROVE  SumOf(s) \in Int
<1>1. Len(s) \in 0 .. Len(s)
    OBVIOUS
<1> QED
    BY <1>1, SumOfRun DEF Sums

\* Two runs over the same numbers have the same sums.
LEMMA SumsAgree ==
    ASSUME NEW n \in Nat, NEW k \in 0 .. n, NEW v \in Summands(k), NEW w \in Summands(n),
           \A i \in 1 .. k : v[i] = w[i],
           NEW f, Sums(f, k, v), NEW g, Sums(g, n, w)
    PROVE  f[k] = g[k]
<1> USE DEF Sums
<1> DEFINE T == {i \in 0 .. k : f[i] = g[i]}
<1>1. 0 \in T
    OBVIOUS
<1>2. ASSUME NEW i \in 0 .. k - 1, i \in T PROVE i + 1 \in T
  <2>1. i + 1 \in 1 .. k /\ i + 1 \in 1 .. n /\ (i + 1) - 1 = i
      OBVIOUS
  <2>2. f[i + 1] = f[i] + v[i + 1] /\ g[i + 1] = g[i] + w[i + 1]
      BY <2>1
  <2> QED
      BY <1>2, <2>1, <2>2
<1>3. k \in T
  <2> HIDE DEF T
  <2>1. k \in Nat
      OBVIOUS
  <2>2. 0 .. k \subseteq T
      BY <1>1, <1>2, <2>1, SegmentInduction
  <2> QED
      BY <2>1, <2>2
<1> QED
    BY <1>3

LEMMA SumOfAppend ==
    ASSUME NEW s \in Seq(Int), NEW x \in Int
    PROVE  SumOf(Append(s, x)) = SumOf(s) + x
<1> DEFINE t == Append(s, x)
           k == Len(s)
           n == Len(t)
<1>1. /\ t \in Seq(Int) /\ k \in Nat /\ n = k + 1 /\ t[n] = x
      /\ \A i \in 1 .. k : s[i] = t[i]
    OBVIOUS
<1>2. s \in Summands(k) /\ t \in Summands(n)
  <2>1. s \in [1 .. Len(s) -> Int] /\ t \in [1 .. Len(t) -> Int]
    <3>1. \A r \in Seq(Int) : r \in [1 .. Len(r) -> Int]
        OBVIOUS
    <3> QED
        BY <1>1, <3>1
  <2> QED
      BY <2>1 DEF Summands
<1> HIDE DEF t, k, n
<1>3. PICK f : Sums(f, k, s) /\ SumOf(s) = f[k]
    BY SumOfRun DEF k
<1>4. PICK g : Sums(g, n, t) /\ SumOf(t) = g[n]
    BY <1>1, SumOfRun DEF n
<1>5. f[k] = g[k]
  <2>1. n \in Nat /\ k \in 0 .. n
      BY <1>1
  <2>2. \A i \in 1 .. k : s[i] = t[i]
      BY <1>1, Zenon
  <2>3. s \in Summands(k) /\ t \in Summands(n) /\ Sums(f, k, s) /\ Sums(g, n, t)
      BY <1>2, <1>3, <1>4, Zenon
  <2> QED
      BY <2>1, <2>2, <2>3, SumsAgree
<1>6. g[n] = g[n - 1] + t[n] /\ n - 1 = k
    BY <1>1, <1>4 DEF Sums
<1> QED
    BY <1>1, <1>3, <1>4, <1>5, <1>6 DEF t

LEMMA SumOfNaturals ==
    ASSUME NEW s \in Seq(Nat)
    PROVE  SumOf(s) \in Nat
<1> DEFINE n == Len(s)
<1>1. n \in Nat /\ s \in Seq(Int) /\ \A i \in 1 .. n : s[i] \in Nat
  <2>1. Len(s) \in Nat /\ \A i \in 1 .. Len(s) : s[i] \in Nat
      OBVIOUS
  <2>2. s \in [1 .. Len(s) -> Int]
      OBVIOUS
  <2> QED
      BY <2>1, <2>2, FunctionIsSeq
<1>2. PICK f : Sums(f, n, s) /\ SumOf(s) = f[n]
    BY <1>1, SumOfRun
<1> DEFINE T == {i \in 0 .. n : f[i] \in Nat}
<1>3. 0 \in T
    BY <1>2 DEF Sums
<1>4. ASSUME NEW i \in 0 .. n - 1, i \in T PROVE i + 1 \in T
  <2>1. i + 1 \in 1 .. n /\ (i + 1) - 1 = i
      OBVIOUS
  <2>2. f[i + 1] = f[i] + s[i + 1] /\ s[i + 1] \in Nat /\ f[i] \in Nat
      BY <1>1, <1>2, <1>4, <2>1 DEF Sums
  <2> QED
      BY <2>1, <2>2
<1>5. n \in T
  <2> HIDE DEF T, n
  <2>1. 0 .. n \subseteq T
      BY <1>1, <1>3, <1>4, SegmentInduction
  <2> QED
      BY <1>1, <2>1
<1> QED
    BY <1>2, <1>5

-----------------------------------------------------------------------------
(* Ranking *)

Rankable(S, score) ==
    /\ IsFiniteSet(S) /\ S \subseteq BeliefId /\ score \in [S -> Int]
    /\ \A a, b \in S : Slot(a) = Slot(b) => a = b

Leaders(S, score, id) == {o \in S : Ahead(score, o, id)}

\* Being ahead is a strict total order: slots decide between equal scores.
LEMMA AheadOrder ==
    ASSUME NEW S, NEW score, Rankable(S, score), NEW a \in S, NEW b \in S, NEW c \in S
    PROVE  /\ ~Ahead(score, a, a)
           /\ Ahead(score, a, b) /\ Ahead(score, b, c) => Ahead(score, a, c)
           /\ a = b \/ Ahead(score, a, b) \/ Ahead(score, b, a)
<1>1. score[a] \in Int /\ score[b] \in Int /\ score[c] \in Int
    BY DEF Rankable
<1>2. Slot(a) \in Nat /\ Slot(b) \in Nat /\ Slot(c) \in Nat
    BY DEF Rankable, BeliefId, Slot
<1>3. Slot(a) = Slot(b) => a = b
    BY DEF Rankable
<1> HIDE DEF Rankable
<1> QED
    BY <1>1, <1>2, <1>3 DEF Ahead

\* Whoever is behind has more beliefs ahead of it.
LEMMA RankGrows ==
    ASSUME NEW S, NEW score, Rankable(S, score), NEW a \in S, NEW b \in S,
           Ahead(score, a, b)
    PROVE  Cardinality(Leaders(S, score, a)) < Cardinality(Leaders(S, score, b))
<1> DEFINE A == Leaders(S, score, a)
           B == Leaders(S, score, b)
<1>1. IsFiniteSet(B) /\ Cardinality(B) \in Nat
  <2>1. IsFiniteSet(S) /\ B \in SUBSET S
      BY DEF Rankable, Leaders
  <2> QED
      BY <2>1, FS_Subset, FS_CardinalityType
<1>2. A \subseteq B
  <2> SUFFICES ASSUME NEW o \in A PROVE o \in B
      OBVIOUS
  <2>1. o \in S /\ Ahead(score, o, a)
      BY DEF Leaders
  <2> QED
      BY <2>1, AheadOrder DEF Leaders
<1>3. a \in B /\ a \notin A
    BY AheadOrder DEF Leaders
<1> HIDE DEF A, B
<1>4. IsFiniteSet(A) /\ Cardinality(A) \in Nat /\ Cardinality(A) <= Cardinality(B)
      /\ (Cardinality(B) = Cardinality(A) => B = A)
    BY <1>1, <1>2, FS_Subset, FS_CardinalityType
<1> QED
    BY <1>1, <1>3, <1>4 DEF A, B

\* Every place from the first to the last is taken, by one belief.
LEMMA RankTaken ==
    ASSUME NEW S, NEW score, Rankable(S, score)
    PROVE  LET n == Cardinality(S) IN
           /\ n \in Nat
           /\ \A id \in S : Cardinality(Leaders(S, score, id)) \in 0 .. n - 1
           /\ \A i \in 1 .. n : \E id \in S : Cardinality(Leaders(S, score, id)) = i - 1
<1> DEFINE n == Cardinality(S)
           rank == [id \in S |-> Cardinality(Leaders(S, score, id))]
           T == 0 .. n - 1
<1>1. IsFiniteSet(S) /\ n \in Nat
    BY FS_CardinalityType DEF Rankable
<1>2. ASSUME NEW id \in S PROVE Cardinality(Leaders(S, score, id)) \in T
  <2>1. Leaders(S, score, id) \in SUBSET S /\ id \notin Leaders(S, score, id)
      BY AheadOrder DEF Leaders
  <2>2. Leaders(S, score, id) \in SUBSET (S \ {id})
      BY <2>1
  <2>3. IsFiniteSet(S \ {id}) /\ Cardinality(S \ {id}) = n - 1
      BY <1>1, FS_RemoveElement
  <2>4. /\ Cardinality(Leaders(S, score, id)) \in Nat
        /\ Cardinality(Leaders(S, score, id)) <= n - 1
    <3> HIDE DEF n
    <3> QED
        BY <2>2, <2>3, FS_Subset, FS_CardinalityType
  <2> QED
      BY <1>1, <2>4
<1>3. \A a, b \in S : rank[a] = rank[b] => a = b
  <2> SUFFICES ASSUME NEW a \in S, NEW b \in S, a # b PROVE rank[a] # rank[b]
      OBVIOUS
  <2>1. Ahead(score, a, b) \/ Ahead(score, b, a)
      BY AheadOrder
  <2>2. /\ Cardinality(Leaders(S, score, a)) \in Nat
        /\ Cardinality(Leaders(S, score, b)) \in Nat
      BY <1>2
  <2>3. \/ Cardinality(Leaders(S, score, a)) < Cardinality(Leaders(S, score, b))
        \/ Cardinality(Leaders(S, score, b)) < Cardinality(Leaders(S, score, a))
      BY <2>1, RankGrows
  <2> QED
      BY <2>2, <2>3
<1>4. rank \in [S -> T]
    BY <1>2
<1>5. IsFiniteSet(T) /\ Cardinality(T) = n
  <2> DEFINE z == n - 1
  <2>1. 0 \in Int /\ z \in Int /\ n \in Nat /\ z = n - 1
      BY <1>1
  <2>2. T = 0 .. z
      OBVIOUS
  <2> HIDE DEF T, n, z
  <2>3. IsFiniteSet(0 .. z) /\ Cardinality(0 .. z) = IF 0 > z THEN 0 ELSE z - 0 + 1
      BY <2>1, FS_Interval, Zenon
  <2> QED
      BY <2>1, <2>2, <2>3
<1> HIDE DEF rank, T, n
<1>6. rank \in Injection(S, T)
    BY <1>3, <1>4, Fun_IsInj
<1>7. rank \in Surjection(S, T)
    BY <1>5, <1>6, FS_Injection DEF n
<1>8. \A t \in T : \E id \in S : rank[id] = t
    BY <1>7, Fun_SurjectionProperties
<1>9. \A i \in 1 .. n : i - 1 \in T
    BY <1>1 DEF T
<1>10. \A id \in S : rank[id] = Cardinality(Leaders(S, score, id))
    BY DEF rank
<1>11. \A i \in 1 .. n : \E id \in S : Cardinality(Leaders(S, score, id)) = i - 1
    BY <1>8, <1>9, <1>10
<1> QED
    BY <1>1, <1>2, <1>11 DEF n, T

\* The ranking lists every belief once, each ahead of those after it.
LEMMA RankedOrder ==
    ASSUME NEW score, Rankable(DOMAIN score, score)
    PROVE  LET S == DOMAIN score
               n == Cardinality(S)
               R == Ranked(score)
           IN  /\ n \in Nat /\ R \in [1 .. n -> S] /\ Range(R) = S
               /\ \A i, j \in 1 .. n : i < j => Ahead(score, R[i], R[j])
               /\ \A i, j \in 1 .. n : R[i] = R[j] => i = j
<1> DEFINE S == DOMAIN score
           n == Cardinality(S)
           R == Ranked(score)
           P(id, i) == Cardinality(Leaders(S, score, id)) = i - 1
<1>1. /\ n \in Nat
      /\ \A id \in S : Cardinality(Leaders(S, score, id)) \in 0 .. n - 1
      /\ \A i \in 1 .. n : \E id \in S : P(id, i)
    BY RankTaken
<1>2. R = [i \in 1 .. n |-> CHOOSE id \in S : P(id, i)]
    BY Zenon DEF Ranked, Leaders
<1>3. ASSUME NEW i \in 1 .. n PROVE R[i] \in S /\ P(R[i], i)
  <2>1. R[i] = CHOOSE id \in S : P(id, i)
    <3> HIDE DEF P, R, n
    <3> QED
        BY <1>2
  <2>2. \E id \in S : P(id, i)
      BY <1>1
  <2> HIDE DEF P, R
  <2> QED
      BY <2>1, <2>2
<1>0. Rankable(S, score)
    OBVIOUS
<1> HIDE DEF R, n, S
<1>4. R \in [1 .. n -> S]
    BY <1>2, <1>3
<1>5. ASSUME NEW i \in 1 .. n, NEW j \in 1 .. n
      PROVE  /\ i < j => Ahead(score, R[i], R[j])
             /\ R[i] = R[j] => i = j
  <2>1. R[i] \in S /\ R[j] \in S /\ P(R[i], i) /\ P(R[j], j)
      BY <1>3
  <2>2. R[i] = R[j] => i = j
      BY <1>1, <2>1
  <2>3. Ahead(score, R[j], R[i]) => j - 1 < i - 1
    <3>1. Ahead(score, R[j], R[i]) =>
            Cardinality(Leaders(S, score, R[j])) < Cardinality(Leaders(S, score, R[i]))
        BY <1>0, <2>1, RankGrows
    <3> QED
        BY <2>1, <3>1
  <2>4. R[i] = R[j] \/ Ahead(score, R[i], R[j]) \/ Ahead(score, R[j], R[i])
      BY <1>0, <2>1, AheadOrder
  <2> QED
      BY <1>1, <2>2, <2>3, <2>4
<1>6. ASSUME NEW id \in S PROVE \E i \in 1 .. n : R[i] = id
  <2> DEFINE i == Cardinality(Leaders(S, score, id)) + 1
  <2>1. i \in 1 .. n /\ P(id, i)
    <3>1. Cardinality(Leaders(S, score, id)) \in 0 .. n - 1
        BY <1>1
    <3> QED
        BY <1>1, <3>1
  <2>2. R[i] \in S /\ P(R[i], i)
      BY <1>3, <2>1
  <2>3. Cardinality(Leaders(S, score, id)) = Cardinality(Leaders(S, score, R[i]))
        /\ Cardinality(Leaders(S, score, id)) \in Nat
      BY <1>1, <2>1, <2>2
  <2> HIDE DEF i
  <2>4. ~Ahead(score, id, R[i]) /\ ~Ahead(score, R[i], id)
    <3>1. Ahead(score, id, R[i]) =>
            Cardinality(Leaders(S, score, id)) < Cardinality(Leaders(S, score, R[i]))
        BY <1>0, <2>2, RankGrows
    <3>2. Ahead(score, R[i], id) =>
            Cardinality(Leaders(S, score, R[i])) < Cardinality(Leaders(S, score, id))
        BY <1>0, <2>2, RankGrows
    <3> QED
        BY <2>3, <3>1, <3>2
  <2>5. R[i] = id
      BY <1>0, <2>2, <2>4, AheadOrder
  <2> QED
      BY <2>1, <2>5
<1>7. Range(R) = S
    BY <1>3, <1>4, <1>6 DEF Range
<1> QED
    BY <1>1, <1>4, <1>5, <1>7 DEF R, n, S

-----------------------------------------------------------------------------
(* Quads whose index may not be current *)

Fields(r) ==
    [nodes |-> r.nodes, gens |-> r.gens, free |-> r.free, graphs |-> r.graphs,
     prospective |-> r.prospective, equivalent |-> r.equivalent, version |-> r.version]

\* No belief's scenarios become stale on the way from q to r.
NoneGoesStale(q, r) ==
    \A id \in DOMAIN r.prospective : Stale(r, id) => Stale(q, id)

\* Inserting a belief: no index entry is about its id as a live one before.
LEMMA InsertWellFormed ==
    ASSUME NEW q, WellFormed(q), NEW node \in Node
    PROVE  /\ WellFormed(Insert(q, node)) /\ NoneGoesStale(q, Insert(q, node))
           /\ NextId(q) \in BeliefId
<1> DEFINE b  == WithoutIndex(q)
           r  == Insert(q, node)
           id == NextId(q)
<1>1. QuadInv(b)
    BY DEF WellFormed
<1>2. NextId(b) = id /\ Live(b) = Live(q)
    BY DEF NextId, WithoutIndex, Live
<1>3. id \in BeliefId /\ id \notin Live(q)
    BY <1>1, <1>2, NextIdFresh
<1>4. QuadInv(WithoutIndex(r))
  <2>1. PICK k \in Key, v \in Value, c \in Conf, slow \in Int \cup {None} :
          node = [key |-> k, value |-> v, fast |-> c, slow |-> slow]
      BY DEF Node
  <2>2. c \in Int
      BY QuadAssumption DEF Conf
  <2>3. QuadInv(Insert(b, node))
    <3> HIDE DEF b
    <3> QED
        BY <1>1, <2>1, <2>2, InsertInv
  <2>4. WithoutIndex(r) = Insert(b, node)
      BY DEF WithoutIndex, Insert, NextId, Live
  <2> QED
      BY <2>3, <2>4
<1>5. r.prospective = q.prospective
      /\ r.nodes = [i \in Live(q) \cup {id} |->
                      IF i = id THEN [node EXCEPT !.fast = Clamp(@)] ELSE q.nodes[i]]
    BY DEF Insert
<1>6. WellFormed(r)
  <2>1. r = Fields(r)
      BY DEF Insert, Fields
  <2>2. \A i \in DOMAIN r.prospective : r.prospective[i].entries \in Seq(Topic \cup {None})
      BY <1>5 DEF WellFormed
  <2> QED
      BY <1>4, <2>1, <2>2 DEF WellFormed, Fields
<1>7. NoneGoesStale(q, r)
  <2>1. \A i \in Live(q) : i \in Live(r) /\ r.nodes[i] = q.nodes[i]
      BY <1>3, <1>5 DEF Live
  <2> HIDE DEF r
  <2> QED
      BY <1>5, <2>1 DEF NoneGoesStale, Stale
<1> QED
    BY <1>3, <1>6, <1>7

\* A revision's quad: the same, the belief expanded, premises removed, or both.
LEMMA ReviseCases ==
    ASSUME NEW q, NEW id, NEW v, NEW c, NEW out \in Revise(q, id, v, c)
    PROVE  LET cut == ContractionSet(q, id) IN
           \/ out.quad = q
           \/ id \in Live(q) /\ out.quad = Expand(q, id, v, c, q.nodes[id].slow)
           \/ \E order \in SetToSeqs(cut \cap Live(q)) :
                \/ out.quad = RemoveAll(q, order)
                \/ /\ id \in Live(q) \ cut
                   /\ out.quad = Expand(RemoveAll(q, order), id, v, c, None)
<1> DEFINE cut == ContractionSet(q, id)
<1>1. CASE id \notin Live(q) \/ ~Extensional(q, id, v)
  <2>1. out = Outcome(q, "BeliefNotFound", {}) \/ out = Outcome(q, "PostulateViolation", {})
      BY <1>1 DEF Revise
  <2> QED
      BY <2>1 DEF Outcome
<1>2. CASE id \in Live(q) /\ Extensional(q, id, v) /\ ~Contradicts(q, id, v)
  <2>1. out = Outcome(Expand(q, id, v, c, q.nodes[id].slow), "Expanded", {})
      BY <1>2 DEF Revise
  <2> QED
      BY <1>2, <2>1 DEF Outcome
<1>3. CASE id \in Live(q) /\ Extensional(q, id, v) /\ Contradicts(q, id, v)
  <2>1. PICK order \in SetToSeqs(cut \cap Live(q)) :
          out = IF id \in cut
                THEN Outcome(RemoveAll(q, order), "BeliefNotFound", cut)
                ELSE Outcome(Expand(RemoveAll(q, order), id, v, c, None), "Revised", cut)
    <3> HIDE DEF cut
    <3> QED
        BY <1>3 DEF Revise, cut
  <2>2. out.quad = IF id \in cut THEN RemoveAll(q, order)
                   ELSE Expand(RemoveAll(q, order), id, v, c, None)
      BY <2>1 DEF Outcome
  <2> QED
      BY <1>3, <2>2
<1> QED
    BY <1>1, <1>2, <1>3

\* Removing beliefs removes their scenarios.
LEMMA RemoveAllWellFormed ==
    ASSUME NEW q, WellFormed(q), NEW ids \in Seq(Live(q)),
           \A i, j \in DOMAIN ids : ids[i] = ids[j] => i = j
    PROVE  /\ WellFormed(RemoveAll(q, ids)) /\ NoneGoesStale(q, RemoveAll(q, ids))
           /\ Live(RemoveAll(q, ids)) = Live(q) \ Range(ids)
<1> DEFINE b == WithoutIndex(q)
           r == RemoveAll(q, ids)
<1>1. QuadInv(b) /\ Live(b) = Live(q)
    BY DEF WellFormed, WithoutIndex, Live
<1>2. QuadInv(RemoveAll(b, ids))
  <2> HIDE DEF b
  <2> QED
      BY <1>1, RemoveAllInv
<1>3. WithoutIndex(r) = RemoveAll(b, ids)
  <2>1. Invalidate([i \in {} |-> None], Range(ids)) = [i \in {} |-> None]
      BY DEF Invalidate, Restrict
  <2> QED
      BY <2>1 DEF WithoutIndex, RemoveAll, Live
<1>4. /\ r.nodes = [i \in Live(q) \ Range(ids) |-> q.nodes[i]]
      /\ r.prospective = [i \in DOMAIN q.prospective \ Range(ids) |-> q.prospective[i]]
    BY DEF RemoveAll, Invalidate, Restrict
<1>5. WellFormed(r)
  <2>1. r = Fields(r)
      BY DEF RemoveAll, Fields
  <2>2. \A i \in DOMAIN r.prospective : r.prospective[i].entries \in Seq(Topic \cup {None})
      BY <1>4 DEF WellFormed
  <2> QED
      BY <1>2, <1>3, <2>1, <2>2 DEF WellFormed, Fields
<1> HIDE DEF r
<1>6. NoneGoesStale(q, r) /\ Live(r) = Live(q) \ Range(ids)
    BY <1>4 DEF NoneGoesStale, Stale, Live
<1> QED
    BY <1>5, <1>6 DEF r

\* Expanding a belief removes its scenarios.
LEMMA ExpandWellFormed ==
    ASSUME NEW q, WellFormed(q), NEW id \in Live(q), NEW v \in Value, NEW c \in Int,
           NEW slow \in Int \cup {None}
    PROVE  /\ WellFormed(Expand(q, id, v, c, slow))
           /\ NoneGoesStale(q, Expand(q, id, v, c, slow))
<1> DEFINE b == WithoutIndex(q)
           r == Expand(q, id, v, c, slow)
<1>1. QuadInv(b) /\ Live(b) = Live(q)
    BY DEF WellFormed, WithoutIndex, Live
<1>2. QuadInv(Expand(b, id, v, c, slow))
  <2> HIDE DEF b
  <2> QED
      BY <1>1, ExpandInv
<1>3. WithoutIndex(r) = Expand(b, id, v, c, slow)
  <2>1. Invalidate([i \in {} |-> None], {id}) = [i \in {} |-> None]
      BY DEF Invalidate, Restrict
  <2> QED
      BY <2>1 DEF WithoutIndex, Expand, Live
<1>4. /\ r.nodes = [q.nodes EXCEPT ![id] = [key |-> q.nodes[id].key, value |-> v,
                                            fast |-> Clamp(c), slow |-> slow]]
      /\ r.prospective = [i \in DOMAIN q.prospective \ {id} |-> q.prospective[i]]
    BY DEF Expand, Invalidate, Restrict
<1>5. WellFormed(r)
  <2>1. r = Fields(r)
      BY DEF Expand, Fields
  <2>2. \A i \in DOMAIN r.prospective : r.prospective[i].entries \in Seq(Topic \cup {None})
      BY <1>4 DEF WellFormed
  <2> QED
      BY <1>2, <1>3, <2>1, <2>2 DEF WellFormed, Fields
<1>6. NoneGoesStale(q, r)
  <2>1. Live(r) = Live(q) /\ \A i \in Live(q) \ {id} : r.nodes[i] = q.nodes[i]
    <3> HIDE DEF r
    <3> QED
        BY <1>4 DEF Live
  <2> HIDE DEF r
  <2> QED
      BY <1>4, <2>1 DEF NoneGoesStale, Stale
<1> QED
    BY <1>5, <1>6

\* A revision leaves no stale scenarios behind, whatever it removes.
LEMMA ReviseWellFormed ==
    ASSUME NEW q, WellFormed(q), NEW id \in BeliefId, NEW v \in Value, NEW c \in Int,
           NEW out \in Revise(q, id, v, c)
    PROVE  WellFormed(out.quad) /\ NoneGoesStale(q, out.quad)
<1> DEFINE cut == ContractionSet(q, id)
<1>1. CASE out.quad = q
    BY <1>1 DEF NoneGoesStale
<1>2. CASE id \in Live(q) /\ out.quad = Expand(q, id, v, c, q.nodes[id].slow)
  <2>1. q.nodes[id].slow \in Int \cup {None}
      BY <1>2 DEF WellFormed, WithoutIndex, QuadInv, IsQuad, Live, Node
  <2> QED
      BY <1>2, <2>1, ExpandWellFormed
<1>3. ASSUME NEW order \in SetToSeqs(cut \cap Live(q))
      PROVE  /\ WellFormed(RemoveAll(q, order)) /\ NoneGoesStale(q, RemoveAll(q, order))
             /\ Live(RemoveAll(q, order)) = Live(q) \ cut
  <2> DEFINE gone == cut \cap Live(q)
  <2>1. IsFiniteSet(gone)
    <3>1. IsFiniteSet(Live(q))
        BY DEF WellFormed, WithoutIndex, QuadInv, Finite, Live
    <3> QED
        BY <3>1, FS_Subset
  <2>2. /\ order \in Seq(gone) /\ Range(order) = gone
        /\ \A i, j \in DOMAIN order : order[i] = order[j] => i = j
    <3> HIDE DEF gone
    <3> QED
        BY <1>3, <2>1, ListsOfASet, ListsAll DEF gone
  <2>3. order \in Seq(Live(q))
    <3>1. gone \subseteq Live(q)
        OBVIOUS
    <3> HIDE DEF gone
    <3> QED
        BY <2>2, <3>1
  <2>4. Live(q) \ Range(order) = Live(q) \ cut
      BY <2>2
  <2> QED
      BY <2>2, <2>3, <2>4, RemoveAllWellFormed
<1>4. ASSUME NEW order \in SetToSeqs(cut \cap Live(q)), out.quad = RemoveAll(q, order)
      PROVE  WellFormed(out.quad) /\ NoneGoesStale(q, out.quad)
    BY <1>3, <1>4
<1>5. ASSUME NEW order \in SetToSeqs(cut \cap Live(q)), id \in Live(q) \ cut,
             out.quad = Expand(RemoveAll(q, order), id, v, c, None)
      PROVE  WellFormed(out.quad) /\ NoneGoesStale(q, out.quad)
  <2> DEFINE q1 == RemoveAll(q, order)
  <2>1. WellFormed(q1) /\ NoneGoesStale(q, q1) /\ id \in Live(q1)
      BY <1>3, <1>5
  <2>2. None \in Int \cup {None}
      OBVIOUS
  <2> HIDE DEF q1
  <2>3. WellFormed(Expand(q1, id, v, c, None))
        /\ NoneGoesStale(q1, Expand(q1, id, v, c, None))
      BY <2>1, <2>2, ExpandWellFormed
  <2> QED
      BY <1>5, <2>1, <2>3 DEF q1, NoneGoesStale, Stale
<1>6. \/ out.quad = q
      \/ id \in Live(q) /\ out.quad = Expand(q, id, v, c, q.nodes[id].slow)
      \/ \E order \in SetToSeqs(cut \cap Live(q)) :
           \/ out.quad = RemoveAll(q, order)
           \/ /\ id \in Live(q) \ cut
              /\ out.quad = Expand(RemoveAll(q, order), id, v, c, None)
    BY ReviseCases
<1> HIDE DEF cut
<1> QED
    BY <1>1, <1>2, <1>4, <1>5, <1>6

\* System 1 neither reads nor changes values and scenarios.
LEMMA PropagateWellFormed ==
    ASSUME NEW q, WellFormed(q), NEW changed \in BeliefId,
           NEW r \in Propagate(q, [id \in Live(q) |-> Scale], changed)
    PROVE  WellFormed(r) /\ NoneGoesStale(q, r)
<1> DEFINE b == WithoutIndex(q)
           decay == [id \in Live(q) |-> Scale]
<1>1. CASE r = q
    BY <1>1 DEF NoneGoesStale
<1>2. CASE r # q
  <2>1. PICK order \in VisitOrders(q, changed) : r = WithFast(q, Visit(q, decay, order))
      BY <1>2 DEF Propagate
  <2>2. changed \in Live(q)
      BY <1>2 DEF Propagate
  <2>3. QuadInv(b) /\ Live(b) = Live(q)
      BY DEF WellFormed, WithoutIndex, Live
  <2>4. VisitOrders(b, changed) = VisitOrders(q, changed)
    <3>1. b.graphs = q.graphs
        BY DEF WithoutIndex
    <3> HIDE DEF b
    <3>2. ASSUME NEW x PROVE Descendants(b, x) = Descendants(q, x)
        BY <2>3, <3>1 DEF Descendants
    <3>3. ASSUME NEW s, NEW i PROVE FollowedByDescendants(b, s, i) <=> FollowedByDescendants(q, s, i)
      <4>1. Descendants(b, s[i]) = Descendants(q, s[i])
          BY <3>2, Zenon
      <4> QED
          BY <4>1, Zenon DEF FollowedByDescendants
    <3>4. Descendants(b, changed) = Descendants(q, changed)
        BY <3>2, Zenon
    <3> QED
        BY <3>3, <3>4 DEF VisitOrders
  <2>5. WithoutIndex(r) = WithFast(b, Visit(b, decay, order))
    <3>1. Visit(b, decay, order) = Visit(q, decay, order)
        BY DEF WithoutIndex, Visit, Fast, Live, Recomputed, SupportPaths, EdgeConfidence
    <3> DEFINE fast == Visit(q, decay, order)
    <3>2. WithoutIndex(WithFast(q, fast)) = WithFast(b, fast)
      <4> HIDE DEF fast
      <4>1. q = [nodes |-> q.nodes, gens |-> q.gens, free |-> q.free, graphs |-> q.graphs,
                 prospective |-> q.prospective, equivalent |-> q.equivalent,
                 version |-> q.version]
          BY Zenon DEF WellFormed
      <4> DEFINE nodes == [id \in Live(q) |-> [q.nodes[id] EXCEPT !.fast = fast[id]]]
                 none  == [id \in {} |-> None]
                 moved == WithFast(q, fast)
      <4>2. moved = [q EXCEPT !.nodes = nodes]
          BY Zenon DEF WithFast
      <4>3. b = [nodes |-> q.nodes, gens |-> q.gens, free |-> q.free, graphs |-> q.graphs,
                 prospective |-> none, equivalent |-> q.equivalent, version |-> q.version]
          BY Zenon DEF WithoutIndex
      <4>4. b.nodes = q.nodes /\ Live(b) = Live(q)
          BY <2>3, <4>3
      <4> HIDE DEF b, none
      <4>5. WithFast(b, fast) = [b EXCEPT !.nodes = nodes]
          BY <4>4, Zenon DEF WithFast
      <4> HIDE DEF nodes, moved
      <4>6. moved = [nodes |-> nodes, gens |-> q.gens, free |-> q.free, graphs |-> q.graphs,
                     prospective |-> q.prospective, equivalent |-> q.equivalent,
                     version |-> q.version]
          BY ONLY <4>1, <4>2
      <4>7. WithFast(b, fast)
              = [nodes |-> nodes, gens |-> q.gens, free |-> q.free, graphs |-> q.graphs,
                 prospective |-> none, equivalent |-> q.equivalent, version |-> q.version]
          BY ONLY <4>3, <4>5
      <4>8. WithoutIndex(moved)
              = [nodes |-> moved.nodes, gens |-> moved.gens, free |-> moved.free,
                 graphs |-> moved.graphs, prospective |-> none,
                 equivalent |-> moved.equivalent, version |-> moved.version]
          BY Zenon DEF WithoutIndex, none
      <4>9. WithoutIndex(moved) = WithFast(b, fast)
          BY ONLY <4>6, <4>7, <4>8
      <4> QED
          BY <4>9, Zenon DEF moved, b
    <3> HIDE DEF fast
    <3> QED
        BY <2>1, <3>1, <3>2 DEF fast
  <2>6. Decaying(b, decay)
      BY <2>3, QuadAssumption DEF Decaying, Conf
  <2>7. WithFast(b, Visit(b, decay, order)) \in Propagate(b, decay, changed)
    <3> HIDE DEF b, decay
    <3> QED
        BY <2>1, <2>2, <2>3, <2>4 DEF Propagate
  <2>8. QuadInv(WithoutIndex(r))
    <3> HIDE DEF b, decay
    <3> QED
        BY <2>3, <2>5, <2>6, <2>7, PropagateInv
  <2> DEFINE fast == Visit(q, decay, order)
  <2>9. /\ r = Fields(r)
        /\ r.prospective = q.prospective
        /\ r.nodes = [id \in Live(q) |-> [q.nodes[id] EXCEPT !.fast = fast[id]]]
    <3>1. q = Fields(q)
        BY DEF WellFormed, Fields
    <3> DEFINE nodes == [id \in Live(q) |-> [q.nodes[id] EXCEPT !.fast = fast[id]]]
    <3>2. r = [q EXCEPT !.nodes = nodes]
        BY <2>1 DEF WithFast
    <3> HIDE DEF nodes, fast
    <3>3. r = [nodes |-> nodes, gens |-> q.gens, free |-> q.free, graphs |-> q.graphs,
               prospective |-> q.prospective, equivalent |-> q.equivalent,
               version |-> q.version]
        BY <3>1, <3>2 DEF Fields
    <3>4. r = Fields(r)
        BY <3>3 DEF Fields
    <3> QED
        BY <3>3, <3>4 DEF nodes
  <2> HIDE DEF fast
  <2>10. \A id \in Live(q) : id \in Live(r) /\ r.nodes[id].value = q.nodes[id].value
    <3>1. \A id \in Live(q) : q.nodes[id] \in Node
        BY DEF WellFormed, WithoutIndex, QuadInv, IsQuad, Live
    <3> QED
        BY <2>9, <3>1 DEF Live, Node
  <2> QED
      BY <2>8, <2>9, <2>10 DEF WellFormed, NoneGoesStale, Stale, Fields
<1> QED
    BY <1>1, <1>2

-----------------------------------------------------------------------------
(* Free energy *)

\* A finite set as a sequence of its elements.
LEMMA SetToSeqType ==
    ASSUME NEW S, IsFiniteSet(S)
    PROVE  SetToSeq(S) \in [1 .. Cardinality(S) -> S] /\ Cardinality(S) \in Nat
<1> DEFINE n == Cardinality(S)
<1>1. n \in Nat /\ ExistsBijection(1 .. n, S)
    BY FS_CardinalityType
<1>2. PICK f : f \in Bijection(1 .. n, S)
  <2> HIDE DEF n
  <2> QED
      BY <1>1, Fun_ExistsBij
<1>3. f \in [1 .. n -> S] /\ IsInjective(f)
  <2> HIDE DEF n
  <2>1. f \in [1 .. n -> S] /\ \A a, b \in 1 .. n : f[a] = f[b] => a = b
      BY <1>2, Fun_BijectionProperties
  <2> QED
      BY <2>1 DEF IsInjective
<1>4. SetToSeq(S) = CHOOSE g \in [1 .. n -> S] : IsInjective(g)
    BY Zenon DEF SetToSeq
<1> HIDE DEF n
<1>5. SetToSeq(S) \in [1 .. n -> S]
    BY <1>3, <1>4
<1> QED
    BY <1>1, <1>5 DEF n

\* What a well-formed quad says of its beliefs.
LEMMA BeliefsOfQuad ==
    ASSUME NEW q, WellFormed(q)
    PROVE  /\ IsFiniteSet(Live(q)) /\ Live(q) \subseteq BeliefId
           /\ q.nodes \in [Live(q) -> Node]
           /\ \A id \in Live(q) : /\ q.nodes[id].fast \in Conf /\ q.nodes[id].key \in Key
                                  /\ q.nodes[id].value \in Value
<1>1. IsFiniteSet(Live(q)) /\ Live(q) \subseteq BeliefId /\ q.nodes \in [Live(q) -> Node]
    BY DEF WellFormed, WithoutIndex, QuadInv, Finite, IsQuad, Live
<1> QED
    BY <1>1 DEF Node

LEMMA StructuralPriorType ==
    ASSUME NEW q, WellFormed(q), NEW id
    PROVE  StructuralPrior(q, id) \in Conf
<1> DEFINE P == (UNION {Range(ps) : ps \in SupportPaths(q, id)}) \cap Live(q)
           parents == SetToSeq(P)
           n == Cardinality(P)
           cs == [i \in DOMAIN parents |-> q.nodes[parents[i]].fast]
<1>1. IsFiniteSet(P)
  <2>1. IsFiniteSet(Live(q)) /\ P \in SUBSET Live(q)
      BY BeliefsOfQuad
  <2> HIDE DEF P
  <2> QED
      BY <2>1, FS_Subset
<1>2. parents \in [1 .. n -> P] /\ n \in Nat
  <2> HIDE DEF P
  <2> QED
      BY <1>1, SetToSeqType
<1>3. cs \in [1 .. n -> Conf]
  <2>1. \A x \in P : q.nodes[x].fast \in Conf
      BY BeliefsOfQuad
  <2> HIDE DEF P, parents, n
  <2> QED
      BY <1>2, <2>1
<1>4. StructuralPrior(q, id) = IF parents = <<>> THEN Scale \div 2 ELSE NoisyOr(cs)
    BY DEF StructuralPrior
<1>5. Scale \div 2 \in Conf
    BY QuadAssumption DEF Conf
<1> HIDE DEF P, parents, n, cs
<1>6. NoisyOr(cs) \in Conf
    BY <1>2, <1>3, NoisyOrType
<1> QED
    BY <1>4, <1>5, <1>6

LEMMA FreeEnergyType ==
    ASSUME NEW q, WellFormed(q), NEW observed \in Node
    PROVE  QuadFreeEnergy(q, observed) \in Nat
<1> DEFINE beliefs == SetToSeq(Live(q))
           n == Cardinality(Live(q))
           terms == [i \in DOMAIN beliefs |->
                       Divergence[q.nodes[beliefs[i]].fast, StructuralPrior(q, beliefs[i])]]
<1>1. beliefs \in [1 .. n -> Live(q)] /\ n \in Nat
    BY BeliefsOfQuad, SetToSeqType
<1>2. terms \in [1 .. n -> Nat]
  <2> SUFFICES ASSUME NEW i \in 1 .. n
               PROVE  Divergence[q.nodes[beliefs[i]].fast, StructuralPrior(q, beliefs[i])] \in Nat
    <3> HIDE DEF beliefs, n
    <3> QED
        BY <1>1
  <2>1. beliefs[i] \in Live(q)
    <3> HIDE DEF beliefs, n
    <3> QED
        BY <1>1
  <2>2. q.nodes[beliefs[i]].fast \in Conf /\ StructuralPrior(q, beliefs[i]) \in Conf
      BY <2>1, BeliefsOfQuad, StructuralPriorType
  <2> QED
      BY <2>2, ActiveInferenceAssumption
<1>3. terms \in Seq(Nat)
  <2> HIDE DEF terms, n
  <2> QED
      BY <1>1, <1>2, FunctionIsSeq
<1>4. SumOf(terms) \in Nat
  <2> HIDE DEF terms
  <2> QED
      BY <1>3, SumOfNaturals
<1>5. Surprise[observed.fast] \in Nat
    BY ActiveInferenceAssumption DEF Node
<1>6. QuadFreeEnergy(q, observed) = SumOf(terms) + Surprise[observed.fast]
    BY DEF QuadFreeEnergy
<1> HIDE DEF terms
<1> QED
    BY <1>4, <1>5, <1>6

-----------------------------------------------------------------------------
(* The monitor *)

Signal == [energy : Nat, past : [count : Nat, sum : Int, squares : Int],
           exceeds : BOOLEAN, remaining : Int]

\* The energies the i-th observation is compared with, and what the
\* observations from first to i cost more than they gave back.
Window(sig, i) ==
    LET first == Max({1, i - Capacity})
    IN  [j \in 1 .. i - first |-> sig[first + j - 1].energy]
RunCost(sig, first, i) ==
    SumOf([j \in 1 .. i - first + 1 |-> sig[first + j - 1].energy - Refill])

PastOf(sig) == \A i \in DOMAIN sig : sig[i].past = Moments(Window(sig, i))
CreditOf(sig) ==
    \A i \in DOMAIN sig :
      sig[i].remaining = 0 <=> \E first \in 1 .. i + 1 : RunCost(sig, first, i) >= Budget

\* The reservoir is the budget less the costliest run up to now.
ReservoirOf(sig, reservoir) ==
    LET n == Len(sig) IN
      /\ \A first \in 1 .. n + 1 : reservoir <= Budget - RunCost(sig, first, n)
      /\ \E first \in 1 .. n + 1 : reservoir = Budget - RunCost(sig, first, n)

MonitorInv(m, sig) ==
    /\ sig \in Seq(Signal)
    /\ m = [history |-> Window(sig, Len(sig) + 1), reservoir |-> m.reservoir,
            observations |-> Len(sig)]
    /\ m.reservoir \in Int /\ ReservoirOf(sig, m.reservoir)
    /\ PastOf(sig) /\ CreditOf(sig)

LEMMA MaxOfTwo ==
    ASSUME NEW a \in Int, NEW b \in Int
    PROVE  Max({a, b}) = IF a >= b THEN a ELSE b
<1> DEFINE m == IF a >= b THEN a ELSE b
<1>1. m \in {a, b} /\ \A y \in {a, b} : m >= y
    OBVIOUS
<1>2. \A x \in {a, b} : (\A y \in {a, b} : x >= y) => x = m
    OBVIOUS
<1> QED
    BY <1>1, <1>2 DEF Max

LEMMA MinOfTwo ==
    ASSUME NEW a \in Int, NEW b \in Int
    PROVE  Min({a, b}) = IF a <= b THEN a ELSE b
<1> DEFINE m == IF a <= b THEN a ELSE b
<1>1. m \in {a, b} /\ \A y \in {a, b} : m <= y
    OBVIOUS
<1>2. \A x \in {a, b} : (\A y \in {a, b} : x <= y) => x = m
    OBVIOUS
<1> QED
    BY <1>1, <1>2 DEF Min

LEMMA CapacityType == Capacity \in Nat \ {0}
<1>1. /\ CapacityIn \in Nat /\ CapacityMin \in Nat \ {0} /\ CapacityMax \in Nat
      /\ CapacityMin <= CapacityMax
    BY ActiveInferenceAssumption
<1> QED
    BY <1>1 DEF Capacity

Start(i) == IF 1 >= i - Capacity THEN 1 ELSE i - Capacity

\* The window is at most Capacity energies.
LEMMA WindowType ==
    ASSUME NEW sig \in Seq(Signal), NEW i \in 1 .. Len(sig) + 1
    PROVE  /\ Start(i) \in 1 .. i /\ i - Start(i) \in 0 .. Capacity
           /\ Window(sig, i) \in Seq(Nat) /\ Len(Window(sig, i)) = i - Start(i)
           /\ \A j \in 1 .. i - Start(i) :
                Window(sig, i)[j] = sig[Start(i) + j - 1].energy
<1> DEFINE first == Start(i)
           w == [j \in 1 .. i - first |-> sig[first + j - 1].energy]
<1>1. Len(sig) \in Nat /\ i \in Int /\ Capacity \in Nat \ {0}
    BY CapacityType
<1>2. first \in 1 .. i /\ i - first \in 0 .. Capacity
    BY <1>1 DEF Start
<1>3. Window(sig, i) = w
  <2>1. Max({1, i - Capacity}) = first
      BY <1>1, MaxOfTwo DEF Start
  <2> QED
      BY <2>1 DEF Window
<1>4. w \in [1 .. i - first -> Nat]
  <2> SUFFICES ASSUME NEW j \in 1 .. i - first PROVE sig[first + j - 1].energy \in Nat
      OBVIOUS
  <2>1. first + j - 1 \in 1 .. Len(sig)
      BY <1>1, <1>2
  <2>2. sig[first + j - 1] \in Signal
      BY <2>1
  <2> QED
      BY <2>2 DEF Signal
<1>5. i - first \in Nat
    BY <1>2
<1>6. \A j \in 1 .. i - first : w[j] = sig[first + j - 1].energy
    OBVIOUS
<1> HIDE DEF w
<1>7. w \in Seq(Nat) /\ Len(w) = i - first
  <2>1. w \in Seq(Nat)
      BY <1>4, <1>5, FunctionIsSeq
  <2> QED
      BY <1>4, <1>5, <2>1
<1> QED
    BY <1>2, <1>3, <1>6, <1>7

\* Sequences that agree everywhere are equal.
LEMMA SequencesEqual ==
    ASSUME NEW S, NEW s \in Seq(S), NEW t \in Seq(S), Len(s) = Len(t),
           \A j \in 1 .. Len(s) : s[j] = t[j]
    PROVE  s = t
<1>1. \A r \in Seq(S) : r = [j \in 1 .. Len(r) |-> r[j]]
    OBVIOUS
<1>2. s = [j \in 1 .. Len(s) |-> s[j]] /\ t = [j \in 1 .. Len(t) |-> t[j]]
    BY <1>1
<1> QED
    BY <1>2

\* What is about the observations up to i is not about later ones.
LEMMA WindowLater ==
    ASSUME NEW sig \in Seq(Signal), NEW x \in Signal, NEW i \in 1 .. Len(sig) + 1
    PROVE  Window(Append(sig, x), i) = Window(sig, i)
<1> DEFINE late == Append(sig, x)
           first == Start(i)
           h == Window(sig, i)
           w == Window(late, i)
<1>1. /\ late \in Seq(Signal) /\ Len(late) = Len(sig) + 1 /\ Len(sig) \in Nat
      /\ \A j \in 1 .. Len(sig) : late[j] = sig[j]
    OBVIOUS
<1> HIDE DEF late
<1>2. /\ first \in 1 .. i /\ h \in Seq(Nat) /\ Len(h) = i - first
      /\ \A j \in 1 .. i - first : h[j] = sig[first + j - 1].energy
    BY WindowType
<1>3. /\ w \in Seq(Nat) /\ Len(w) = i - first
      /\ \A j \in 1 .. i - first : w[j] = late[first + j - 1].energy
  <2>1. i \in 1 .. Len(late) + 1
      BY <1>1
  <2> QED
      BY <1>1, <2>1, WindowType
<1>4. ASSUME NEW j \in 1 .. i - first PROVE first + j - 1 \in 1 .. Len(sig)
  <2>1. Len(sig) \in Nat /\ first \in 1 .. i
      BY <1>1, <1>2, Zenon
  <2> HIDE DEF first, h, w
  <2> QED
      BY <2>1
<1> HIDE DEF first, h, w
<1>5. \A j \in 1 .. i - first : late[first + j - 1] = sig[first + j - 1]
    BY <1>1, <1>4
<1>6. \A j \in 1 .. Len(w) : w[j] = h[j]
    BY <1>2, <1>3, <1>5
<1> QED
    BY <1>2, <1>3, <1>6, SequencesEqual DEF late, h, w

\* Pushing an energy onto a window gives the next one.
LEMMA WindowPushed ==
    ASSUME NEW sig \in Seq(Signal), NEW x \in Signal
    PROVE  Pushed(Window(sig, Len(sig) + 1), x.energy)
             = Window(Append(sig, x), Len(sig) + 2)
<1> DEFINE late == Append(sig, x)
           n == Len(sig)
           k == Capacity
           l == n + 1
           m == n + 2
           h == Window(sig, l)
           w == Window(late, m)
           first == Start(l)
           next == Start(m)
           e == x.energy
           p == Pushed(h, e)
<1>1. /\ late \in Seq(Signal) /\ Len(late) = l /\ n \in Nat /\ k \in Nat \ {0}
      /\ l = n + 1 /\ m = n + 2 /\ l \in 1 .. Len(sig) + 1 /\ m \in 1 .. Len(late) + 1
      /\ late[l] = x /\ \A j \in 1 .. n : late[j] = sig[j]
    BY CapacityType
<1>2. e \in Nat
    BY DEF Signal
<1>3. /\ first \in 1 .. l /\ h \in Seq(Nat) /\ Len(h) = l - first
      /\ \A j \in 1 .. l - first : h[j] = sig[first + j - 1].energy
  <2> HIDE DEF l
  <2> QED
      BY <1>1, WindowType
<1>4. /\ next \in 1 .. m /\ w \in Seq(Nat) /\ Len(w) = m - next
      /\ \A j \in 1 .. m - next : w[j] = late[next + j - 1].energy
  <2> HIDE DEF m, late
  <2> QED
      BY <1>1, WindowType
<1>5. p = Append(IF Len(h) = k THEN Tail(h) ELSE h, e)
    BY DEF Pushed
<1>6. /\ first = IF 1 >= l - k THEN 1 ELSE l - k
      /\ next = IF 1 >= m - k THEN 1 ELSE m - k
  <2> HIDE DEF l, m
  <2> QED
      BY <1>1 DEF Start
<1> HIDE DEF late, n, k, l, m, h, w, e, p, first, next
<1>7. CASE Len(h) = k
  <2>1. first = n + 1 - k /\ next = first + 1 /\ k <= n
    <3>1. n \in Nat /\ k \in Nat \ {0} /\ l = n + 1 /\ m = n + 2
        BY <1>1, Zenon
    <3>2. first \in 1 .. l /\ l - first = k
        BY <1>3, <1>7, Zenon
    <3> QED
        BY <1>6, <3>1, <3>2
  <2>2. /\ Tail(h) \in Seq(Nat) /\ Len(Tail(h)) = k - 1
        /\ \A j \in 1 .. k - 1 : Tail(h)[j] = h[j + 1]
    <3>1. h # <<>> /\ k - 1 \in Nat
        BY <1>1, <1>3, <1>7
    <3> QED
        BY <1>1, <1>3, <1>7, <3>1
  <2>3. /\ p \in Seq(Nat) /\ Len(p) = k /\ p[k] = e
        /\ \A j \in 1 .. k - 1 : p[j] = h[j + 1]
      BY <1>1, <1>2, <1>5, <1>7, <2>2
  <2>4. Len(w) = k
      BY <1>1, <1>4, <2>1
  <2>5. ASSUME NEW j \in 1 .. k PROVE p[j] = w[j]
    <3>1. w[j] = late[next + j - 1].energy
        BY <1>1, <1>4, <2>1
    <3>2. CASE j = k
      <4>1. next + j - 1 = n + 1
          BY <1>1, <2>1, <3>2
      <4> QED
          BY <1>1, <2>3, <3>1, <3>2, <4>1 DEF e
    <3>3. CASE j # k
      <4>1. j \in 1 .. k - 1 /\ j + 1 \in 1 .. l - first
          BY <1>1, <2>1, <3>3
      <4>2. h[j + 1] = sig[first + (j + 1) - 1].energy
          BY <1>3, <4>1
      <4>3. first + (j + 1) - 1 = next + j - 1 /\ next + j - 1 \in 1 .. n
          BY <1>1, <2>1, <4>1
      <4> QED
          BY <1>1, <2>3, <3>1, <4>1, <4>2, <4>3
    <3> QED
        BY <3>2, <3>3
  <2> QED
      BY <1>4, <2>3, <2>4, <2>5, SequencesEqual DEF p, h, w, e, l, m, n, late
<1>8. CASE Len(h) # k
  <2>1. first = 1 /\ next = 1
    <3>1. l - first # k
        BY <1>3, <1>8
    <3> QED
        BY <1>1, <1>6, <3>1
  <2>2. /\ p \in Seq(Nat) /\ Len(p) = n + 1 /\ p[n + 1] = e
        /\ \A j \in 1 .. n : p[j] = h[j]
      BY <1>1, <1>2, <1>3, <1>5, <1>8, <2>1
  <2>3. ASSUME NEW j \in 1 .. n + 1 PROVE p[j] = w[j]
    <3>1. w[j] = late[j].energy
      <4>1. j \in 1 .. m - next
        <5>1. n \in Nat /\ m = n + 2
            BY <1>1, Zenon
        <5> QED
            BY <2>1, <5>1
      <4>2. w[j] = late[next + j - 1].energy
          BY <1>4, <4>1, Zenon
      <4>3. next + j - 1 = j
          BY <2>1
      <4> QED
          BY <4>2, <4>3, Zenon
    <3>2. CASE j = n + 1
        BY <1>1, <2>2, <3>1, <3>2 DEF e
    <3>3. CASE j # n + 1
      <4>1. j \in 1 .. n /\ j \in 1 .. l - first /\ first + j - 1 = j
          BY <1>1, <2>1, <3>3
      <4>2. h[j] = sig[j].energy
          BY <1>3, <4>1
      <4> QED
          BY <1>1, <2>2, <3>1, <4>1, <4>2
    <3> QED
        BY <3>2, <3>3
  <2>4. Len(w) = n + 1
      BY <1>1, <1>4, <2>1
  <2> QED
      BY <1>4, <2>2, <2>3, <2>4, SequencesEqual DEF p, h, w, e, l, m, n, late
<1> QED
    BY <1>7, <1>8

\* The costs of a run of observations.
LEMMA RunCostType ==
    ASSUME NEW sig \in Seq(Signal), NEW i \in 0 .. Len(sig), NEW first \in 1 .. i + 1
    PROVE  /\ RunCost(sig, first, i) \in Int
           /\ [j \in 1 .. i - first + 1 |-> sig[first + j - 1].energy - Refill] \in Seq(Int)
           /\ Len([j \in 1 .. i - first + 1 |-> sig[first + j - 1].energy - Refill])
                = i - first + 1
<1> DEFINE s == [j \in 1 .. i - first + 1 |-> sig[first + j - 1].energy - Refill]
           n == i - first + 1
<1>1. n \in Nat
    OBVIOUS
<1>2. s \in [1 .. n -> Int]
  <2> SUFFICES ASSUME NEW j \in 1 .. n PROVE sig[first + j - 1].energy - Refill \in Int
      OBVIOUS
  <2>1. first + j - 1 \in 1 .. Len(sig)
      OBVIOUS
  <2>2. sig[first + j - 1] \in Signal
    <3> HIDE DEF n
    <3> QED
        BY <2>1
  <2>3. Refill \in Nat
      BY ActiveInferenceAssumption
  <2> QED
      BY <2>2, <2>3 DEF Signal
<1>3. s \in Seq(Int)
  <2> HIDE DEF s, n
  <2> QED
      BY <1>1, <1>2, FunctionIsSeq
<1>4. Len(s) = n
  <2> HIDE DEF n
  <2> QED
      BY <1>1, <1>2, <1>3
<1>5. SumOf(s) \in Int
  <2> HIDE DEF s
  <2> QED
      BY <1>3, SumOfType
<1> QED
    BY <1>3, <1>4, <1>5 DEF RunCost

LEMMA RunCostLater ==
    ASSUME NEW sig \in Seq(Signal), NEW x \in Signal,
           NEW i \in 0 .. Len(sig), NEW first \in 1 .. i + 1
    PROVE  RunCost(Append(sig, x), first, i) = RunCost(sig, first, i)
<1> DEFINE late == Append(sig, x)
<1>1. \A j \in 1 .. i - first + 1 : first + j - 1 \in 1 .. Len(sig)
    OBVIOUS
<1>2. \A j \in 1 .. Len(sig) : late[j] = sig[j]
    OBVIOUS
<1> HIDE DEF late
<1>3. \A j \in 1 .. i - first + 1 : late[first + j - 1] = sig[first + j - 1]
    BY <1>1, <1>2
<1>4. [j \in 1 .. i - first + 1 |-> late[first + j - 1].energy - Refill]
        = [j \in 1 .. i - first + 1 |-> sig[first + j - 1].energy - Refill]
    BY <1>3
<1> QED
    BY <1>4 DEF RunCost, late

\* A further observation adds what it cost to every run; the one that begins
\* after it has cost nothing.
LEMMA RunCostNext ==
    ASSUME NEW sig \in Seq(Signal), NEW x \in Signal
    PROVE  LET n == Len(sig)
               late == Append(sig, x)
           IN  /\ \A first \in 1 .. n + 1 :
                    RunCost(late, first, n + 1) = RunCost(sig, first, n) + x.energy - Refill
               /\ RunCost(late, n + 2, n + 1) = 0
<1> DEFINE n == Len(sig)
           late == Append(sig, x)
           c == x.energy - Refill
<1>1. /\ late \in Seq(Signal) /\ Len(late) = n + 1 /\ n \in Nat
      /\ late[n + 1] = x /\ \A j \in 1 .. n : late[j] = sig[j]
    OBVIOUS
<1>2. c \in Int /\ x.energy \in Nat /\ Refill \in Nat
  <2>1. x.energy \in Nat /\ Refill \in Nat
      BY ActiveInferenceAssumption DEF Signal
  <2> QED
      BY <2>1
<1>3. RunCost(late, n + 2, n + 1) = 0
  <2>1. [j \in 1 .. n + 1 - (n + 2) + 1 |-> late[n + 2 + j - 1].energy - Refill] = <<>>
      BY <1>1
  <2> QED
      BY <2>1, SumOfEmpty DEF RunCost
<1>4. ASSUME NEW first \in 1 .. n + 1
      PROVE  RunCost(late, first, n + 1) = RunCost(sig, first, n) + c
  <2> DEFINE k == n - first + 1
             s == [j \in 1 .. k |-> sig[first + j - 1].energy - Refill]
             t == [j \in 1 .. (n + 1) - first + 1 |-> late[first + j - 1].energy - Refill]
             a == Append(s, c)
  <2>1. k \in Nat /\ (n + 1) - first + 1 = k + 1 /\ first + (k + 1) - 1 = n + 1
      BY <1>1
  <2>2. s \in Seq(Int) /\ Len(s) = k
    <3>1. n \in 0 .. Len(sig)
        BY <1>1
    <3> QED
        BY <3>1, RunCostType
  <2>3. /\ a \in Seq(Int) /\ Len(a) = k + 1 /\ a[k + 1] = c
        /\ \A j \in 1 .. k : a[j] = s[j]
    <3> HIDE DEF s, c
    <3> QED
        BY <1>2, <2>1, <2>2
  <2>4. ASSUME NEW j \in 1 .. k + 1 PROVE a[j] = t[j]
    <3>1. t[j] = late[first + j - 1].energy - Refill
      <4>1. j \in 1 .. (n + 1) - first + 1
          BY <2>1
      <4> QED
          BY <4>1
    <3>2. CASE j = k + 1
        BY <1>1, <2>1, <2>3, <3>1, <3>2
    <3>3. CASE j # k + 1
      <4>1. j \in 1 .. k /\ first + j - 1 \in 1 .. n
          BY <1>1, <2>1, <3>3
      <4>2. s[j] = sig[first + j - 1].energy - Refill
          BY <4>1
      <4>3. late[first + j - 1] = sig[first + j - 1]
          BY <1>1, <4>1
      <4> HIDE DEF s, t, a, late
      <4> QED
          BY <2>3, <3>1, <4>1, <4>2, <4>3
    <3> QED
        BY <3>2, <3>3
  <2>5. t = [j \in 1 .. k + 1 |-> t[j]]
      BY <2>1
  <2> HIDE DEF t, a
  <2>6. a = t
    <3>1. a = [j \in 1 .. k + 1 |-> a[j]]
        BY <2>3
    <3> QED
        BY <2>4, <2>5, <3>1
  <2>7. SumOf(a) = SumOf(s) + c
    <3> HIDE DEF s, c
    <3> QED
        BY <1>2, <2>2, SumOfAppend DEF a
  <2> QED
      BY <2>6, <2>7 DEF RunCost, t
<1>5. ASSUME NEW first \in 1 .. n + 1
      PROVE  RunCost(late, first, n + 1) = RunCost(sig, first, n) + x.energy - Refill
  <2>1. RunCost(sig, first, n) \in Int
    <3>1. n \in 0 .. Len(sig)
        BY <1>1
    <3> QED
        BY <3>1, RunCostType
  <2>2. RunCost(late, first, n + 1) = RunCost(sig, first, n) + c
      BY <1>4
  <2> QED
      BY <1>2, <2>1, <2>2
<1> QED
    BY <1>3, <1>5

\* A monitor that observed nothing.
LEMMA NewMonitorInv == MonitorInv(NewMonitor, <<>>)
<1> DEFINE e == <<>>
<1>1. e \in Seq(Signal) /\ Len(e) = 0 /\ DOMAIN e = {}
    OBVIOUS
<1>2. Budget \in Int
  <2>1. Budget \in Nat
      BY ActiveInferenceAssumption
  <2> QED
      BY <2>1
<1>3. Window(e, Len(e) + 1) = <<>>
  <2>1. Start(1) = 1
      BY CapacityType DEF Start
  <2> DEFINE w == Window(e, 1)
  <2>2. w \in Seq(Nat) /\ Len(w) = 0
    <3> DEFINE i == 1
    <3>1. e \in Seq(Signal) /\ i \in 1 .. Len(e) + 1
        BY <1>1
    <3>2. i = 1
        OBVIOUS
    <3> HIDE DEF e, i
    <3>3. Window(e, i) \in Seq(Nat) /\ Len(Window(e, i)) = i - Start(i)
        BY <3>1, WindowType, Zenon
    <3> QED
        BY <2>1, <3>2, <3>3
  <2>3. w = <<>>
    <3> HIDE DEF w
    <3> QED
        BY <2>2
  <2> QED
      BY <1>1, <2>3
<1>4. ReservoirOf(e, Budget)
  <2>1. RunCost(e, 1, 0) = 0
    <3>1. [j \in 1 .. 0 - 1 + 1 |-> e[1 + j - 1].energy - Refill] = <<>>
        OBVIOUS
    <3> QED
        BY <3>1, SumOfEmpty DEF RunCost
  <2>2. 1 .. 0 + 1 = {1}
      OBVIOUS
  <2> HIDE DEF e
  <2> QED
      BY <1>1, <1>2, <2>1, <2>2 DEF ReservoirOf
<1> HIDE DEF e
<1>5. PastOf(e) /\ CreditOf(e)
    BY <1>1 DEF PastOf, CreditOf
<1> QED
    BY <1>1, <1>2, <1>3, <1>4, <1>5 DEF MonitorInv, NewMonitor, e

LEMMA MomentsType ==
    ASSUME NEW w \in Seq(Nat)
    PROVE  Moments(w) \in [count : Nat, sum : Int, squares : Int]
<1> DEFINE s == [i \in DOMAIN w |-> w[i] * w[i]]
<1>1. Len(w) \in Nat /\ DOMAIN w = 1 .. Len(w) /\ \A i \in 1 .. Len(w) : w[i] \in Nat
    OBVIOUS
<1>2. s \in [1 .. Len(w) -> Int]
    BY <1>1
<1>3. s \in Seq(Int)
  <2> HIDE DEF s
  <2> QED
      BY <1>1, <1>2, FunctionIsSeq
<1>4. w \in Seq(Int)
  <2>1. w \in [1 .. Len(w) -> Int]
      BY <1>1
  <2> QED
      BY <1>1, <2>1, FunctionIsSeq
<1>5. SumOf(s) \in Int /\ SumOf(w) \in Int
  <2> HIDE DEF s
  <2> QED
      BY <1>3, <1>4, SumOfType
<1> QED
    BY <1>1, <1>5 DEF Moments

\* An observation: the window moves by one, the reservoir is again the budget
\* less the costliest run, and what the signal says is about the past.
LEMMA ObserveKeeps ==
    ASSUME NEW m, NEW sig, MonitorInv(m, sig), NEW f \in Nat
    PROVE  LET seen == Observe(m, f)
           IN  MonitorInv(seen.monitor, Append(sig, seen.signal))
<1> DEFINE x == Observe(m, f).signal
           r == Observe(m, f).monitor
           late == Append(sig, x)
           n == Len(sig)
           left == m.reservoir - f + Refill
<1>1. /\ sig \in Seq(Signal) /\ n \in Nat /\ m.reservoir \in Int
      /\ m.history = Window(sig, n + 1) /\ m.observations = n
    BY DEF MonitorInv
<1>2. Refill \in Nat /\ Budget \in Nat
    BY ActiveInferenceAssumption
<1>3. /\ x = [energy |-> f, past |-> Moments(m.history), exceeds |-> f > Budget,
              remaining |-> BudgetRemaining(Refilled(m.reservoir, f))]
      /\ r = [history |-> Pushed(m.history, f), reservoir |-> Refilled(m.reservoir, f),
              observations |-> n + 1]
    BY <1>1 DEF Observe
<1> HIDE DEF x, r
<1>4. Refilled(m.reservoir, f) = IF left > Budget THEN Budget ELSE left
    BY DEF Refilled
<1>5. left \in Int /\ Refilled(m.reservoir, f) \in Int
    BY <1>1, <1>2, <1>4
<1>6. x \in Signal
  <2>1. Moments(m.history) \in [count : Nat, sum : Int, squares : Int]
    <3> DEFINE l == n + 1
    <3>1. l \in 1 .. Len(sig) + 1
        BY <1>1
    <3> HIDE DEF l
    <3>2. Window(sig, l) \in Seq(Nat)
        BY <1>1, <3>1, WindowType
    <3> QED
        BY <1>1, <3>2, MomentsType DEF l
  <2>2. BudgetRemaining(Refilled(m.reservoir, f)) \in Int
      BY <1>5 DEF BudgetRemaining
  <2> QED
      BY <1>3, <2>1, <2>2 DEF Signal
<1>7. /\ late \in Seq(Signal) /\ Len(late) = n + 1 /\ late[n + 1] = x
      /\ DOMAIN late = 1 .. n + 1 /\ \A i \in 1 .. n : late[i] = sig[i]
    BY <1>1, <1>6
<1>8. r = [history |-> Window(late, Len(late) + 1), reservoir |-> r.reservoir,
           observations |-> Len(late)]
  <2>1. Pushed(Window(sig, Len(sig) + 1), x.energy) = Window(late, Len(sig) + 2)
      BY <1>1, <1>6, WindowPushed
  <2>2. x.energy = f /\ Len(late) + 1 = Len(sig) + 2
      BY <1>1, <1>3, <1>7
  <2> QED
      BY <1>1, <1>3, <1>7, <2>1, <2>2
<1> DEFINE Cost(first) == RunCost(late, first, n + 1)
<1>9. /\ \A first \in 1 .. n + 1 : /\ Cost(first) = RunCost(sig, first, n) + f - Refill
                                   /\ RunCost(sig, first, n) \in Int
      /\ Cost(n + 2) = 0
  <2>1. x.energy = f
      BY <1>3
  <2>2. \A first \in 1 .. n + 1 : RunCost(sig, first, n) \in Int
    <3>1. n \in 0 .. Len(sig)
        BY <1>1
    <3> QED
        BY <1>1, <3>1, RunCostType
  <2> QED
      BY <1>1, <1>6, <2>1, <2>2, RunCostNext
<1>10. /\ \A first \in 1 .. n + 1 : m.reservoir <= Budget - RunCost(sig, first, n)
       /\ \E first \in 1 .. n + 1 : m.reservoir = Budget - RunCost(sig, first, n)
    BY DEF MonitorInv, ReservoirOf
<1> HIDE DEF late, Cost
<1>11. /\ \A first \in 1 .. n + 2 : r.reservoir <= Budget - Cost(first) /\ Cost(first) \in Int
       /\ \E first \in 1 .. n + 2 : r.reservoir = Budget - Cost(first)
  <2>1. r.reservoir = IF left > Budget THEN Budget ELSE left
      BY <1>3, <1>4
  <2>2. ASSUME NEW first \in 1 .. n + 1
        PROVE  Cost(first) \in Int /\ left <= Budget - Cost(first)
    <3> DEFINE c == RunCost(sig, first, n)
               d == Cost(first)
               a == m.reservoir
    <3>1. d = c + f - Refill /\ c \in Int
        BY <1>9, Zenon
    <3>2. a <= Budget - c
        BY <1>10, Zenon
    <3>3. a \in Int /\ left = a - f + Refill
        BY <1>1
    <3> HIDE DEF c, d, a, left
    <3>4. d \in Int /\ left <= Budget - d
        BY <1>2, <3>1, <3>2, <3>3
    <3> QED
        BY <3>4, Zenon DEF d
  <2>3. ASSUME NEW first \in 1 .. n + 2
        PROVE  r.reservoir <= Budget - Cost(first) /\ Cost(first) \in Int
    <3>1. CASE first = n + 2
        BY <1>2, <1>5, <1>9, <2>1, <3>1
    <3>2. CASE first # n + 2
      <4>1. first \in 1 .. n + 1
          BY <1>1, <3>2
      <4> QED
          BY <1>2, <1>5, <2>1, <2>2, <4>1
    <3> QED
        BY <3>1, <3>2
  <2>4. \E first \in 1 .. n + 2 : r.reservoir = Budget - Cost(first)
    <3>1. CASE left > Budget
      <4>1. r.reservoir = Budget - Cost(n + 2) /\ n + 2 \in 1 .. n + 2
          BY <1>1, <1>2, <1>9, <2>1, <3>1
      <4> QED
          BY <4>1
    <3>2. CASE ~(left > Budget)
      <4>1. PICK first \in 1 .. n + 1 : m.reservoir = Budget - RunCost(sig, first, n)
          BY <1>10
      <4>2. first \in 1 .. n + 2
          BY <1>1
      <4>3. left = Budget - Cost(first)
        <5> DEFINE c == RunCost(sig, first, n)
                   d == Cost(first)
                   a == m.reservoir
        <5>1. d = c + f - Refill /\ c \in Int
            BY <1>9, Zenon
        <5>2. a = Budget - c /\ left = a - f + Refill
            BY <4>1
        <5> HIDE DEF c, d, a, left
        <5>3. left = Budget - d
            BY <1>2, <5>1, <5>2
        <5> QED
            BY <5>3, Zenon DEF d
      <4> QED
          BY <2>1, <3>2, <4>2, <4>3
    <3> QED
        BY <3>1, <3>2
  <2> QED
      BY <2>3, <2>4
<1>12. ReservoirOf(late, r.reservoir)
    BY <1>1, <1>7, <1>11 DEF ReservoirOf, Cost
<1>13. PastOf(late)
  <2> SUFFICES ASSUME NEW i \in 1 .. n + 1
               PROVE  late[i].past = Moments(Window(late, i))
      BY <1>7 DEF PastOf
  <2>1. i \in 1 .. Len(sig) + 1
      OBVIOUS
  <2>2. Window(late, i) = Window(sig, i)
      BY <1>1, <1>6, <2>1, WindowLater DEF late
  <2>3. CASE i = n + 1
    <3>1. late[i].past = Moments(m.history)
        BY <1>3, <1>7, <2>3
    <3> QED
        BY <1>1, <2>2, <2>3, <3>1
  <2>4. CASE i # n + 1
    <3>1. i \in 1 .. n /\ DOMAIN sig = 1 .. n
        BY <1>1, <2>4
    <3>2. sig[i].past = Moments(Window(sig, i))
        BY <3>1 DEF MonitorInv, PastOf
    <3> QED
        BY <1>7, <2>2, <3>1, <3>2
  <2> QED
      BY <2>3, <2>4
<1>14. CreditOf(late)
  <2> SUFFICES ASSUME NEW i \in 1 .. n + 1
               PROVE  late[i].remaining = 0 <=>
                        \E first \in 1 .. i + 1 : RunCost(late, first, i) >= Budget
      BY <1>7 DEF CreditOf
  <2>1. CASE i = n + 1
    <3>1. late[i].remaining = IF r.reservoir < 0 THEN 0 ELSE r.reservoir
        BY <1>3, <1>7, <2>1 DEF BudgetRemaining
    <3>2. r.reservoir \in Int
        BY <1>3, <1>5
    <3>3. late[i].remaining = 0 <=> r.reservoir <= 0
        BY <3>1, <3>2
    <3>4. r.reservoir <= 0 <=> \E first \in 1 .. n + 2 : Cost(first) >= Budget
        BY <1>2, <1>11, <3>2
    <3>5. i + 1 = n + 2
        BY <1>1, <2>1
    <3> QED
        BY <2>1, <3>3, <3>4, <3>5 DEF Cost
  <2>2. CASE i # n + 1
    <3>1. i \in 1 .. n /\ i \in 0 .. Len(sig) /\ DOMAIN sig = 1 .. n
        BY <1>1, <2>2
    <3>2. sig[i].remaining = 0 <=>
            \E first \in 1 .. i + 1 : RunCost(sig, first, i) >= Budget
        BY <3>1 DEF MonitorInv, CreditOf
    <3>3. \A first \in 1 .. i + 1 : RunCost(late, first, i) = RunCost(sig, first, i)
        BY <1>1, <1>6, <3>1, RunCostLater DEF late
    <3>4. late[i] = sig[i]
        BY <1>7, <3>1
    <3> QED
        BY <3>2, <3>3, <3>4
  <2> QED
      BY <2>1, <2>2
<1>15. r.reservoir \in Int
    BY <1>3, <1>5
<1>16. MonitorInv(r, late)
    BY <1>7, <1>8, <1>12, <1>13, <1>14, <1>15 DEF MonitorInv
<1> QED
    BY <1>16 DEF r, late, x

-----------------------------------------------------------------------------
(* The inductive invariant *)

TaskState ==
    [pc : {"idle", "index", "readkey", "generate", "embed", "store", "observe"},
     key : Key \cup {None}, value : Value \cup {None}, id : BeliefId \cup {None},
     about : Key \cup {None}, raw : Seq(Topic), entries : Seq(Topic \cup {None})]

TasksInv ==
    /\ task \in [Task -> TaskState]
    /\ \A t \in Task : /\ task[t].pc # "idle" => task[t].id \in BeliefId /\ task[t].key \in Key
                       /\ task[t].pc = "embed" => task[t].raw # <<>>

Listed(list) == list \in Seq({list[i] : i \in DOMAIN list})
QuadsInv ==
    /\ WellFormed(quad) /\ Listed(checkpoints)
    /\ \A i \in DOMAIN checkpoints : WellFormed(checkpoints[i].quad)

IndexInv == keyIndex \in [DOMAIN keyIndex -> BeliefId] /\ DOMAIN keyIndex \subseteq Key

Inv == TasksInv /\ QuadsInv /\ IndexInv /\ MonitorInv(monitor, signals)

LEMMA InitInv == Init => Inv
<1> SUFFICES ASSUME Init PROVE Inv
    OBVIOUS
<1>1. TasksInv
  <2>1. Idle \in TaskState
      BY DEF Idle, TaskState
  <2>2. Idle.pc = "idle"
      BY DEF Idle
  <2> HIDE DEF Idle
  <2> QED
      BY <2>1, <2>2 DEF Init, TasksInv
<1>2. WellFormed(quad)
    BY PipelineAssumption DEF Init
<1>3. QuadsInv
  <2>1. Listed(<<>>)
      BY DEF Listed
  <2> QED
      BY <1>2, <2>1 DEF QuadsInv, Init
<1>4. IndexInv
  <2> DEFINE K == {quad.nodes[id].key : id \in Live(quad)}
  <2>1. K \subseteq Key
      BY <1>2, BeliefsOfQuad
  <2>2. ASSUME NEW k \in K
        PROVE  (CHOOSE id \in Holders(quad, k) : TRUE) \in BeliefId
    <3>1. Holders(quad, k) # {} /\ Holders(quad, k) \subseteq BeliefId
        BY <1>2, BeliefsOfQuad DEF Holders
    <3> QED
        BY <3>1
  <2>3. keyIndex = [k \in K |-> CHOOSE id \in Holders(quad, k) : TRUE]
      BY DEF Init
  <2> HIDE DEF K
  <2> QED
      BY <2>1, <2>2, <2>3 DEF IndexInv
<1>5. MonitorInv(monitor, signals)
    BY NewMonitorInv DEF Init
<1> QED
    BY <1>1, <1>3, <1>4, <1>5 DEF Inv

LEMMA InsertNodeKeeps ==
    ASSUME Inv, NEW t \in Task, NEW node \in Inserted, InsertNode(t, node)
    PROVE  Inv' /\ NoneGoesStale(quad, quad')
<1>1. node \in Node /\ node.key \in Key /\ node.value \in Value
    BY PipelineAssumption DEF Node
<1>2. /\ WellFormed(quad') /\ NoneGoesStale(quad, quad') /\ NextId(quad) \in BeliefId
    BY <1>1, InsertWellFormed DEF Inv, QuadsInv, InsertNode
<1>3. TasksInv'
  <2> DEFINE new == [Idle EXCEPT !.pc = "index", !.id = NextId(quad),
                                 !.key = node.key, !.value = node.value]
  <2>1. new \in TaskState /\ new.pc = "index" /\ new.id \in BeliefId /\ new.key \in Key
    <3>1. Idle \in TaskState
        BY DEF Idle, TaskState
    <3> HIDE DEF Idle
    <3> QED
        BY <1>1, <1>2, <3>1 DEF TaskState
  <2>2. task' = [task EXCEPT ![t] = new]
      BY DEF InsertNode
  <2> HIDE DEF new
  <2> QED
      BY <2>1, <2>2 DEF Inv, TasksInv
<1> QED
    BY <1>2, <1>3 DEF Inv, InsertNode, QuadsInv, IndexInv

LEMMA IndexKeyKeeps ==
    ASSUME Inv, NEW t \in Task, IndexKey(t)
    PROVE  Inv' /\ quad' = quad
<1>1. task[t] \in TaskState /\ task[t].id \in BeliefId /\ task[t].key \in Key
    BY DEF Inv, TasksInv, IndexKey
<1>2. TasksInv'
  <2> DEFINE pc == IF task[t].key \in Prospected THEN "readkey" ELSE "observe"
  <2>1. task' = [task EXCEPT ![t].pc = pc] /\ pc \in {"readkey", "observe"}
      BY DEF IndexKey, Goto
  <2> HIDE DEF pc
  <2> QED
      BY <1>1, <2>1 DEF Inv, TasksInv, TaskState
<1>3. IndexInv'
    BY <1>1 DEF Inv, IndexInv, IndexKey
<1> QED
    BY <1>2, <1>3 DEF Inv, IndexKey, QuadsInv

LEMMA ReadKeyKeeps ==
    ASSUME Inv, NEW t \in Task, ReadKey(t)
    PROVE  Inv' /\ quad' = quad
<1>1. task[t] \in TaskState /\ task[t].id \in BeliefId /\ task[t].key \in Key
    BY DEF Inv, TasksInv, ReadKey
<1>2. TasksInv'
  <2> DEFINE key == IF task[t].id \in Live(quad) THEN quad.nodes[task[t].id].key ELSE None
  <2>1. key \in Key \cup {None}
      BY BeliefsOfQuad DEF Inv, QuadsInv
  <2>2. task' = [task EXCEPT ![t].pc = "generate", ![t].about = key]
      BY DEF ReadKey
  <2> HIDE DEF key
  <2> QED
      BY <1>1, <2>1, <2>2 DEF Inv, TasksInv, TaskState
<1> QED
    BY <1>2 DEF Inv, ReadKey, QuadsInv, IndexInv

LEMMA GenerateKeeps ==
    ASSUME Inv, NEW t \in Task, Generate(t)
    PROVE  Inv' /\ quad' = quad
<1>1. task[t] \in TaskState /\ task[t].id \in BeliefId /\ task[t].key \in Key
    BY DEF Inv, TasksInv, Generate
<1>2. TasksInv'
  <2>1. PICK raw \in GenerateScenarios :
          IF raw = None THEN Goto(t, "observe")
          ELSE task' = [task EXCEPT ![t].pc = IF raw = <<>> THEN "store" ELSE "embed",
                                    ![t].raw = raw]
      BY DEF Generate
  <2>2. CASE raw = None
    <3>1. task' = [task EXCEPT ![t].pc = "observe"]
        BY <2>1, <2>2 DEF Goto
    <3> QED
        BY <1>1, <3>1 DEF Inv, TasksInv, TaskState
  <2>3. CASE raw # None
    <3>1. raw \in Seq(Topic)
        BY <2>3, PipelineAssumption DEF GenerateScenarios
    <3> DEFINE pc == IF raw = <<>> THEN "store" ELSE "embed"
    <3>2. /\ task' = [task EXCEPT ![t].pc = pc, ![t].raw = raw]
          /\ pc \in {"store", "embed"} /\ (pc = "embed" => raw # <<>>)
        BY <2>1, <2>3
    <3> HIDE DEF pc
    <3> QED
        BY <1>1, <3>1, <3>2 DEF Inv, TasksInv, TaskState
  <2> QED
      BY <2>2, <2>3
<1> QED
    BY <1>2 DEF Inv, Generate, QuadsInv, IndexInv

LEMMA EmbedScenarioKeeps ==
    ASSUME Inv, NEW t \in Task, EmbedScenario(t)
    PROVE  Inv' /\ quad' = quad
<1>1. /\ task[t] \in TaskState /\ task[t].id \in BeliefId /\ task[t].key \in Key
      /\ task[t].raw \in Seq(Topic) /\ task[t].raw # <<>>
      /\ task[t].entries \in Seq(Topic \cup {None})
    BY DEF Inv, TasksInv, EmbedScenario, TaskState
<1>2. TasksInv'
  <2> DEFINE raw == task[t].raw
             rest == Tail(raw)
             pc == IF rest = <<>> THEN "store" ELSE "embed"
  <2>1. PICK vector \in {Head(raw), None} :
          task' = [task EXCEPT ![t].pc = pc, ![t].raw = rest,
                               ![t].entries = Append(task[t].entries, vector)]
      BY DEF EmbedScenario, Inv, TasksInv, TaskState
  <2>2. rest \in Seq(Topic) /\ vector \in Topic \cup {None}
      BY <1>1
  <2>3. Append(task[t].entries, vector) \in Seq(Topic \cup {None})
      BY <1>1, <2>2
  <2>4. pc \in {"store", "embed"} /\ (pc = "embed" => rest # <<>>)
      OBVIOUS
  <2> DEFINE entries == Append(task[t].entries, vector)
  <2> HIDE DEF raw, rest, pc, entries
  <2> QED
      BY <1>1, <2>1, <2>2, <2>3, <2>4 DEF Inv, TasksInv, TaskState, entries
<1> QED
    BY <1>2 DEF Inv, EmbedScenario, QuadsInv, IndexInv


\* A late store concerns the one belief the task inserted.
LEMMA StoreScenariosKeeps ==
    ASSUME Inv, NEW t \in Task, StoreScenarios(t)
    PROVE  /\ Inv'
           /\ task[t].pc = "store" /\ task'[t].pc = "observe"
           /\ \A id \in DOMAIN quad'.prospective :
                id # task[t].id => (Stale(quad', id) => Stale(quad, id))
<1>1. /\ task[t] \in TaskState /\ task[t].id \in BeliefId /\ task[t].key \in Key
      /\ task[t].entries \in Seq(Topic \cup {None})
    BY DEF Inv, TasksInv, StoreScenarios, TaskState
<1>2. TasksInv' /\ task[t].pc = "store" /\ task'[t].pc = "observe"
  <2>1. task' = [task EXCEPT ![t].pc = "observe"]
      BY DEF StoreScenarios, Goto
  <2> QED
      BY <1>1, <2>1 DEF Inv, TasksInv, TaskState, StoreScenarios
<1> DEFINE i0 == task[t].id
           stored == [key |-> task[t].about, value |-> task[t].value,
                      entries |-> task[t].entries]
           prospective == [id \in DOMAIN quad.prospective \cup {i0} |->
                             IF id = i0 THEN stored ELSE quad.prospective[id]]
<1>3. quad' = [quad EXCEPT !.prospective = prospective]
    BY DEF StoreScenarios
<1>4. stored.entries \in Seq(Topic \cup {None})
    BY <1>1
<1>5. WellFormed(quad)
    BY DEF Inv, QuadsInv
<1> HIDE DEF stored
<1>6. \A id \in DOMAIN prospective : prospective[id].entries \in Seq(Topic \cup {None})
    BY <1>4, <1>5 DEF WellFormed
<1>7. \A id \in DOMAIN prospective \ {i0} :
        id \in DOMAIN quad.prospective /\ prospective[id] = quad.prospective[id]
    OBVIOUS
<1> HIDE DEF prospective, i0
<1>8. /\ quad' = Fields(quad') /\ quad'.prospective = prospective
      /\ WithoutIndex(quad') = WithoutIndex(quad) /\ quad'.nodes = quad.nodes
  <2>1. quad = Fields(quad)
      BY <1>5 DEF WellFormed, Fields
  <2>2. quad' = [nodes |-> quad.nodes, gens |-> quad.gens, free |-> quad.free,
                 graphs |-> quad.graphs, prospective |-> prospective,
                 equivalent |-> quad.equivalent, version |-> quad.version]
      BY <1>3, <2>1 DEF Fields
  <2> QED
      BY <2>2 DEF Fields, WithoutIndex
<1>9. WellFormed(quad')
    BY <1>5, <1>6, <1>8 DEF WellFormed, Fields
<1>10. \A id \in DOMAIN quad'.prospective :
         id # i0 => (Stale(quad', id) => Stale(quad, id))
    BY <1>7, <1>8 DEF Stale, Live
<1>11. Inv'
    BY <1>2, <1>9 DEF Inv, StoreScenarios, QuadsInv, IndexInv
<1> QED
    BY <1>2, <1>10, <1>11 DEF i0

LEMMA ObserveInsertKeeps ==
    ASSUME Inv, NEW t \in Task, ObserveInsert(t)
    PROVE  Inv' /\ quad' = quad
<1>1. TasksInv'
  <2>1. Idle \in TaskState
      BY DEF Idle, TaskState
  <2>2. Idle.pc = "idle"
      BY DEF Idle
  <2> HIDE DEF Idle
  <2> QED
      BY <2>1, <2>2 DEF Inv, TasksInv, ObserveInsert
<1>2. MonitorInv(monitor', signals')
  <2>1. CASE task[t].id \notin Live(quad)
      BY <2>1 DEF Inv, ObserveInsert
  <2>2. CASE task[t].id \in Live(quad)
    <3> DEFINE f == QuadFreeEnergy(quad, quad.nodes[task[t].id])
               seen == Observe(monitor, f)
    <3>1. quad.nodes[task[t].id] \in Node
        BY <2>2, BeliefsOfQuad DEF Inv, QuadsInv
    <3>2. f \in Nat
        BY <3>1, FreeEnergyType DEF Inv, QuadsInv
    <3>3. monitor' = seen.monitor /\ signals' = Append(signals, seen.signal)
        BY <2>2 DEF ObserveInsert
    <3>4. MonitorInv(monitor, signals)
        BY DEF Inv
    <3> HIDE DEF f
    <3>5. MonitorInv(seen.monitor, Append(signals, seen.signal))
        BY <3>2, <3>4, ObserveKeeps
    <3> HIDE DEF seen
    <3> QED
        BY <3>3, <3>5
  <2> QED
      BY <2>1, <2>2
<1> QED
    BY <1>1, <1>2 DEF Inv, ObserveInsert, QuadsInv, IndexInv

LEMMA UpdateBeliefKeeps ==
    ASSUME Inv, NEW k \in Key, NEW v \in Value, NEW c \in ConfIn, UpdateBelief(k, v, c)
    PROVE  Inv' /\ NoneGoesStale(quad, quad')
<1>1. PICK out \in Revise(quad, keyIndex[k], v, c) :
        IF out.result \in {"BeliefNotFound", "PostulateViolation"}
        THEN quad' = out.quad
        ELSE quad' \in Propagate(out.quad, [id \in Live(out.quad) |-> Scale], keyIndex[k])
    BY DEF UpdateBelief
<1>2. keyIndex[k] \in BeliefId /\ c \in Int /\ WellFormed(quad)
    BY PipelineAssumption DEF Inv, IndexInv, QuadsInv, UpdateBelief
<1>3. WellFormed(out.quad) /\ NoneGoesStale(quad, out.quad)
    BY <1>1, <1>2, ReviseWellFormed
<1>4. CASE out.result \in {"BeliefNotFound", "PostulateViolation"}
  <2>1. WellFormed(quad') /\ NoneGoesStale(quad, quad')
      BY <1>1, <1>3, <1>4
  <2> QED
      BY <2>1 DEF Inv, TasksInv, UpdateBelief, QuadsInv, IndexInv
<1>5. CASE out.result \notin {"BeliefNotFound", "PostulateViolation"}
  <2>1. quad' \in Propagate(out.quad, [id \in Live(out.quad) |-> Scale], keyIndex[k])
      BY <1>1, <1>5
  <2>2. WellFormed(quad') /\ NoneGoesStale(out.quad, quad')
      BY <1>2, <1>3, <2>1, PropagateWellFormed
  <2>3. NoneGoesStale(quad, quad')
      BY <1>3, <2>2 DEF NoneGoesStale, Stale
  <2> QED
      BY <2>2, <2>3 DEF Inv, TasksInv, UpdateBelief, QuadsInv, IndexInv
<1> QED
    BY <1>4, <1>5

LEMMA TakeCheckpointKeeps ==
    ASSUME Inv, TakeCheckpoint
    PROVE  Inv' /\ quad' = quad
<1> DEFINE cp == [id |-> changes, quad |-> quad]
           all == {checkpoints[i] : i \in DOMAIN checkpoints} \cup {cp}
<1>1. checkpoints' = Append(checkpoints, cp) /\ cp.quad = quad
    BY DEF TakeCheckpoint
<1>2. checkpoints \in Seq(all)
  <2>1. Listed(checkpoints)
      BY DEF Inv, QuadsInv
  <2> QED
      BY <2>1 DEF Listed
<1> HIDE DEF all, cp
<1>3. /\ Len(checkpoints) \in Nat /\ DOMAIN checkpoints' = 1 .. Len(checkpoints) + 1
      /\ \A i \in DOMAIN checkpoints : checkpoints'[i] = checkpoints[i]
      /\ checkpoints'[Len(checkpoints) + 1] = cp
      /\ DOMAIN checkpoints = 1 .. Len(checkpoints)
  <2>1. cp \in all
      BY DEF all
  <2> QED
      BY <1>1, <1>2, <2>1
<1>4. Listed(checkpoints')
  <2> DEFINE later == {checkpoints'[i] : i \in DOMAIN checkpoints'}
  <2>1. checkpoints' \in [1 .. Len(checkpoints) + 1 -> later]
    <3>1. checkpoints' \in Seq(all)
      <4>1. cp \in all
          BY DEF all
      <4> QED
          BY <1>1, <1>2, <4>1
    <3> QED
        BY <1>3, <3>1
  <2> HIDE DEF later
  <2>2. Len(checkpoints) + 1 \in Nat
      BY <1>3
  <2>3. checkpoints' \in Seq(later)
      BY <2>1, <2>2, FunctionIsSeq
  <2> QED
      BY <2>3 DEF Listed, later
<1>5. \A i \in DOMAIN checkpoints' : WellFormed(checkpoints'[i].quad)
  <2> SUFFICES ASSUME NEW i \in DOMAIN checkpoints'
               PROVE  WellFormed(checkpoints'[i].quad)
      OBVIOUS
  <2>1. i \in DOMAIN checkpoints \/ i = Len(checkpoints) + 1
      BY <1>3
  <2> QED
      BY <1>1, <1>3, <2>1 DEF Inv, QuadsInv
<1> QED
    BY <1>4, <1>5 DEF Inv, TasksInv, TakeCheckpoint, QuadsInv, IndexInv

\* A rollback ends in the quad as it is or in a checkpoint's.
LEMMA RollbackToKeeps ==
    ASSUME Inv, NEW cp, RollbackTo(cp)
    PROVE  Inv' /\ (quad' = quad \/ quad' \in Snapshots)
<1> DEFINE out == Rollback(quad, checkpoints, cp)
<1>1. \/ out.quad = quad /\ out.checkpoints = checkpoints
      \/ out.checkpoints = <<>> /\ \E i \in DOMAIN checkpoints : out.quad = checkpoints[i].quad
    BY RollbackOutcome
<1>2. quad' = out.quad /\ checkpoints' = out.checkpoints
    BY DEF RollbackTo
<1> HIDE DEF out
<1>3. QuadsInv' /\ (quad' = quad \/ quad' \in Snapshots)
  <2>1. CASE out.quad = quad /\ out.checkpoints = checkpoints
      BY <1>2, <2>1 DEF Inv, QuadsInv
  <2>2. CASE /\ out.checkpoints = <<>>
             /\ \E i \in DOMAIN checkpoints : out.quad = checkpoints[i].quad
    <3>1. Listed(<<>>)
        BY DEF Listed
    <3>2. WellFormed(quad') /\ quad' \in Snapshots
        BY <1>2, <2>2 DEF Inv, QuadsInv, Snapshots
    <3> QED
        BY <1>2, <2>2, <3>1, <3>2 DEF QuadsInv
  <2> QED
      BY <1>1, <2>1, <2>2
<1> QED
    BY <1>3 DEF Inv, TasksInv, RollbackTo, IndexInv

LEMMA ResetMonitorKeeps ==
    ASSUME Inv, ResetMonitor
    PROVE  Inv' /\ quad' = quad
<1>1. MonitorInv(monitor', signals')
    BY NewMonitorInv DEF ResetMonitor
<1> QED
    BY <1>1 DEF Inv, TasksInv, ResetMonitor, QuadsInv, IndexInv

LateOrRestored ==
    \A id \in DOMAIN quad'.prospective :
      (Stale(quad', id) /\ ~Stale(quad, id)) =>
        \/ \E t \in Task : task[t].pc = "store" /\ task'[t].pc = "observe" /\ task[t].id = id
        \/ \E s \in Snapshots : Stale(s, id)

LEMMA NextKeeps ==
    ASSUME Inv, Next
    PROVE  Inv' /\ LateOrRestored
<1>1. CASE \E t \in Task, node \in Inserted : InsertNode(t, node)
    BY <1>1, InsertNodeKeeps DEF LateOrRestored, NoneGoesStale
<1>2. ASSUME NEW t \in Task, Proceed(t) PROVE Inv' /\ LateOrRestored
  <2>1. CASE StoreScenarios(t)
    <3>1. /\ Inv' /\ task[t].pc = "store" /\ task'[t].pc = "observe"
          /\ \A id \in DOMAIN quad'.prospective :
               id # task[t].id => (Stale(quad', id) => Stale(quad, id))
        BY <2>1, StoreScenariosKeeps
    <3> QED
        BY <3>1 DEF LateOrRestored
  <2>2. CASE ~StoreScenarios(t)
    <3>1. Inv' /\ quad' = quad
        BY <1>2, <2>2, IndexKeyKeeps, ReadKeyKeeps, GenerateKeeps, EmbedScenarioKeeps,
           ObserveInsertKeeps DEF Proceed
    <3> QED
        BY <3>1 DEF LateOrRestored, Stale
  <2> QED
      BY <2>1, <2>2
<1>3. CASE \E k \in Key, v \in Value, c \in ConfIn : UpdateBelief(k, v, c)
    BY <1>3, UpdateBeliefKeeps DEF LateOrRestored, NoneGoesStale
<1>4. CASE TakeCheckpoint
    BY <1>4, TakeCheckpointKeeps DEF LateOrRestored, Stale
<1>5. CASE \E i \in DOMAIN checkpoints : RollbackTo(checkpoints[i].id)
  <2>1. Inv' /\ (quad' = quad \/ quad' \in Snapshots)
      BY <1>5, RollbackToKeeps
  <2> QED
      BY <2>1 DEF LateOrRestored, Stale
<1>6. CASE ResetMonitor
    BY <1>6, ResetMonitorKeeps DEF LateOrRestored, Stale
<1> QED
    BY <1>1, <1>2, <1>3, <1>4, <1>5, <1>6 DEF Next


-----------------------------------------------------------------------------
(* Queries *)

LEMMA SimilarityType ==
    ASSUME Inv, NEW id, NEW query \in Query
    PROVE  MaxProspectiveSim(id, query) \in Int
<1> DEFINE near == {Similarity[topic, query] :
                      topic \in Range(quad.prospective[id].entries) \ {None}}
           all == {0} \cup near
<1>0. MaxProspectiveSim(id, query) =
        IF query = None \/ id \notin DOMAIN quad.prospective THEN 0 ELSE Max(all)
    BY Zenon DEF MaxProspectiveSim
<1> HIDE DEF all, near
<1>1. CASE query = None \/ id \notin DOMAIN quad.prospective
    BY <1>0, <1>1
<1>2. CASE query # None /\ id \in DOMAIN quad.prospective
  <2> DEFINE s == quad.prospective[id].entries
             topics == Range(s) \ {None}
  <2>1. s \in Seq(Topic \cup {None})
      BY <1>2 DEF Inv, QuadsInv, WellFormed
  <2>2. s \in [1 .. Len(s) -> Topic \cup {None}] /\ Len(s) \in Nat
      BY <2>1
  <2>3. topics \subseteq Topic
      BY <2>2 DEF Range
  <2>4. query \in Topic
      BY <1>2, PipelineAssumption
  <2> HIDE DEF topics
  <2>5. all \subseteq -Scale .. Scale /\ Scale \in Nat
    <3>1. \A topic \in Topic : Similarity[topic, query] \in -Scale .. Scale
        BY <2>4, PipelineAssumption
    <3>2. near \subseteq -Scale .. Scale
        BY <2>3, <3>1 DEF topics, near
    <3>3. Scale \in Nat /\ 0 \in -Scale .. Scale
        BY QuadAssumption
    <3> QED
        BY <3>2, <3>3 DEF all
  <2>6. all # {}
      BY DEF all
  <2>7. Max(all) \in all
    <3> DEFINE T == {Scale - c : c \in all}
    <3>1. T \in SUBSET Nat /\ T # {}
      <4>1. \A c \in all : c \in -Scale .. Scale
          BY <2>5
      <4>2. \A c \in all : Scale - c \in Nat
          BY <2>5, <4>1
      <4> QED
          BY <2>6, <4>2
    <3>2. PICK m \in T : \A k \in T : m <= k
      <4> HIDE DEF T
      <4> QED
          BY <3>1, Least
    <3>3. PICK c \in all : m = Scale - c
        BY <3>2
    <3>4. \A d \in all : Scale - d \in T
        OBVIOUS
    <3> HIDE DEF T
    <3>5. \A d \in all : c >= d
        BY <2>5, <3>2, <3>3, <3>4
    <3> QED
        BY <3>3, <3>5 DEF Max
  <2>8. Max(all) \in Int
    <3> DEFINE m == Max(all)
    <3>1. m \in all
        BY <2>7
    <3> HIDE DEF m
    <3>2. m \in -Scale .. Scale
        BY <2>5, <3>1
    <3>3. m \in Int
        BY <3>2
    <3> QED
        BY <3>3 DEF m
  <2> QED
      BY <1>0, <1>2, <2>8
<1> QED
    BY <1>1, <1>2

\* Any set of the quad's beliefs can be ranked: no two live beliefs share a
\* slot of the arena.
LEMMA BeliefsRankable ==
    ASSUME Inv, NEW ids \in SUBSET Live(quad), NEW query \in Query,
           NEW standing \in Standings
    PROVE  LET scores == Scores(ids, query, standing)
           IN  DOMAIN scores = ids /\ Rankable(ids, scores)
<1> DEFINE scores == Scores(ids, query, standing)
<1>1. WellFormed(quad)
    BY DEF Inv, QuadsInv
<1>2. IsFiniteSet(ids) /\ ids \subseteq BeliefId
    BY <1>1, BeliefsOfQuad, FS_Subset
<1>3. ASSUME NEW a \in ids, NEW b \in ids, Slot(a) = Slot(b) PROVE a = b
  <2>1. a[2] = b[2]
    <3>1. ArenaSound(WithoutIndex(quad)) /\ Live(WithoutIndex(quad)) = Live(quad)
        BY <1>1 DEF WellFormed, QuadInv, WithoutIndex, Live
    <3> DEFINE gens == WithoutIndex(quad).gens
    <3>2. \A id \in Live(quad) : id[2] = gens[Slot(id)]
        BY <3>1 DEF ArenaSound
    <3> HIDE DEF gens
    <3> QED
        BY <1>3, <3>2
  <2>2. a \in BeliefId /\ b \in BeliefId
      BY <1>2
  <2> QED
      BY <1>3, <2>1, <2>2 DEF BeliefId, Slot
<1>4. ASSUME NEW id \in ids PROVE Score(id, query, standing) \in Int
  <2>1. MaxProspectiveSim(id, query) \in Int
      BY SimilarityType
  <2>2. quad.nodes[id].fast \in Int
    <3>1. quad.nodes[id].fast \in Conf
        BY <1>1, BeliefsOfQuad
    <3> QED
        BY <3>1, QuadAssumption DEF Conf
  <2> DEFINE rest == IF Slot(id) \in DOMAIN standing THEN standing[Slot(id)] ELSE 0
  <2>3. rest \in Int
    <3>1. standing \in [DOMAIN standing -> Int]
        BY PipelineAssumption
    <3> QED
        BY <3>1
  <2>4. Scale \in Int
      BY QuadAssumption
  <2>5. Score(id, query, standing) =
          45 * MaxProspectiveSim(id, query) + 25 * (Scale - quad.nodes[id].fast) + rest
      BY DEF Score
  <2> HIDE DEF rest
  <2> QED
      BY <2>1, <2>2, <2>3, <2>4, <2>5
<1>5. scores = [id \in ids |-> Score(id, query, standing)]
    BY DEF Scores
<1> QED
    BY <1>2, <1>3, <1>4, <1>5 DEF Rankable

LEMMA AllowedBounds ==
    ASSUME NEW b \in Nat
    PROVE  /\ Allowed(b) \in Nat \ {0}
           /\ \A more \in Nat : b <= more => Allowed(b) <= Allowed(more)
<1>1. \A n \in Nat : n \div 100 \in Nat
    OBVIOUS
<1>2. \A n \in Nat : Allowed(n) = IF n \div 100 >= 1 THEN n \div 100 ELSE 1
    BY <1>1, MaxOfTwo DEF Allowed
<1>3. \A more \in Nat : b <= more => b \div 100 <= more \div 100
    OBVIOUS
<1> QED
    BY <1>1, <1>2, <1>3

Open(expired) == Live(quad) \ expired
Ranking(query, expired, standing) == Ranked(Scores(Open(expired), query, standing))
Places(expired, b) ==
    LET n == Cardinality(Open(expired)) IN IF n <= Allowed(b) THEN n ELSE Allowed(b)

\* The first m places of a ranking of the open beliefs.
TopOf(answer, open, ranking, m, b) ==
    /\ Cardinality(open) \in Nat /\ m \in Nat /\ m <= Cardinality(open)
    /\ m = Min({Cardinality(open), Allowed(b)})
    /\ answer \in [1 .. m -> open]
    /\ \A i \in 1 .. m : answer[i] = ranking[i]

\* An answer is as much of the ranking as the budget allows.
LEMMA AnswerOf ==
    ASSUME Inv, NEW query \in Query, NEW b \in Nat, NEW standing \in Standings, NEW expired
    PROVE  TopOf(Retrieve(query, b, expired, standing), Open(expired),
                 Ranking(query, expired, standing), Places(expired, b), b)
<1> DEFINE open   == Open(expired)
           scores == Scores(open, query, standing)
           R      == Ranking(query, expired, standing)
           n      == Cardinality(open)
           m      == Places(expired, b)
           answer == Retrieve(query, b, expired, standing)
<1>1. DOMAIN scores = open /\ Rankable(open, scores)
    BY BeliefsRankable DEF Open
<1>2. n \in Nat /\ R \in [1 .. n -> open]
  <2>1. R = Ranked(scores)
      BY DEF Ranking
  <2> HIDE DEF scores, open, R
  <2> QED
      BY <1>1, <2>1, RankedOrder
<1>3. Allowed(b) \in Nat
    BY AllowedBounds
<1>4. Len(R) = n
  <2> HIDE DEF R, n, open
  <2>1. R \in Seq(open)
      BY <1>2, FunctionIsSeq
  <2> QED
      BY <1>2, <2>1
<1>5. answer = [i \in 1 .. Min({Len(R), Allowed(b)}) |-> R[i]]
    BY DEF Retrieve, Ranking, Open
<1>6. m = IF n <= Allowed(b) THEN n ELSE Allowed(b)
    BY DEF Places
<1>7. Min({n, Allowed(b)}) = m
  <2> HIDE DEF n, m
  <2> QED
      BY <1>2, <1>3, <1>6, MinOfTwo
<1> HIDE DEF R, n, answer, open, m
<1>8. answer = [i \in 1 .. m |-> R[i]]
    BY <1>4, <1>5, <1>7
<1>9. m \in Nat /\ m <= n
    BY <1>2, <1>3, <1>6
<1>10. answer \in [1 .. m -> open] /\ \A i \in 1 .. m : answer[i] = R[i]
    BY <1>2, <1>8, <1>9
<1> QED
    BY <1>2, <1>7, <1>9, <1>10 DEF answer, R, n, open, m, TopOf

\* The first answer of two is a prefix of the second.
LEMMA PrefixOf ==
    ASSUME NEW S, NEW s \in Seq(S), NEW t \in Seq(S), Len(s) <= Len(t),
           \A i \in 1 .. Len(s) : s[i] = t[i]
    PROVE  IsPrefix(s, t)
<1> DEFINE n == Len(s)
           a == SubSeq(s, 1, n)
           c == SubSeq(t, 1, n)
<1>1. n \in Nat /\ n <= Len(t)
    OBVIOUS
<1>2. /\ a \in Seq(S) /\ Len(a) = n /\ c \in Seq(S) /\ Len(c) = n
      /\ \A i \in 1 .. n : a[i] = s[i] /\ c[i] = t[i]
    BY <1>1
<1> HIDE DEF a, c
<1>3. a = c
    BY <1>2, SequencesEqual
<1> QED
    BY <1>1, <1>3 DEF IsPrefix, a, c

BestOf(answer, open, query, standing, b) ==
    LET score(id) == Score(id, query, standing)
    IN  /\ Range(answer) \subseteq open /\ IsInjective(answer)
        /\ Len(answer) = Min({Cardinality(open), Allowed(b)})
        /\ \A i \in DOMAIN answer \ {1} : score(answer[i - 1]) >= score(answer[i])
        /\ \A out \in open \ Range(answer) : score(out) <= score(Last(answer))

\* One query's answer under one budget.
LEMMA AnswerRanked ==
    ASSUME Inv, NEW query \in Query, NEW standing \in Standings, NEW expired,
           NEW b \in Nat, NEW answer, answer = Retrieve(query, b, expired, standing)
    PROVE  BestOf(answer, Live(quad) \ expired, query, standing, b)
<1> DEFINE open   == Open(expired)
           scores == Scores(open, query, standing)
           R      == Ranking(query, expired, standing)
           n      == Cardinality(open)
           m      == Places(expired, b)
           score(id) == Score(id, query, standing)
<1>1. /\ n \in Nat /\ m \in Nat /\ m <= n /\ m = Min({n, Allowed(b)})
      /\ answer \in [1 .. m -> open] /\ \A i \in 1 .. m : answer[i] = R[i]
  <2>1. TopOf(answer, open, R, m, b)
      BY AnswerOf
  <2> HIDE DEF open, R, m
  <2> QED
      BY <2>1 DEF TopOf
<1>2. DOMAIN scores = open /\ Rankable(open, scores) /\ R = Ranked(scores)
    BY BeliefsRankable DEF Open, Ranking
<1>3. \A id \in open : scores[id] = score(id)
    BY DEF Scores
<1> HIDE DEF scores
<1>4. /\ R \in [1 .. n -> open] /\ Range(R) = open
      /\ \A i, j \in 1 .. n : i < j => Ahead(scores, R[i], R[j])
      /\ \A i, j \in 1 .. n : R[i] = R[j] => i = j
  <2> HIDE DEF open, R
  <2> QED
      BY <1>2, RankedOrder
<1>5. \A id \in open : scores[id] \in Int
    BY <1>2 DEF Rankable
<1>6. Allowed(b) \in Nat \ {0}
    BY AllowedBounds
<1>7. Len(answer) = m /\ DOMAIN answer = 1 .. m
  <2> HIDE DEF m, open
  <2>1. answer \in Seq(open)
      BY <1>1, FunctionIsSeq
  <2> QED
      BY <1>1, <2>1
<1>8. n = 0 => open = {}
  <2>1. IsFiniteSet(open)
      BY <1>2 DEF Rankable
  <2> QED
      BY <2>1, FS_EmptySet
<1>9. n # 0 => m # 0
    BY <1>1, <1>6 DEF Places
<1> HIDE DEF n, m, R, score, open
<1>10. Range(answer) \subseteq open /\ IsInjective(answer)
  <2>1. Range(answer) \subseteq open
      BY <1>1 DEF Range
  <2>2. \A i \in 1 .. m : i \in 1 .. n
      BY <1>1
  <2>3. \A i, j \in 1 .. m : answer[i] = answer[j] => i = j
    <3> SUFFICES ASSUME NEW i \in 1 .. m, NEW j \in 1 .. m, answer[i] = answer[j]
                 PROVE  i = j
        OBVIOUS
    <3>1. answer[i] = R[i] /\ answer[j] = R[j] /\ i \in 1 .. n /\ j \in 1 .. n
        BY <1>1, <2>2
    <3> QED
        BY <1>4, <3>1
  <2>4. IsInjective(answer)
      BY <1>7, <2>3 DEF IsInjective
  <2> QED
      BY <2>1, <2>4
<1>11. ASSUME NEW i \in 1 .. n, NEW j \in 1 .. n, i < j
       PROVE  score(R[i]) >= score(R[j])
  <2>1. R[i] \in open /\ R[j] \in open /\ Ahead(scores, R[i], R[j])
      BY <1>4, <1>11
  <2>2. scores[R[i]] >= scores[R[j]]
      BY <1>5, <2>1 DEF Ahead
  <2> QED
      BY <1>3, <2>1, <2>2
<1>12. ASSUME NEW i \in DOMAIN answer \ {1}
       PROVE  score(answer[i - 1]) >= score(answer[i])
  <2>1. /\ i \in 1 .. m /\ i - 1 \in 1 .. m /\ i \in 1 .. n /\ i - 1 \in 1 .. n /\ i - 1 < i
      BY <1>1, <1>7
  <2> DEFINE h == i - 1
  <2>2. h \in 1 .. m /\ h \in 1 .. n /\ h < i
      BY <2>1
  <2> HIDE DEF h
  <2>3. score(R[h]) >= score(R[i])
      BY <1>11, <2>1, <2>2
  <2>4. answer[h] = R[h] /\ answer[i] = R[i]
      BY <1>1, <2>1, <2>2
  <2>5. score(answer[h]) >= score(answer[i])
      BY <2>3, <2>4
  <2> QED
      BY <2>5 DEF h
<1>13. ASSUME NEW out \in open \ Range(answer)
       PROVE  score(out) <= score(Last(answer))
  <2>1. m \in 1 .. m /\ m \in 1 .. n /\ Last(answer) = R[m]
    <3>1. m # 0
        BY <1>8, <1>9
    <3>2. m \in 1 .. m /\ m \in 1 .. n
        BY <1>1, <3>1
    <3> QED
        BY <1>1, <1>7, <3>2 DEF Last
  <2>2. PICK j \in 1 .. n : R[j] = out
      BY <1>4 DEF Range
  <2>3. j \notin 1 .. m
    <3> SUFFICES ASSUME j \in 1 .. m PROVE out \in Range(answer)
        OBVIOUS
    <3>1. answer[j] = out
        BY <1>1, <2>2
    <3> QED
        BY <1>7, <3>1 DEF Range
  <2>4. m < j
      BY <1>1, <2>3
  <2>5. score(R[m]) >= score(out)
      BY <1>11, <2>1, <2>2, <2>4
  <2>6. score(R[m]) \in Int /\ score(out) \in Int
    <3>1. R[m] \in open /\ out \in open
        BY <1>4, <2>1
    <3> QED
        BY <1>3, <1>5, <3>1
  <2> QED
      BY <2>1, <2>5, <2>6
<1>14. /\ Range(answer) \subseteq open /\ IsInjective(answer)
       /\ Len(answer) = Min({n, Allowed(b)})
       /\ \A i \in DOMAIN answer \ {1} : score(answer[i - 1]) >= score(answer[i])
       /\ \A out \in open \ Range(answer) : score(out) <= score(Last(answer))
    BY <1>1, <1>7, <1>10, <1>12, <1>13
<1> QED
  <2>1. BestOf(answer, open, query, standing, b)
      BY <1>14, Zenon DEF BestOf, n, score
  <2> HIDE DEF open
  <2> QED
      BY <2>1 DEF open, Open

\* A larger budget only appends.
LEMMA AnswerGrows ==
    ASSUME Inv, NEW query \in Query, NEW standing \in Standings, NEW expired,
           NEW b \in Nat, NEW more \in Nat, b <= more,
           NEW s, s = Retrieve(query, b, expired, standing),
           NEW t, t = Retrieve(query, more, expired, standing)
    PROVE  IsPrefix(s, t)
<1> DEFINE open == Open(expired)
           R    == Ranking(query, expired, standing)
           n    == Cardinality(open)
           one  == Places(expired, b)
           two  == Places(expired, more)
<1>1. /\ n \in Nat /\ one \in Nat
      /\ s \in [1 .. one -> open] /\ \A i \in 1 .. one : s[i] = R[i]
  <2>1. TopOf(s, open, R, one, b)
      BY AnswerOf
  <2> HIDE DEF open, R, one
  <2> QED
      BY <2>1 DEF TopOf
<1>2. /\ two \in Nat
      /\ t \in [1 .. two -> open] /\ \A i \in 1 .. two : t[i] = R[i]
  <2>1. TopOf(t, open, R, two, more)
      BY AnswerOf
  <2> HIDE DEF open, R, two
  <2> QED
      BY <2>1 DEF TopOf
<1>3. Allowed(b) \in Nat /\ Allowed(more) \in Nat /\ Allowed(b) <= Allowed(more)
    BY AllowedBounds
<1> HIDE DEF n, R, open
<1>4. one <= two
    BY <1>1, <1>3 DEF Places, n, open
<1> HIDE DEF one, two
<1>5. s \in Seq(open) /\ Len(s) = one
  <2>1. s \in Seq(open)
      BY <1>1, FunctionIsSeq
  <2> QED
      BY <1>1, <2>1
<1>6. t \in Seq(open) /\ Len(t) = two
  <2>1. t \in Seq(open)
      BY <1>2, FunctionIsSeq
  <2> QED
      BY <1>2, <2>1
<1>7. \A i \in 1 .. one : s[i] = t[i]
    BY <1>1, <1>2, <1>4
<1> QED
    BY <1>4, <1>5, <1>6, <1>7, PrefixOf

-----------------------------------------------------------------------------
(* Theorems *)

LEMMA InvHolds == Spec => []Inv
<1>1. Inv /\ [Next]_vars => Inv'
  <2> SUFFICES ASSUME Inv, [Next]_vars PROVE Inv'
      OBVIOUS
  <2>1. CASE Next
      BY <2>1, NextKeeps
  <2>2. CASE UNCHANGED vars
      BY <2>2 DEF vars, Inv, TasksInv, QuadsInv, IndexInv
  <2> QED
      BY <2>1, <2>2
<1> QED
    BY InitInv, <1>1, PTL DEF Spec

\* The quad, its checkpoints and the index keep their types, and the monitor
\* has counted every signal and remembers at most Capacity energies.
THEOREM TypeCorrect == Spec => []TypeOK
<1>1. Inv => TypeOK
  <2> SUFFICES ASSUME Inv PROVE TypeOK
      OBVIOUS
  <2>1. \A q \in {quad} \cup Snapshots :
          /\ q.nodes \in [Live(q) -> Node]
          /\ \A id \in DOMAIN q.prospective :
               q.prospective[id].entries \in Seq(Topic \cup {None})
    <3>1. \A q \in {quad} \cup Snapshots : WellFormed(q)
        BY DEF Inv, QuadsInv, Snapshots
    <3>2. \A q \in {quad} \cup Snapshots : q.nodes \in [Live(q) -> Node]
        BY <3>1, BeliefsOfQuad
    <3> QED
        BY <3>1, <3>2 DEF WellFormed
  <2>2. /\ monitor.history \in Seq(Nat) /\ Len(monitor.history) <= Capacity
        /\ monitor.observations = Len(signals)
    <3>1. /\ signals \in Seq(Signal) /\ monitor.observations = Len(signals)
          /\ monitor.history = Window(signals, Len(signals) + 1)
        BY DEF Inv, MonitorInv
    <3> DEFINE i == Len(signals) + 1
    <3>2. i \in 1 .. Len(signals) + 1
        BY <3>1
    <3>3. monitor.history = Window(signals, i)
        BY <3>1
    <3> HIDE DEF i
    <3>4. /\ i - Start(i) \in 0 .. Capacity /\ Window(signals, i) \in Seq(Nat)
          /\ Len(Window(signals, i)) = i - Start(i)
        BY <3>1, <3>2, WindowType
    <3>5. Capacity \in Nat
        BY CapacityType
    <3> QED
        BY <3>1, <3>3, <3>4, <3>5
  <2>3. \A t \in Task :
          task[t].pc \in {"idle", "index", "readkey", "generate", "embed", "store", "observe"}
      BY DEF Inv, TasksInv, TaskState
  <2> QED
      BY <2>1, <2>2, <2>3 DEF TypeOK, Inv, IndexInv
<1> QED
    BY InvHolds, <1>1, PTL

\* observe computes its statistics before it pushes, whatever tasks share the
\* monitor and whenever it is reset.
THEOREM SignalsArePast == Spec => []SignalsAboutThePast
<1>1. Inv => SignalsAboutThePast
  <2> SUFFICES ASSUME Inv, NEW i \in DOMAIN signals
               PROVE  LET first == Max({1, i - Capacity})
                      IN  signals[i].past =
                            Moments([j \in 1 .. i - first |-> Energy(first + j - 1)])
      BY DEF SignalsAboutThePast
  <2>1. signals[i].past = Moments(Window(signals, i))
      BY DEF Inv, MonitorInv, PastOf
  <2> QED
      BY <2>1, Zenon DEF Window, Energy
<1> QED
    BY InvHolds, <1>1, PTL

\* The homeostatic credit forgets quiet times and never hides a recent excess.
THEOREM CreditIsExcess == Spec => []CreditIsRecentExcess
<1>1. Inv => CreditIsRecentExcess
  <2> SUFFICES ASSUME Inv, NEW i \in DOMAIN signals
               PROVE  signals[i].remaining = 0 <=>
                        \E first \in 1 .. i + 1 :
                          SumOf([j \in 1 .. i - first + 1 |->
                                   Energy(first + j - 1) - Refill]) >= Budget
      BY DEF CreditIsRecentExcess
  <2>1. signals[i].remaining = 0 <=>
          \E first \in 1 .. i + 1 : RunCost(signals, first, i) >= Budget
      BY DEF Inv, MonitorInv, CreditOf
  <2> QED
      BY <2>1, Zenon DEF RunCost, Energy
<1> QED
    BY InvHolds, <1>1, PTL

\* What RetrievalRanked asks of one answer.
RankedAnswer(query, standing, expired, b, answer) ==
    LET open     == Live(quad) \ expired
        score(id) == Score(id, query, standing)
    IN  /\ Range(answer) \subseteq open /\ IsInjective(answer)
        /\ Len(answer) = Min({Cardinality(open), Allowed(b)})
        /\ \A i \in DOMAIN answer \ {1} : score(answer[i - 1]) >= score(answer[i])
        /\ \A out \in open \ Range(answer) : score(out) <= score(Last(answer))
        /\ \A more \in Budgets :
             more > b => IsPrefix(answer, Retrieve(query, more, expired, standing))

\* retrieve_for_query filters the expired beliefs before it takes the best.
THEOREM RetrievalIsRanked == Spec => []RetrievalRanked
<1>1. ASSUME Inv, NEW query \in Query, NEW standing \in Standings, NEW expired,
             NEW b \in Budgets, NEW answer, answer = Retrieve(query, b, expired, standing)
      PROVE  RankedAnswer(query, standing, expired, b, answer)
  <2> DEFINE open     == Live(quad) \ expired
             score(id) == Score(id, query, standing)
  <2>1. b \in Nat /\ Budgets \subseteq Nat
      BY PipelineAssumption
  <2>2. BestOf(answer, open, query, standing, b)
      BY <1>1, <2>1, AnswerRanked
  <2>3. ASSUME NEW more \in Budgets, more > b
        PROVE  IsPrefix(answer, Retrieve(query, more, expired, standing))
    <3>1. more \in Nat /\ b <= more
        BY <2>1, <2>3
    <3> QED
        BY <1>1, <2>1, <3>1, AnswerGrows
  <2> HIDE DEF open, score
  <2> QED
      BY <2>2, <2>3, Zenon DEF RankedAnswer, BestOf, open, score
<1>2. ASSUME Inv
      PROVE  \A query \in Query, standing \in Standings,
                expired \in {{}} \cup {Holders(quad, k) : k \in Perishable} :
               \A b \in Budgets : \A answer \in {Retrieve(query, b, expired, standing)} :
                 RankedAnswer(query, standing, expired, b, answer)
  <2> TAKE query \in Query, standing \in Standings,
           expired \in {{}} \cup {Holders(quad, k) : k \in Perishable}
  <2> TAKE b \in Budgets
  <2> TAKE answer \in {Retrieve(query, b, expired, standing)}
  <2>1. answer = Retrieve(query, b, expired, standing)
      OBVIOUS
  <2> QED
      BY <1>1, <1>2, <2>1, Zenon
<1>3. Inv => RetrievalRanked
    BY <1>2, Zenon DEF RetrievalRanked, RankedAnswer
<1> QED
    BY InvHolds, <1>3, PTL

\* Only the write section at the end of insert_belief leaves scenarios of a
\* value that the belief no longer has.
THEOREM StaleFromLateStore == Spec => StaleOnlyByLateStore
<1>1. Inv /\ [Next]_vars => [LateOrRestored]_vars
  <2> SUFFICES ASSUME Inv, Next PROVE LateOrRestored
      OBVIOUS
  <2> QED
      BY NextKeeps
<1>2. Spec => [][LateOrRestored]_vars
    BY InvHolds, <1>1, PTL DEF Spec
<1> QED
    BY <1>2, PTL DEF StaleOnlyByLateStore, LateOrRestored

=============================================================================

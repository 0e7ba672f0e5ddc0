--------------------------- MODULE QuadOps_proofs ---------------------------
(***************************************************************************)
(* The operators of QuadOps and Propagation take well-formed quads to      *)
(* well-formed quads: one lemma per operator, and under it one step per    *)
(* part of QuadInv.  First the facts about initial segments of the         *)
(* naturals with which functions defined by recursion are reasoned about.  *)
(***************************************************************************)
EXTENDS Propagation, FiniteSetTheorems, WellFoundedInduction, SequenceTheorems, TLAPS

-----------------------------------------------------------------------------
(* Induction and recursion over 0 .. n *)

\* A non-empty set of naturals has a least member: its segments are finite
\* sets, well-founded under strict inclusion.
LEMMA Least ==
    ASSUME NEW T \in SUBSET Nat, T # {}
    PROVE  \E m \in T : \A k \in T : m <= k
<1>1. PICK n \in T : TRUE
    OBVIOUS
<1> DEFINE R == StrictSubsetOrdering(Nat)
           S == FiniteSubsetsOf(Nat)
           U == {0 .. k : k \in T}
<1>2. IsWellFoundedOn(R, S)
    BY FS_StrictSubsetOrderingWellFounded
<1>3. U \subseteq S /\ U # {}
  <2>1. \A k \in T : 0 .. k \in SUBSET Nat /\ IsFiniteSet(0 .. k)
      BY FS_Interval
  <2> QED
      BY <1>1, <2>1 DEF FiniteSubsetsOf
<1>4. \E x \in U : \A y \in U : <<y, x>> \notin R
  <2> HIDE DEF R, S, U
  <2> QED
      BY <1>2, <1>3, WFMin
<1>5. PICK m \in T : \A k \in T : <<0 .. k, 0 .. m>> \notin R
    BY <1>4
<1>6. ASSUME NEW k \in T, k < m
      PROVE  FALSE
  <2>1. 0 .. k \subseteq 0 .. m /\ 0 .. k # 0 .. m
      BY <1>6
  <2>2. 0 .. k \subseteq Nat /\ 0 .. m \subseteq Nat
      OBVIOUS
  <2> QED
      BY <1>5, <2>1, <2>2 DEF StrictSubsetOrdering
<1>7. \A k \in T : m <= k
    BY <1>6
<1> QED
    BY <1>7

\* A non-empty finite set of naturals has a greatest member: what lies above it
\* is the least of the finite sets of what lies above a member.
LEMMA GreatestNat ==
    ASSUME NEW T \in SUBSET Nat, IsFiniteSet(T), T # {}
    PROVE  \E m \in T : \A k \in T : k <= m
<1> DEFINE Above(m) == {k \in T : m < k}
           R == StrictSubsetOrdering(T)
           S == FiniteSubsetsOf(T)
           U == {Above(m) : m \in T}
<1>1. IsWellFoundedOn(R, S)
    BY FS_StrictSubsetOrderingWellFounded
<1>2. U \subseteq S /\ U # {}
  <2>1. \A m \in T : Above(m) \in SUBSET T /\ IsFiniteSet(Above(m))
      BY FS_Subset
  <2> QED
      BY <2>1 DEF FiniteSubsetsOf
<1>3. \E x \in U : \A y \in U : <<y, x>> \notin R
  <2> HIDE DEF R, S, U
  <2> QED
      BY <1>1, <1>2, WFMin
<1>4. PICK m \in T : \A k \in T : <<Above(k), Above(m)>> \notin R
    BY <1>3
<1>5. ASSUME NEW k \in T, m < k
      PROVE  FALSE
  <2> HIDE DEF R, S, U
  <2>1. \A x \in T : x \in Nat
      OBVIOUS
  <2>2. ASSUME NEW x \in Above(k) PROVE x \in Above(m)
      BY <1>5, <2>1
  <2>3. k \in Above(m) /\ k \notin Above(k)
      BY <1>5, <2>1
  <2> QED
      BY <1>4, <2>2, <2>3 DEF StrictSubsetOrdering, R
<1>6. \A k \in T : k <= m
    BY <1>5
<1> QED
    BY <1>6

\* A set that holds 0 and is closed under successor below n holds 0 .. n.
LEMMA SegmentInduction ==
    ASSUME NEW n \in Nat, NEW T, 0 \in T, \A i \in 0 .. n - 1 : i \in T => i + 1 \in T
    PROVE  0 .. n \subseteq T
<1> DEFINE U == (0 .. n) \ T
<1>1. SUFFICES ASSUME U # {} PROVE FALSE
    OBVIOUS
<1>2. PICK m \in U : \A k \in U : m <= k
  <2>1. U \in SUBSET Nat
      OBVIOUS
  <2> HIDE DEF U
  <2> QED
      BY <1>1, <2>1, Least
<1>3. m \in 1 .. n /\ m - 1 \in T
    BY <1>2
<1>4. (m - 1) + 1 \in T
    BY <1>3
<1> QED
    BY <1>2, <1>3, <1>4

\* f starts at base and goes from f[i - 1] to f[i] by the step for i.
Steps(n, S) == [(1 .. n) \X S -> S]
Iterates(f, n, S, base, step) ==
    /\ f \in [0 .. n -> S]
    /\ f[0] = base
    /\ \A i \in 1 .. n : f[i] = step[<<i, f[i - 1]>>]

\* A base and a step define a function on 0 .. n.
LEMMA SegmentRecursion ==
    ASSUME NEW n \in Nat, NEW S, NEW base \in S, NEW step \in Steps(n, S)
    PROVE  \E f : Iterates(f, n, S, base, step)
<1> USE DEF Steps
<1> DEFINE Solves(f, k) == Iterates(f, k, S, base, step)
           T == {k \in 0 .. n : \E f : Solves(f, k)}
<1> USE DEF Iterates
<1>1. 0 \in T
  <2> DEFINE f == [i \in 0 .. 0 |-> base]
  <2>1. Solves(f, 0)
      OBVIOUS
  <2> HIDE DEF f, Iterates
  <2> QED
      BY <2>1
<1>2. ASSUME NEW k \in 0 .. n - 1, k \in T
      PROVE  k + 1 \in T
  <2>1. PICK f : Solves(f, k)
      BY <1>2
  <2> DEFINE g == [i \in 0 .. k + 1 |-> IF i <= k THEN f[i] ELSE step[<<k + 1, f[k]>>]]
  <2>2. f[k] \in S /\ \A i \in 0 .. k : g[i] = f[i] /\ f[i] \in S
      BY <2>1
  <2>3. step[<<k + 1, f[k]>>] \in S
      BY <2>2
  <2>4. g \in [0 .. k + 1 -> S] /\ g[k + 1] = step[<<k + 1, g[k]>>]
    <3>1. \A i \in 0 .. k + 1 : (IF i <= k THEN f[i] ELSE step[<<k + 1, f[k]>>]) \in S
      <4> SUFFICES ASSUME NEW i \in 0 .. k + 1
                   PROVE  (IF i <= k THEN f[i] ELSE step[<<k + 1, f[k]>>]) \in S
          OBVIOUS
      <4>1. CASE i <= k
        <5>1. i \in 0 .. k
            BY <4>1
        <5>2. f[i] \in S
            BY <2>2, <5>1
        <5> QED
            BY <4>1, <5>2
      <4>2. CASE ~(i <= k)
          BY <2>3, <4>2
      <4> QED
          BY <4>1, <4>2
    <3>2. g[k] = f[k] /\ g[k + 1] = step[<<k + 1, f[k]>>]
        BY <2>2
    <3> QED
        BY <3>1, <3>2
  <2>5. \A i \in 1 .. k : g[i] = step[<<i, g[i - 1]>>]
    <3> SUFFICES ASSUME NEW i \in 1 .. k PROVE g[i] = step[<<i, g[i - 1]>>]
        OBVIOUS
    <3>1. i \in 0 .. k /\ i - 1 \in 0 .. k
        OBVIOUS
    <3>2. g[i] = f[i] /\ g[i - 1] = f[i - 1]
        BY <2>2, <3>1
    <3> QED
        BY <2>1, <3>2
  <2>6. g[0] = base
      BY <2>1, <2>2
  <2> HIDE DEF g
  <2>7. \A i \in 1 .. k + 1 : g[i] = step[<<i, g[i - 1]>>]
    <3> SUFFICES ASSUME NEW i \in 1 .. k + 1 PROVE g[i] = step[<<i, g[i - 1]>>]
        OBVIOUS
    <3>1. CASE i = k + 1
        BY <2>4, <3>1
    <3>2. CASE i # k + 1
        BY <2>5, <3>2
    <3> QED
        BY <3>1, <3>2
  <2>8. Solves(g, k + 1)
      BY <2>4, <2>6, <2>7
  <2> HIDE DEF Iterates
  <2> QED
      BY <2>8
<1>3. n \in T
  <2> HIDE DEF T
  <2> QED
      BY <1>1, <1>2, SegmentInduction
<1> HIDE DEF Iterates
<1> QED
    BY <1>3

-----------------------------------------------------------------------------
(* The quad *)

\* A function on an initial segment of the naturals is a sequence.
LEMMA FunctionIsSeq ==
    ASSUME NEW S, NEW n \in Nat, NEW f \in [1 .. n -> S]
    PROVE  f \in Seq(S)
BY SeqDef

\* Confidences are clamped into range, as f32::clamp(0.0, 1.0) does.
LEMMA ClampType ==
    ASSUME NEW c \in Int
    PROVE  Clamp(c) \in Conf
BY QuadAssumption DEF Clamp, Conf

\* BeliefQuad::new() is well-formed.
LEMMA EmptyQuadInv == QuadInv(EmptyQuad)
<1>1. IsQuad(EmptyQuad)
    BY DEF IsQuad, EmptyQuad, Live, Projection, Graph, BeliefId, Edge
<1>2. Finite(EmptyQuad)
    BY FS_EmptySet DEF Finite, EmptyQuad, Live, Projection
<1>3. ArenaSound(EmptyQuad)
    BY DEF ArenaSound, EmptyQuad, Live
<1>4. ProjectionsAgree(EmptyQuad)
    BY DEF ProjectionsAgree, EmptyQuad, Live, Projection
<1> QED
    BY <1>1, <1>2, <1>3, <1>4 DEF QuadInv

\* The arena issues an id that is not in use.
LEMMA NextIdFresh ==
    ASSUME NEW q, QuadInv(q)
    PROVE  /\ NextId(q) \in BeliefId
           /\ NextId(q) \notin Live(q)
<1> DEFINE id == NextId(q)
<1>1. q.gens \in Seq(Nat) /\ q.free \in Seq(Nat) /\ Live(q) \subseteq BeliefId
    BY DEF QuadInv, IsQuad
<1>2. CASE q.free = <<>>
  <2>1. id = <<Len(q.gens) + 1, 1>>
      BY <1>2 DEF NextId
  <2>2. id \notin Live(q)
      BY <1>1, <2>1 DEF QuadInv, ArenaSound, Slot
  <2> QED
      BY <1>1, <2>1, <2>2 DEF BeliefId
<1>3. CASE q.free # <<>>
  <2>1. id = <<q.free[1], q.gens[q.free[1]]>> /\ 1 \in DOMAIN q.free
      BY <1>1, <1>3 DEF NextId
  <2>2. q.free[1] \in DOMAIN q.gens /\ \A i \in Live(q) : Slot(i) # q.free[1]
      BY <2>1 DEF QuadInv, ArenaSound
  <2>3. id \notin Live(q)
      BY <2>1, <2>2 DEF Slot
  <2>4. id \in BeliefId
    <3>1. q.free[1] \in Nat /\ q.gens[q.free[1]] \in Nat
      <4> DEFINE free == q.free
                 gens == q.gens
      <4>1. free \in Seq(Nat) /\ gens \in Seq(Nat) /\ 1 \in DOMAIN free /\ free[1] \in DOMAIN gens
          BY <1>1, <2>1, <2>2, Zenon
      <4> HIDE DEF free, gens
      <4>2. free[1] \in Nat /\ gens[free[1]] \in Nat
          BY ONLY <4>1
      <4> QED
          BY <4>2, Zenon DEF free, gens
    <3> QED
        BY <2>1, <3>1 DEF BeliefId
  <2> QED
      BY <2>3, <2>4
<1> QED
    BY <1>2, <1>3

\* insert(): the new belief joins the arena and all four projections at once.
LEMMA InsertInv ==
    ASSUME NEW q, QuadInv(q),
           NEW k \in Key, NEW v \in Value, NEW c \in Int, NEW slow \in Int \cup {None}
    PROVE  QuadInv(Insert(q, [key |-> k, value |-> v, fast |-> c, slow |-> slow]))
<1> DEFINE id   == NextId(q)
           node == [key |-> k, value |-> v, fast |-> c, slow |-> slow]
           r    == Insert(q, node)
<1>1. IsQuad(q) /\ Finite(q) /\ ArenaSound(q) /\ ProjectionsAgree(q)
    BY DEF QuadInv
<1>2. id \in BeliefId /\ id \notin Live(q)
    BY NextIdFresh
<1>3. /\ r = [nodes |-> r.nodes, gens |-> r.gens, free |-> r.free,
               graphs |-> r.graphs, prospective |-> r.prospective,
               equivalent |-> r.equivalent, version |-> r.version]
      /\ r.nodes = [i \in Live(q) \cup {id} |->
                      IF i = id THEN [node EXCEPT !.fast = Clamp(@)] ELSE q.nodes[i]]
      /\ r.gens = IF q.free = <<>> THEN Append(q.gens, 1) ELSE q.gens
      /\ r.free = IF q.free = <<>> THEN <<>> ELSE Tail(q.free)
      /\ r.graphs = [p \in Projection |-> AddNode(q.graphs[p], id)]
      /\ r.prospective = q.prospective
      /\ r.equivalent = q.equivalent
      /\ r.version = q.version + 1
    BY Zenon DEF Insert
<1> HIDE DEF r
<1>4. Live(r) = Live(q) \cup {id}
    BY <1>3 DEF Live
<1>5. [node EXCEPT !.fast = Clamp(@)] \in Node
  <2>1. [node EXCEPT !.fast = Clamp(@)]
          = [key |-> k, value |-> v, fast |-> Clamp(c), slow |-> slow]
      OBVIOUS
  <2> QED
      BY <2>1, ClampType DEF Node
<1>6. IsQuad(r)
  <2>1. Live(r) \subseteq BeliefId
      BY <1>1, <1>2, <1>4 DEF IsQuad
  <2>2. r.nodes \in [Live(r) -> Node]
      BY <1>1, <1>3, <1>4, <1>5 DEF IsQuad
  <2>3. r.gens \in Seq(Nat) /\ r.free \in Seq(Nat)
    <3> DEFINE free == q.free
               gens == q.gens
               left == r.free
               now  == r.gens
    <3>1. free \in Seq(Nat) /\ gens \in Seq(Nat)
        BY <1>1, Zenon DEF IsQuad
    <3>2. /\ now = IF free = <<>> THEN Append(gens, 1) ELSE gens
          /\ left = IF free = <<>> THEN <<>> ELSE Tail(free)
        BY <1>3, Zenon
    <3> HIDE DEF free, gens, left, now
    <3>3. now \in Seq(Nat) /\ left \in Seq(Nat)
        BY ONLY <3>1, <3>2
    <3> QED
        BY <3>3, Zenon DEF left, now
  <2>4. r.graphs \in [Projection -> Graph]
      BY <1>1, <1>2, <1>3 DEF IsQuad, AddNode, Graph
  <2>5. /\ DOMAIN r.prospective \subseteq BeliefId
        /\ r.prospective \in [DOMAIN r.prospective -> Value]
        /\ r.equivalent \in SUBSET (Value \X Value)
        /\ r.version \in Nat
    <3>1. /\ DOMAIN q.prospective \subseteq BeliefId
          /\ q.prospective \in [DOMAIN q.prospective -> Value]
          /\ q.equivalent \in SUBSET (Value \X Value)
          /\ q.version \in Nat
        BY <1>1, Zenon DEF IsQuad
    <3>2. /\ r.prospective = q.prospective /\ r.equivalent = q.equivalent
          /\ r.version = q.version + 1
        BY <1>3, Zenon
    <3>3. q.version + 1 \in Nat
        BY ONLY <3>1
    <3> QED
        BY ONLY <3>1, <3>2, <3>3, Zenon
  <2> QED
      BY ONLY <1>3, <2>1, <2>2, <2>3, <2>4, <2>5, Zenon DEF IsQuad
<1>7. Finite(r)
  <2>1. \A p \in Projection : r.graphs[p].edges = q.graphs[p].edges
      BY <1>3 DEF AddNode
  <2> QED
      BY <1>1, <1>4, <2>1, FS_AddElement DEF Finite
<1>8. ArenaSound(r)
  <2>1. CASE q.free = <<>>
    <3>1. id = <<Len(q.gens) + 1, 1>> /\ r.gens = Append(q.gens, 1) /\ r.free = q.free
        BY <1>3, <2>1 DEF NextId
    <3>2. /\ DOMAIN r.gens = DOMAIN q.gens \cup {Len(q.gens) + 1}
          /\ \A s \in DOMAIN q.gens : r.gens[s] = q.gens[s]
          /\ r.gens[Len(q.gens) + 1] = 1
      <4> DEFINE gens == q.gens
                 now  == r.gens
      <4>1. gens \in Seq(Nat) /\ now = Append(gens, 1)
          BY <1>1, <3>1, Zenon DEF IsQuad
      <4> HIDE DEF gens, now
      <4>2. /\ DOMAIN now = DOMAIN gens \cup {Len(gens) + 1}
            /\ \A s \in DOMAIN gens : now[s] = gens[s]
            /\ now[Len(gens) + 1] = 1
          BY ONLY <4>1
      <4> QED
          BY <4>2, Zenon DEF gens, now
    <3> QED
        BY <1>1, <1>4, <2>1, <3>1, <3>2 DEF ArenaSound, IsQuad, Slot
  <2>2. CASE q.free # <<>>
    <3>0. q.free \in Seq(Nat) /\ q.free # <<>>
        BY <1>1, <2>2 DEF IsQuad
    <3>1. /\ id = <<q.free[1], q.gens[q.free[1]]>> /\ 1 \in DOMAIN q.free
          /\ r.gens = q.gens /\ r.free = Tail(q.free)
      <4>1. 1 \in DOMAIN q.free /\ Head(q.free) = q.free[1]
          BY <3>0
      <4> QED
          BY <1>3, <2>2, <4>1 DEF NextId
    <3>2. \A i \in DOMAIN r.free :
            i + 1 \in DOMAIN q.free /\ r.free[i] = q.free[i + 1] /\ i + 1 # 1 /\ i \in Nat
      <4> DEFINE free == q.free
                 left == r.free
      <4>1. free \in Seq(Nat) /\ free # <<>> /\ left = Tail(free)
          BY <3>0, <3>1, Zenon
      <4> HIDE DEF free, left
      <4>2. \A i \in DOMAIN left :
              i + 1 \in DOMAIN free /\ left[i] = free[i + 1] /\ i + 1 # 1 /\ i \in Nat
          BY ONLY <4>1
      <4> QED
          BY <4>2, Zenon DEF free, left
    <3>3. \A i \in Live(r) : Slot(i) \in DOMAIN r.gens /\ i[2] = r.gens[Slot(i)]
        BY <1>1, <1>4, <3>1 DEF ArenaSound, Slot
    <3>4. \A i \in DOMAIN r.free :
            /\ r.free[i] \in DOMAIN r.gens
            /\ \A j \in DOMAIN r.free : r.free[i] = r.free[j] => i = j
        BY <1>1, <3>1, <3>2 DEF ArenaSound
    <3>5. \A i \in DOMAIN r.free : \A l \in Live(r) : Slot(l) # r.free[i]
        BY <1>1, <1>4, <3>1, <3>2 DEF ArenaSound, Slot
    <3> QED
        BY <3>3, <3>4, <3>5 DEF ArenaSound
  <2> QED
      BY <2>1, <2>2
<1>9. ProjectionsAgree(r)
    BY <1>1, <1>3, <1>4 DEF ProjectionsAgree, AddNode, IsQuad, Graph
<1> QED
    BY <1>6, <1>7, <1>8, <1>9 DEF QuadInv, r

\* add_semantic_edge and its siblings: an edge between beliefs that are not
\* both in the graph is dropped, so no edge dangles.
LEMMA AddEdgeInv ==
    ASSUME NEW q, QuadInv(q), NEW p \in Projection, NEW e \in Edge
    PROVE  QuadInv([q EXCEPT !.graphs[p] = AddEdge(@, e)])
<1> DEFINE r == [q EXCEPT !.graphs[p] = AddEdge(@, e)]
<1>1. IsQuad(q) /\ Finite(q) /\ ArenaSound(q) /\ ProjectionsAgree(q)
    BY DEF QuadInv
<1>2. /\ r = [q EXCEPT !.graphs = r.graphs]
      /\ r.graphs = [q.graphs EXCEPT ![p] = AddEdge(q.graphs[p], e)]
      /\ Live(r) = Live(q)
      /\ r.nodes = q.nodes /\ r.gens = q.gens /\ r.free = q.free
      /\ r.prospective = q.prospective /\ r.equivalent = q.equivalent
      /\ r.version = q.version
    BY <1>1 DEF IsQuad, Live
<1>3. q.graphs[p] \in Graph
    BY <1>1 DEF IsQuad
<1>4. Mirror(e) \in Edge /\ Mirror(e).from = e.to /\ Mirror(e).to = e.from
    BY DEF Mirror, Edge
<1>5. AddEdge(q.graphs[p], e) \in Graph
    BY <1>3, <1>4 DEF AddEdge, Graph
<1>6. /\ AddEdge(q.graphs[p], e).nodes = Live(q)
      /\ \A x \in AddEdge(q.graphs[p], e).edges : x.from \in Live(q) /\ x.to \in Live(q)
    BY <1>1, <1>3, <1>4 DEF AddEdge, ProjectionsAgree, Graph
<1> HIDE DEF r
<1>7. IsQuad(r)
    BY <1>1, <1>2, <1>5 DEF IsQuad
<1>8. ProjectionsAgree(r)
    BY <1>1, <1>2, <1>6 DEF ProjectionsAgree, IsQuad
<1>9. ArenaSound(r)
    BY <1>1, <1>2 DEF ArenaSound
<1>10. Finite(r)
  <2>1. /\ IsFiniteSet({Mirror(e)}) /\ IsFiniteSet({})
        /\ IsFiniteSet(q.graphs[p].edges \cup {e})
      BY <1>1, FS_EmptySet, FS_Singleton, FS_AddElement DEF Finite
  <2>2. IsFiniteSet(AddEdge(q.graphs[p], e).edges)
      BY <1>1, <2>1, FS_Union DEF AddEdge, Finite
  <2>3. \A x \in Projection : IsFiniteSet(r.graphs[x].edges)
      BY <1>1, <1>2, <2>2 DEF Finite, IsQuad
  <2> QED
      BY <1>1, <1>2, <2>3 DEF Finite
<1> QED
    BY <1>1, <1>2, <1>7, <1>8, <1>9, <1>10 DEF QuadInv, r

\* remove(), any number of times: freed slots move to the free list with the
\* next generation, and every projection forgets the removed beliefs.
LEMMA RemoveAllInv ==
    ASSUME NEW q, QuadInv(q), NEW ids \in Seq(Live(q)),
           \A i, j \in DOMAIN ids : ids[i] = ids[j] => i = j
    PROVE  /\ QuadInv(RemoveAll(q, ids))
           /\ Live(RemoveAll(q, ids)) = Live(q) \ Range(ids)
           /\ \A i \in Live(RemoveAll(q, ids)) : RemoveAll(q, ids).nodes[i] = q.nodes[i]
<1> DEFINE gone == Range(ids)
           r    == RemoveAll(q, ids)
<1>1. IsQuad(q) /\ Finite(q) /\ ArenaSound(q) /\ ProjectionsAgree(q)
    BY DEF QuadInv
<1>2. gone \subseteq Live(q) /\ \A i \in DOMAIN ids : ids[i] \in gone
    BY DEF Range
<1>3. /\ r = [nodes |-> r.nodes, gens |-> r.gens, free |-> r.free,
               graphs |-> r.graphs, prospective |-> r.prospective,
               equivalent |-> r.equivalent, version |-> r.version]
      /\ r.nodes = [i \in Live(q) \ gone |-> q.nodes[i]]
      /\ r.gens = NextGeneration(q.gens, gone)
      /\ r.free = [i \in DOMAIN ids |-> Slot(ids[i])] \o q.free
      /\ r.graphs = [p \in Projection |-> DropNodes(q.graphs[p], gone)]
      /\ r.prospective = [i \in DOMAIN q.prospective \ gone |-> q.prospective[i]]
      /\ r.equivalent = q.equivalent
      /\ r.version = q.version + Len(ids)
    BY Zenon DEF RemoveAll, Restrict, Invalidate
<1> HIDE DEF r
<1>4. Live(r) = Live(q) \ gone
    BY <1>3 DEF Live
<1>5. \A i \in Live(q) : Slot(i) \in Nat /\ i = <<Slot(i), q.gens[Slot(i)]>>
    BY <1>1 DEF IsQuad, ArenaSound, BeliefId, Slot
<1>6. \A i, j \in Live(q) : Slot(i) = Slot(j) => i = j
    BY <1>5
<1>7. IsQuad(r)
  <2>1. Live(r) \subseteq BeliefId
      BY <1>1, <1>4 DEF IsQuad
  <2>2. r.nodes \in [Live(r) -> Node]
      BY <1>1, <1>3, <1>4 DEF IsQuad
  <2>3. r.gens \in Seq(Nat)
    <3>1. q.gens \in Seq(Nat) /\ Len(q.gens) \in Nat /\ DOMAIN q.gens = 1 .. Len(q.gens)
        BY <1>1 DEF IsQuad
    <3>2. \A s \in DOMAIN q.gens : q.gens[s] \in Nat
        BY <3>1
    <3>3. DOMAIN r.gens = DOMAIN q.gens /\ \A s \in DOMAIN q.gens : r.gens[s] \in Nat
        BY <1>3, <3>2 DEF NextGeneration
    <3>4. r.gens = [s \in 1 .. Len(q.gens) |-> r.gens[s]]
        BY <1>3, <3>1 DEF NextGeneration
    <3>5. r.gens \in [1 .. Len(q.gens) -> Nat]
        BY ONLY <3>1, <3>3, <3>4
    <3> QED
        BY <3>1, <3>5, FunctionIsSeq
  <2>4. r.free \in Seq(Nat)
    <3>1. [i \in DOMAIN ids |-> Slot(ids[i])] \in Seq(Nat)
        BY <1>2, <1>5
    <3> QED
        BY <1>1, <1>3, <3>1 DEF IsQuad
  <2>5. r.graphs \in [Projection -> Graph]
      BY <1>1, <1>3 DEF IsQuad, DropNodes, Graph
  <2>6. /\ DOMAIN r.prospective \subseteq BeliefId
        /\ r.prospective \in [DOMAIN r.prospective -> Value]
        /\ r.equivalent \in SUBSET (Value \X Value)
        /\ r.version \in Nat
      BY <1>1, <1>3 DEF IsQuad
  <2> QED
      BY ONLY <1>3, <2>1, <2>2, <2>3, <2>4, <2>5, <2>6, Zenon DEF IsQuad
<1>8. Finite(r)
  <2>1. \A p \in Projection : r.graphs[p].edges \in SUBSET q.graphs[p].edges
      BY <1>3 DEF DropNodes
  <2> QED
      BY <1>1, <1>4, <2>1, FS_Subset DEF Finite
<1>9. ArenaSound(r)
  <2> DEFINE front == [i \in DOMAIN ids |-> Slot(ids[i])]
  <2>1. /\ DOMAIN r.gens = DOMAIN q.gens
        /\ \A s \in DOMAIN q.gens :
             (\A i \in gone : Slot(i) # s) => r.gens[s] = q.gens[s]
      BY <1>3 DEF NextGeneration
  <2>2. \A i \in Live(r) : Slot(i) \in DOMAIN r.gens /\ i[2] = r.gens[Slot(i)]
      BY <1>1, <1>2, <1>4, <1>6, <2>1 DEF ArenaSound
  <2>3. \A i \in DOMAIN r.free :
          \/ i \in DOMAIN ids /\ r.free[i] = Slot(ids[i])
          \/ /\ i \in Nat /\ i > Len(ids)
             /\ i - Len(ids) \in DOMAIN q.free /\ r.free[i] = q.free[i - Len(ids)]
    <3>1. front \in Seq(Nat) /\ Len(front) = Len(ids) /\ DOMAIN front = DOMAIN ids
        BY <1>2, <1>5
    <3>2. r.free = front \o q.free /\ q.free \in Seq(Nat)
        BY <1>1, <1>3 DEF IsQuad
    <3> QED
        BY <3>1, <3>2
  <2>4. \A i \in DOMAIN r.free : r.free[i] \in DOMAIN r.gens
      BY <1>1, <1>2, <2>1, <2>3 DEF ArenaSound
  <2>5. \A i \in DOMAIN r.free : \A l \in Live(r) : Slot(l) # r.free[i]
      BY <1>1, <1>2, <1>4, <1>6, <2>3 DEF ArenaSound
  <2>6. \A i, j \in DOMAIN r.free : r.free[i] = r.free[j] => i = j
    <3> SUFFICES ASSUME NEW i \in DOMAIN r.free, NEW j \in DOMAIN r.free,
                        r.free[i] = r.free[j]
                 PROVE  i = j
        OBVIOUS
    <3>1. CASE i \in DOMAIN ids /\ j \in DOMAIN ids /\ r.free[i] = Slot(ids[i])
                 /\ r.free[j] = Slot(ids[j])
        BY <1>2, <1>6, <3>1
    <3>2. CASE /\ i \in Nat /\ i - Len(ids) \in DOMAIN q.free
               /\ r.free[i] = q.free[i - Len(ids)]
               /\ j \in Nat /\ j - Len(ids) \in DOMAIN q.free
               /\ r.free[j] = q.free[j - Len(ids)]
      <4>1. i - Len(ids) = j - Len(ids)
          BY <1>1, <3>2 DEF ArenaSound
      <4> QED
          BY <3>2, <4>1
    <3>3. \A m \in DOMAIN ids, n \in DOMAIN q.free : Slot(ids[m]) # q.free[n]
        BY <1>1, <1>2 DEF ArenaSound
    <3> QED
        BY <2>3, <3>1, <3>2, <3>3
  <2> QED
      BY <2>2, <2>4, <2>5, <2>6 DEF ArenaSound
<1>10. ProjectionsAgree(r)
  <2> SUFFICES ASSUME NEW p \in Projection
               PROVE  /\ r.graphs[p].nodes = Live(r)
                      /\ \A e \in r.graphs[p].edges : e.from \in Live(r) /\ e.to \in Live(r)
      BY DEF ProjectionsAgree
  <2>1. /\ r.graphs[p].nodes = q.graphs[p].nodes \ gone
        /\ r.graphs[p].edges =
             {e \in q.graphs[p].edges : e.from \notin gone /\ e.to \notin gone}
      BY <1>3 DEF DropNodes
  <2> QED
      BY <1>1, <1>4, <2>1 DEF ProjectionsAgree
<1>11. \A i \in Live(r) : r.nodes[i] = q.nodes[i]
    BY <1>3, <1>4
<1> QED
    BY <1>4, <1>7, <1>8, <1>9, <1>10, <1>11 DEF QuadInv, r

\* Removing one belief, or none when the id is not live.
LEMMA RemoveOneInv ==
    ASSUME NEW q, QuadInv(q), NEW id
    PROVE  /\ QuadInv(RemoveOne(q, id))
           /\ Live(RemoveOne(q, id)) = Live(q) \ {id}
           /\ \A i \in Live(RemoveOne(q, id)) : RemoveOne(q, id).nodes[i] = q.nodes[i]
<1>1. CASE id \in Live(q)
  <2> DEFINE ids == <<id>>
             r   == RemoveAll(q, ids)
  <2>1. ids \in Seq(Live(q)) /\ \A i, j \in DOMAIN ids : ids[i] = ids[j] => i = j
      BY <1>1
  <2>2. Range(ids) = {id}
      BY DEF Range
  <2>3. RemoveOne(q, id) = r
      BY <1>1 DEF RemoveOne
  <2> HIDE DEF ids
  <2>4. QuadInv(r) /\ Live(r) = Live(q) \ {id} /\ \A i \in Live(r) : r.nodes[i] = q.nodes[i]
      BY <2>1, <2>2, RemoveAllInv
  <2> HIDE DEF r
  <2> QED
      BY <2>3, <2>4
<1>2. CASE id \notin Live(q)
    BY <1>2 DEF RemoveOne
<1> QED
    BY <1>1, <1>2

\* The second half of revise(): the belief's value, confidences and version
\* change, its indexed scenarios go, everything else stays.
LEMMA ExpandInv ==
    ASSUME NEW q, QuadInv(q), NEW id \in Live(q), NEW v \in Value,
           NEW c \in Int, NEW slow \in Int \cup {None}
    PROVE  /\ QuadInv(Expand(q, id, v, c, slow))
           /\ Live(Expand(q, id, v, c, slow)) = Live(q)
           /\ \A i \in Live(q) \ {id} : Expand(q, id, v, c, slow).nodes[i] = q.nodes[i]
           /\ Expand(q, id, v, c, slow).nodes[id]
                = [key |-> q.nodes[id].key, value |-> v, fast |-> Clamp(c), slow |-> slow]
           /\ Expand(q, id, v, c, slow).gens = q.gens
           /\ Expand(q, id, v, c, slow).version = q.version + 1
<1> DEFINE r    == Expand(q, id, v, c, slow)
           node == [key |-> q.nodes[id].key, value |-> v, fast |-> Clamp(c), slow |-> slow]
<1>1. IsQuad(q) /\ Finite(q) /\ ArenaSound(q) /\ ProjectionsAgree(q)
    BY DEF QuadInv
<1>2. node \in Node /\ node.value = v
    BY <1>1, ClampType DEF IsQuad, Node
<1>3. /\ r.nodes = [q.nodes EXCEPT ![id] = node]
      /\ r.prospective = [i \in DOMAIN q.prospective \ {id} |-> q.prospective[i]]
      /\ r.version = q.version + 1
      /\ r.gens = q.gens /\ r.free = q.free /\ r.graphs = q.graphs
      /\ r.equivalent = q.equivalent
      /\ r = [nodes |-> r.nodes, gens |-> r.gens, free |-> r.free,
              graphs |-> r.graphs, prospective |-> r.prospective,
              equivalent |-> r.equivalent, version |-> r.version]
    BY DEF Expand, Invalidate, Restrict
<1> HIDE DEF r, node
<1>4. /\ Live(r) = Live(q)
      /\ r.nodes \in [Live(r) -> Node]
      /\ r.nodes[id] = node
      /\ \A i \in Live(q) \ {id} : r.nodes[i] = q.nodes[i]
    BY <1>1, <1>2, <1>3 DEF Live, IsQuad
<1>5. /\ DOMAIN r.prospective \subseteq BeliefId
      /\ r.prospective \in [DOMAIN r.prospective -> Value]
      /\ r.version \in Nat
    BY <1>1, <1>3 DEF IsQuad
<1>6. IsQuad(r)
    BY <1>1, <1>3, <1>4, <1>5 DEF IsQuad
<1>7. ArenaSound(r) /\ ProjectionsAgree(r)
    BY <1>1, <1>3, <1>4 DEF ArenaSound, ProjectionsAgree
<1>8. Finite(r)
    BY <1>1, <1>3, <1>4 DEF Finite
<1> QED
    BY <1>1, <1>3, <1>4, <1>6, <1>7, <1>8 DEF QuadInv, r, node

\* SetToSeqs lists a finite set without repetition.
LEMMA ListsOfASet ==
    ASSUME NEW S, IsFiniteSet(S), NEW order \in SetToSeqs(S)
    PROVE  /\ order \in Seq(S)
           /\ \A i, j \in DOMAIN order : order[i] = order[j] => i = j
           /\ Len(order) = Cardinality(S)
<1>1. Cardinality(S) \in Nat
    BY FS_CardinalityType
<1>2. order \in [1 .. Cardinality(S) -> S]
    BY DEF SetToSeqs
<1>3. order \in Seq(S)
    BY <1>1, <1>2, FunctionIsSeq
<1> QED
    BY <1>1, <1>2, <1>3 DEF SetToSeqs

\* Whatever the contraction set and the order it is removed in, every outcome
\* of revise() is a well-formed quad, the failed ones included.
LEMMA ReviseInv ==
    ASSUME NEW q, QuadInv(q), NEW id \in BeliefId, NEW v \in Value, NEW c \in Int,
           NEW out \in Revise(q, id, v, c)
    PROVE  QuadInv(out.quad)
<1> DEFINE cut == ContractionSet(q, id)
<1>1. CASE out.quad = q
    BY <1>1
<1>2. CASE id \in Live(q) /\ out.quad = Expand(q, id, v, c, q.nodes[id].slow)
  <2>1. q.nodes[id].slow \in Int \cup {None}
      BY <1>2 DEF QuadInv, IsQuad, Node
  <2>2. QuadInv(Expand(q, id, v, c, q.nodes[id].slow))
      BY <1>2, <2>1, ExpandInv
  <2> QED
      BY <1>2, <2>2
<1>3. ASSUME id \in Live(q),
             NEW order \in SetToSeqs(cut \cap Live(q)),
             \/ out.quad = RemoveAll(q, order)
             \/ id \notin cut /\ out.quad = Expand(RemoveAll(q, order), id, v, c, None)
      PROVE  QuadInv(out.quad)
  <2> DEFINE q1 == RemoveAll(q, order)
  <2>1. IsFiniteSet(cut \cap Live(q))
      BY FS_Subset DEF QuadInv, Finite
  <2>2. /\ order \in Seq(cut \cap Live(q))
        /\ \A i, j \in DOMAIN order : order[i] = order[j] => i = j
      BY <2>1, <1>3, ListsOfASet
  <2>3. order \in Seq(Live(q)) /\ Range(order) \subseteq cut
      BY <2>2 DEF Range
  <2>4. QuadInv(q1) /\ Live(q1) = Live(q) \ Range(order)
      BY <2>2, <2>3, RemoveAllInv
  <2>5. CASE id \notin cut /\ out.quad = Expand(q1, id, v, c, None)
    <3>1. id \in Live(q1)
        BY <1>3, <2>3, <2>4, <2>5
    <3> HIDE DEF q1
    <3>2. None \in Int \cup {None}
        OBVIOUS
    <3>3. QuadInv(Expand(q1, id, v, c, None))
        BY <2>4, <3>1, <3>2, ExpandInv
    <3> QED
        BY <2>5, <3>3
  <2> QED
      BY <1>3, <2>4, <2>5
<1> QED
    BY <1>1, <1>2, <1>3 DEF Revise, Outcome

\* Writing a belief's slow confidence keeps the quad well-formed.
LEMMA SetSlowInv ==
    ASSUME NEW q, QuadInv(q), NEW id \in Live(q), NEW c \in Int
    PROVE  QuadInv([q EXCEPT !.nodes[id].slow = c])
<1> DEFINE n == [q.nodes[id] EXCEPT !.slow = c]
           N == [q.nodes EXCEPT ![id] = n]
           r == [q EXCEPT !.nodes = N]
<1>1. IsQuad(q) /\ Finite(q) /\ ArenaSound(q) /\ ProjectionsAgree(q)
    BY DEF QuadInv
<1>2. n \in Node /\ n.value = q.nodes[id].value
    BY <1>1 DEF IsQuad, Node
<1> HIDE DEF n
<1>3. /\ DOMAIN N = Live(q) /\ N \in [Live(q) -> Node]
      /\ \A i \in Live(q) : N[i].value = q.nodes[i].value
    BY <1>1, <1>2 DEF IsQuad, Live
<1> HIDE DEF N
<1>4. r = [nodes |-> N, gens |-> q.gens, free |-> q.free,
           graphs |-> q.graphs, prospective |-> q.prospective,
           equivalent |-> q.equivalent, version |-> q.version]
  <2>1. q = [nodes |-> q.nodes, gens |-> q.gens, free |-> q.free,
                graphs |-> q.graphs, prospective |-> q.prospective,
                equivalent |-> q.equivalent, version |-> q.version]
      BY <1>1 DEF IsQuad
  <2> QED
      BY ONLY <2>1
<1>5. Live(r) = Live(q)
    BY <1>3, <1>4 DEF Live
<1> HIDE DEF r
<1>6. IsQuad(r)
    BY <1>1, <1>3, <1>4, <1>5 DEF IsQuad
<1>7. ArenaSound(r) /\ ProjectionsAgree(r) /\ Finite(r)
    BY <1>1, <1>3, <1>4, <1>5 DEF ArenaSound, ProjectionsAgree, Finite
<1> QED
    BY <1>1, <1>5, <1>6, <1>7 DEF QuadInv, r, N, n

-----------------------------------------------------------------------------
(* What removals and revisions do to the arena's generations, the keys and   *)
(* the version.                                                              *)

\* r comes after q with no insertion in between: generations and the version
\* only grow, ids that died lie behind their slot's generation, keys stay,
\* and values change only together with the version.
Later(q, r) ==
    /\ DOMAIN r.gens = DOMAIN q.gens
    /\ \A s \in DOMAIN q.gens : q.gens[s] <= r.gens[s]
    /\ Live(r) \subseteq Live(q)
    /\ \A i \in Live(q) \ Live(r) : i[2] < r.gens[Slot(i)]
    /\ \A i \in Live(r) : r.nodes[i].key = q.nodes[i].key
    /\ q.version <= r.version
    /\ r.version = q.version =>
         Live(r) = Live(q) /\ \A i \in Live(r) : r.nodes[i].value = q.nodes[i].value

\* remove() ages the slots it frees.
LEMMA RemoveAllLater ==
    ASSUME NEW q, QuadInv(q), NEW ids \in Seq(Live(q)),
           \A i, j \in DOMAIN ids : ids[i] = ids[j] => i = j
    PROVE  Later(q, RemoveAll(q, ids))
<1> DEFINE gone == Range(ids)
           r    == RemoveAll(q, ids)
<1>1. IsQuad(q) /\ ArenaSound(q)
    BY DEF QuadInv
<1>2. /\ Live(r) = Live(q) \ gone
      /\ \A i \in Live(r) : r.nodes[i] = q.nodes[i]
    BY RemoveAllInv
<1>3. r.gens = NextGeneration(q.gens, gone) /\ r.version = q.version + Len(ids)
    BY Zenon DEF RemoveAll
<1> HIDE DEF r
<1>4. /\ \A s \in DOMAIN q.gens : q.gens[s] \in Nat
      /\ q.version \in Nat
    BY <1>1 DEF IsQuad
<1>5. DOMAIN r.gens = DOMAIN q.gens /\ \A s \in DOMAIN q.gens : q.gens[s] <= r.gens[s]
    BY <1>3, <1>4 DEF NextGeneration
<1>6. \A i \in gone : i[2] < r.gens[Slot(i)]
  <2> SUFFICES ASSUME NEW i \in gone PROVE i[2] < r.gens[Slot(i)]
      OBVIOUS
  <2>1. i \in Live(q)
      BY DEF Range
  <2>2. Slot(i) \in DOMAIN q.gens /\ i[2] = q.gens[Slot(i)] /\ q.gens[Slot(i)] \in Nat
      BY <1>1, <1>4, <2>1 DEF ArenaSound
  <2>3. r.gens[Slot(i)] = q.gens[Slot(i)] + 1
      BY <1>3, <2>2 DEF NextGeneration
  <2> QED
      BY <2>2, <2>3
<1>7. \A i \in Live(q) \ Live(r) : i[2] < r.gens[Slot(i)]
    BY <1>2, <1>6
<1>8. Len(ids) \in Nat /\ (Len(ids) = 0 => gone = {})
    BY DEF Range
<1>9. q.version <= r.version /\ (r.version = q.version => gone = {})
    BY <1>3, <1>4, <1>8
<1> QED
    BY <1>2, <1>5, <1>7, <1>9 DEF Later, r

\* The expansion step of revise() changes no generation and bumps the version.
LEMMA ExpandLater ==
    ASSUME NEW q, QuadInv(q), NEW id \in Live(q), NEW v \in Value,
           NEW c \in Int, NEW slow \in Int \cup {None}
    PROVE  /\ Later(q, Expand(q, id, v, c, slow))
           /\ Expand(q, id, v, c, slow).version = q.version + 1
<1> DEFINE r    == Expand(q, id, v, c, slow)
           node == [key |-> q.nodes[id].key, value |-> v, fast |-> Clamp(c), slow |-> slow]
<1>1. /\ r.nodes = [q.nodes EXCEPT ![id] = node]
      /\ r.gens = q.gens /\ r.version = q.version + 1
    BY Zenon DEF Expand
<1>2. node.key = q.nodes[id].key
    OBVIOUS
<1>3. /\ \A s \in DOMAIN q.gens : q.gens[s] \in Nat
      /\ q.version \in Nat
    BY DEF QuadInv, IsQuad
<1> HIDE DEF r, node
<1>4. Live(r) = Live(q) /\ \A i \in Live(r) : r.nodes[i].key = q.nodes[i].key
    BY <1>1, <1>2 DEF Live
<1> QED
    BY <1>1, <1>3, <1>4 DEF Later, r

\* What the order speaks of is numbers.
LEMMA LaterNumbers ==
    ASSUME NEW q, QuadInv(q)
    PROVE  /\ q.version \in Nat
           /\ \A s \in DOMAIN q.gens : q.gens[s] \in Nat
           /\ \A i \in Live(q) : i \in BeliefId /\ Slot(i) \in DOMAIN q.gens
<1>1. q.version \in Nat /\ q.gens \in Seq(Nat) /\ Live(q) \subseteq BeliefId
    BY DEF QuadInv, IsQuad
<1>2. \A i \in Live(q) : Slot(i) \in DOMAIN q.gens
    BY DEF QuadInv, ArenaSound
<1>3. \A s \in DOMAIN q.gens : q.gens[s] \in Nat
    BY <1>1
<1> QED
    BY <1>1, <1>2, <1>3

\* Two such steps make one, when the second bumps the version.
LEMMA LaterTrans ==
    ASSUME NEW q, NEW q1, NEW r, QuadInv(q), QuadInv(q1), QuadInv(r),
           Later(q, q1), Later(q1, r), r.version = q1.version + 1
    PROVE  Later(q, r)
<1>1. /\ q.version \in Nat /\ q1.version \in Nat
      /\ \A s \in DOMAIN q.gens : q.gens[s] \in Nat
      /\ \A s \in DOMAIN q1.gens : q1.gens[s] \in Nat
      /\ \A s \in DOMAIN r.gens : r.gens[s] \in Nat
      /\ \A i \in Live(q) : i \in BeliefId /\ Slot(i) \in DOMAIN q.gens
    BY LaterNumbers
<1>2. /\ DOMAIN r.gens = DOMAIN q.gens /\ DOMAIN q1.gens = DOMAIN q.gens
      /\ Live(r) \subseteq Live(q)
      /\ \A i \in Live(r) : r.nodes[i].key = q.nodes[i].key
    BY DEF Later
<1>3. \A s \in DOMAIN q.gens : q.gens[s] <= r.gens[s]
    BY <1>1, <1>2 DEF Later
<1>4. \A i \in Live(q) \ Live(r) : i[2] < r.gens[Slot(i)]
  <2> SUFFICES ASSUME NEW i \in Live(q) \ Live(r) PROVE i[2] < r.gens[Slot(i)]
      OBVIOUS
  <2>1. CASE i \in Live(q1)
      BY <2>1 DEF Later
  <2>2. CASE i \notin Live(q1)
    <3>1. i[2] < q1.gens[Slot(i)] /\ q1.gens[Slot(i)] <= r.gens[Slot(i)]
        BY <1>1, <1>2, <2>2 DEF Later
    <3>2. i[2] \in Nat
        BY <1>1 DEF BeliefId
    <3> QED
        BY <1>1, <1>2, <3>1, <3>2
  <2> QED
      BY <2>1, <2>2
<1>5. q.version < r.version
    BY <1>1 DEF Later
<1> QED
    BY <1>1, <1>2, <1>3, <1>4, <1>5 DEF Later

\* Every outcome of revise(), the failed ones included, is such a step.
LEMMA ReviseLater ==
    ASSUME NEW q, QuadInv(q), NEW id \in BeliefId, NEW v \in Value, NEW c \in Int,
           NEW out \in Revise(q, id, v, c)
    PROVE  Later(q, out.quad)
<1> DEFINE cut == ContractionSet(q, id)
<1>1. CASE out.quad = q
  <2>1. \A s \in DOMAIN q.gens : q.gens[s] \in Nat
      BY DEF QuadInv, IsQuad
  <2>2. q.version \in Nat
      BY DEF QuadInv, IsQuad
  <2> QED
      BY <1>1, <2>1, <2>2 DEF Later
<1>2. CASE id \in Live(q) /\ out.quad = Expand(q, id, v, c, q.nodes[id].slow)
  <2>1. q.nodes[id].slow \in Int \cup {None}
      BY <1>2 DEF QuadInv, IsQuad, Node
  <2>2. Later(q, Expand(q, id, v, c, q.nodes[id].slow))
      BY <1>2, <2>1, ExpandLater
  <2> QED
      BY <1>2, <2>2
<1>3. ASSUME id \in Live(q),
             NEW order \in SetToSeqs(cut \cap Live(q)),
             \/ out.quad = RemoveAll(q, order)
             \/ id \notin cut /\ out.quad = Expand(RemoveAll(q, order), id, v, c, None)
      PROVE  Later(q, out.quad)
  <2> DEFINE q1 == RemoveAll(q, order)
  <2>1. IsFiniteSet(cut \cap Live(q))
      BY FS_Subset DEF QuadInv, Finite
  <2>2. /\ order \in Seq(cut \cap Live(q))
        /\ \A i, j \in DOMAIN order : order[i] = order[j] => i = j
      BY <2>1, <1>3, ListsOfASet
  <2>3. order \in Seq(Live(q)) /\ Range(order) \subseteq cut
      BY <2>2 DEF Range
  <2>4. QuadInv(q1) /\ Live(q1) = Live(q) \ Range(order)
      BY <2>2, <2>3, RemoveAllInv
  <2>5. Later(q, q1)
      BY <2>2, <2>3, RemoveAllLater
  <2>6. CASE id \notin cut /\ out.quad = Expand(q1, id, v, c, None)
    <3>1. id \in Live(q1)
        BY <1>3, <2>3, <2>4, <2>6
    <3> HIDE DEF q1
    <3>2. None \in Int \cup {None}
        OBVIOUS
    <3>3. /\ Later(q1, Expand(q1, id, v, c, None))
          /\ Expand(q1, id, v, c, None).version = q1.version + 1
        BY <2>4, <3>1, <3>2, ExpandLater
    <3>4. QuadInv(Expand(q1, id, v, c, None))
        BY <2>4, <3>1, <3>2, ExpandInv
    <3> QED
        BY <2>4, <2>5, <2>6, <3>3, <3>4, LaterTrans
  <2> QED
      BY <1>3, <2>5, <2>6
<1> QED
    BY <1>1, <1>2, <1>3 DEF Revise, Outcome

-----------------------------------------------------------------------------
(* What a revision takes away: the contraction set. *)

\* A belief's confidence is a natural number, 0 when it is gone.
LEMMA FastOfType ==
    ASSUME NEW q, QuadInv(q), NEW id
    PROVE  FastOf(q, id) \in Conf /\ Conf \subseteq Nat
<1>1. Conf \subseteq Nat /\ 0 \in Conf
    BY QuadAssumption DEF Conf
<1>2. id \in Live(q) => q.nodes[id].fast \in Conf
    BY DEF QuadInv, IsQuad, Node
<1> QED
    BY <1>1, <1>2 DEF FastOf

\* min_by_key on a non-empty premise list finds one of its premises: some
\* position holds the least confidence, and among those one is the first.
LEMMA WeakestIsPremise ==
    ASSUME NEW q, QuadInv(q), NEW ps \in Seq(BeliefId), ps # <<>>
    PROVE  \E i \in DOMAIN ps : Weakest(q, ps) = ps[i]
<1> DEFINE F(i) == FastOf(q, ps[i])
           T == {F(i) : i \in DOMAIN ps}
           I(m) == {i \in DOMAIN ps : F(i) = m}
           First(i) == /\ \A j \in DOMAIN ps : F(i) <= F(j)
                       /\ \A j \in 1 .. i - 1 : F(i) < F(j)
<1>1. 1 \in DOMAIN ps /\ DOMAIN ps \subseteq Nat
    OBVIOUS
<1>2. \A i : F(i) \in Nat
    BY FastOfType
<1> HIDE DEF F
<1>3. PICK m \in T : \A k \in T : m <= k
  <2>1. T \in SUBSET Nat /\ T # {}
      BY <1>1, <1>2
  <2> HIDE DEF T
  <2> QED
      BY <2>1, Least
<1>4. PICK i \in I(m) : \A k \in I(m) : i <= k
  <2>1. I(m) \in SUBSET Nat /\ I(m) # {}
      BY <1>1, <1>3
  <2> HIDE DEF I
  <2> QED
      BY <2>1, Least
<1>5. i \in DOMAIN ps /\ First(i)
  <2>1. i \in DOMAIN ps /\ F(i) = m /\ i \in Nat
      BY <1>1, <1>4
  <2>2. \A j \in DOMAIN ps : F(i) <= F(j)
      BY <1>3, <2>1
  <2>3. ASSUME NEW j \in 1 .. i - 1 PROVE F(i) < F(j)
    <3>1. j \in DOMAIN ps
        BY <2>1
    <3>2. F(j) # m
        BY <1>4, <2>1, <3>1
    <3> QED
        BY <1>2, <2>1, <2>2, <3>1, <3>2
  <2> QED
      BY <2>1, <2>2, <2>3
<1>6. Weakest(q, ps) = ps[CHOOSE k \in DOMAIN ps : First(k)]
    BY DEF Weakest, F
<1> HIDE DEF First
<1> QED
    BY <1>5, <1>6

\* The contraction set holds premises of the belief's support paths, at least
\* one of every non-empty path and no more than there are paths.
LEMMA ContractionSetSound ==
    ASSUME NEW q, QuadInv(q), NEW id
    PROVE  /\ ContractionSet(q, id) \subseteq UNION {Range(ps) : ps \in SupportPaths(q, id)}
           /\ \A ps \in SupportPaths(q, id) \ {<<>>} :
                \E i \in DOMAIN ps : ps[i] \in ContractionSet(q, id)
           /\ IsFiniteSet(ContractionSet(q, id)) /\ IsFiniteSet(SupportPaths(q, id))
           /\ Cardinality(ContractionSet(q, id)) <= Cardinality(SupportPaths(q, id))
<1> DEFINE paths == SupportPaths(q, id)
           some  == paths \ {<<>>}
           cut   == ContractionSet(q, id)
           E     == {x \in q.graphs["causal"].edges : x.to = id /\ x.kind = "InferredFrom"}
<1>1. "causal" \in Projection
    BY DEF Projection
<1>2. E \subseteq Edge /\ IsFiniteSet(E)
  <2>1. q.graphs["causal"] \in Graph /\ IsFiniteSet(q.graphs["causal"].edges)
      BY <1>1 DEF QuadInv, IsQuad, Finite
  <2> QED
      BY <2>1, FS_Subset DEF Graph
<1>3. paths = {e.premises : e \in E}
    BY DEF SupportPaths
<1>4. \A ps \in paths : ps \in Seq(BeliefId)
    BY <1>2, <1>3 DEF Edge
<1>5. IsFiniteSet(paths)
  <2> DEFINE f == [e \in E |-> e.premises]
  <2>1. f \in Surjection(E, paths)
      BY <1>3 DEF Surjection
  <2> HIDE DEF f, E, paths
  <2> QED
      BY <1>2, <2>1, FS_Surjection
<1> HIDE DEF E, paths
<1>6. \A ps \in some : \E i \in DOMAIN ps : Weakest(q, ps) = ps[i]
    BY <1>4, WeakestIsPremise
<1>7. cut = {Weakest(q, ps) : ps \in some}
    BY DEF ContractionSet, paths
<1>8. cut \subseteq UNION {Range(ps) : ps \in paths}
    BY <1>6, <1>7 DEF Range
<1>9. \A ps \in some : \E i \in DOMAIN ps : ps[i] \in cut
    BY <1>6, <1>7
<1>10. IsFiniteSet(cut) /\ Cardinality(cut) <= Cardinality(paths)
  <2> DEFINE f == [ps \in some |-> Weakest(q, ps)]
  <2>1. f \in Surjection(some, cut)
      BY <1>7 DEF Surjection
  <2>2. some \in SUBSET paths
      OBVIOUS
  <2>3. IsFiniteSet(some) /\ Cardinality(some) <= Cardinality(paths)
      BY <1>5, <2>2, FS_Subset
  <2> HIDE DEF f, some, cut
  <2>4. IsFiniteSet(cut) /\ Cardinality(cut) <= Cardinality(some)
      BY <2>1, <2>3, FS_Surjection
  <2> QED
      BY <1>5, <2>3, <2>4, FS_CardinalityType
<1> QED
    BY <1>5, <1>8, <1>9, <1>10 DEF paths

\* SetToSeqs lists every member of a finite set: an injective list that left
\* one out would be too long for the rest.
LEMMA ListsAll ==
    ASSUME NEW S, IsFiniteSet(S), NEW order \in SetToSeqs(S)
    PROVE  Range(order) = S
<1> DEFINE n == Cardinality(S)
<1>1. n \in Nat /\ order \in [1 .. n -> S]
        /\ \A i, j \in 1 .. n : order[i] = order[j] => i = j
    BY FS_CardinalityType DEF SetToSeqs
<1>2. Range(order) \subseteq S
    BY <1>1 DEF Range
<1>3. ASSUME NEW x \in S, x \notin Range(order)
      PROVE  FALSE
  <2>1. order \in [1 .. n -> S \ {x}]
      BY <1>1, <1>3 DEF Range
  <2>2. IsFiniteSet(S \ {x}) /\ Cardinality(S \ {x}) = n - 1
      BY FS_RemoveElement
  <2>3. IsFiniteSet(1 .. n) /\ Cardinality(1 .. n) = n
      BY <1>1, FS_Interval
  <2>4. \E i, j \in 1 .. n : i # j /\ order[i] = order[j]
      BY <1>1, <2>1, <2>2, <2>3, FS_PigeonHole
  <2> QED
      BY <1>1, <2>4
<1> QED
    BY <1>2, <1>3

\* An expansion rewrites one belief, but for its key, and leaves the others
\* where they are.
LEMMA ExpandRetains ==
    ASSUME NEW q, QuadInv(q), NEW id \in Live(q), NEW v, NEW c, NEW slow
    PROVE  /\ Live(Expand(q, id, v, c, slow)) = Live(q)
           /\ \A o \in Live(q) \ {id} : Expand(q, id, v, c, slow).nodes[o] = q.nodes[o]
           /\ \A o \in Live(q) : Expand(q, id, v, c, slow).nodes[o].key = q.nodes[o].key
<1> DEFINE r == Expand(q, id, v, c, slow)
<1>1. r.nodes = [q.nodes EXCEPT ![id] = r.nodes[id]] /\ r.nodes[id].key = q.nodes[id].key
  <2>1. r.nodes = [q.nodes EXCEPT ![id] =
                     [key |-> q.nodes[id].key, value |-> v, fast |-> Clamp(c), slow |-> slow]]
      BY Zenon DEF Expand
  <2> HIDE DEF r
  <2> QED
      BY <2>1 DEF Live
<1> HIDE DEF r
<1>2. Live(r) = Live(q) /\ \A o \in Live(q) \ {id} : r.nodes[o] = q.nodes[o]
    BY <1>1 DEF Live
<1>3. \A o \in Live(q) : r.nodes[o].key = q.nodes[o].key
    BY <1>1, <1>2
<1> QED
    BY <1>2, <1>3 DEF r

\* What every outcome of revise() leaves behind: only members of the
\* contraction set are gone, the beliefs that stay are as they were, the target
\* apart, which keeps its key, an expansion loses nothing and a revision the whole contraction set.
LEMMA ReviseRetains ==
    ASSUME NEW q, QuadInv(q), NEW id \in BeliefId, NEW v \in Value, NEW c \in Int,
           NEW out \in Revise(q, id, v, c)
    PROVE  /\ Live(out.quad) \subseteq Live(q)
           /\ Live(q) \ Live(out.quad) \subseteq ContractionSet(q, id)
           /\ \A o \in Live(out.quad) \ {id} : out.quad.nodes[o] = q.nodes[o]
           /\ \A o \in Live(out.quad) : out.quad.nodes[o].key = q.nodes[o].key
           /\ out.result = "Expanded" => Live(out.quad) = Live(q)
           /\ out.result = "Revised" => ContractionSet(q, id) \cap Live(out.quad) = {}
<1> DEFINE cut == ContractionSet(q, id)
<1>1. CASE out.quad = q /\ out.result \notin {"Expanded", "Revised"}
    BY <1>1
<1>2. CASE /\ id \in Live(q) /\ out.quad = Expand(q, id, v, c, q.nodes[id].slow)
           /\ out.result = "Expanded"
  <2>1. q.nodes[id].slow \in Int \cup {None}
      BY <1>2 DEF QuadInv, IsQuad, Node
  <2> DEFINE r == Expand(q, id, v, c, q.nodes[id].slow)
  <2>2. /\ Live(r) = Live(q) /\ \A o \in Live(q) \ {id} : r.nodes[o] = q.nodes[o]
        /\ \A o \in Live(q) : r.nodes[o].key = q.nodes[o].key
      BY <1>2, ExpandRetains
  <2> HIDE DEF r
  <2> QED
      BY <1>2, <2>2 DEF r
<1>3. ASSUME id \in Live(q),
             NEW order \in SetToSeqs(cut \cap Live(q)),
             \/ out.quad = RemoveAll(q, order) /\ out.result = "BeliefNotFound"
             \/ /\ id \notin cut /\ out.quad = Expand(RemoveAll(q, order), id, v, c, None)
                /\ out.result = "Revised"
      PROVE  /\ Live(out.quad) = Live(q) \ cut
             /\ \A o \in Live(out.quad) \ {id} : out.quad.nodes[o] = q.nodes[o]
             /\ \A o \in Live(out.quad) : out.quad.nodes[o].key = q.nodes[o].key
             /\ out.result # "Expanded"
  <2> DEFINE q1 == RemoveAll(q, order)
  <2>1. IsFiniteSet(cut \cap Live(q))
      BY FS_Subset DEF QuadInv, Finite
  <2>2. /\ order \in Seq(cut \cap Live(q))
        /\ \A i, j \in DOMAIN order : order[i] = order[j] => i = j
        /\ Range(order) = cut \cap Live(q)
      BY <2>1, <1>3, ListsOfASet, ListsAll
  <2>3. order \in Seq(Live(q))
      BY <2>2
  <2>4. /\ QuadInv(q1) /\ Live(q1) = Live(q) \ cut
        /\ \A o \in Live(q1) : q1.nodes[o] = q.nodes[o]
      BY <2>2, <2>3, RemoveAllInv
  <2>5. CASE /\ id \notin cut /\ out.quad = Expand(q1, id, v, c, None)
             /\ out.result = "Revised"
    <3>1. id \in Live(q1)
        BY <1>3, <2>4, <2>5
    <3> HIDE DEF q1
    <3> DEFINE r == Expand(q1, id, v, c, None)
    <3>2. /\ Live(r) = Live(q1) /\ \A o \in Live(q1) \ {id} : r.nodes[o] = q1.nodes[o]
          /\ \A o \in Live(q1) : r.nodes[o].key = q1.nodes[o].key
        BY <2>4, <3>1, ExpandRetains
    <3> HIDE DEF r
    <3>3. out.quad = r
        BY <2>5 DEF r
    <3> QED
        BY <2>4, <2>5, <3>2, <3>3
  <2>6. CASE out.quad = q1 /\ out.result = "BeliefNotFound"
    <3> HIDE DEF q1
    <3> QED
        BY <2>4, <2>6
  <2> QED
      BY <1>3, <2>5, <2>6
<1> HIDE DEF cut
<1>4. CASE /\ Live(out.quad) = Live(q) \ cut
           /\ \A o \in Live(out.quad) \ {id} : out.quad.nodes[o] = q.nodes[o]
           /\ \A o \in Live(out.quad) : out.quad.nodes[o].key = q.nodes[o].key
           /\ out.result # "Expanded"
    BY <1>4 DEF cut
<1>5. \/ out.quad = q /\ out.result \notin {"Expanded", "Revised"}
      \/ /\ id \in Live(q) /\ out.quad = Expand(q, id, v, c, q.nodes[id].slow)
         /\ out.result = "Expanded"
      \/ /\ id \in Live(q)
         /\ \E order \in SetToSeqs(cut \cap Live(q)) :
              \/ out.quad = RemoveAll(q, order) /\ out.result = "BeliefNotFound"
              \/ /\ id \notin cut /\ out.quad = Expand(RemoveAll(q, order), id, v, c, None)
                 /\ out.result = "Revised"
    BY DEF Revise, Outcome, cut
<1> QED
    BY <1>1, <1>2, <1>3, <1>4, <1>5

-----------------------------------------------------------------------------
(* System 1: confidences stay within [0, 1]. *)

\* What the rounding of a division keeps.
LEMMA DivFloor ==
    ASSUME NEW a \in Nat, NEW d \in Nat \ {0}
    PROVE  a \div d \in Nat /\ d * (a \div d) <= a /\ a < d * (a \div d) + d
OBVIOUS

LEMMA TimesMonotone ==
    ASSUME NEW a \in Nat, NEW b \in Nat, NEW c \in Nat, NEW d \in Nat, a <= b, c <= d
    PROVE  a * c \in Nat /\ a * c <= b * d
<1>1. a * c <= a * d /\ a * d <= b * d /\ a * c \in Nat /\ a * d \in Nat /\ b * d \in Nat
    OBVIOUS
<1> QED
    BY <1>1

LEMMA TimesPositive ==
    ASSUME NEW a \in Nat \ {0}, NEW b \in Nat \ {0}
    PROVE  a * b \in Nat \ {0}
<1>1. 1 * 1 <= a * b /\ a * b \in Nat
    BY TimesMonotone
<1> QED
    BY <1>1

LEMMA DivMonotone ==
    ASSUME NEW a \in Nat, NEW b \in Nat, NEW d \in Nat \ {0}, a <= b
    PROVE  a \div d <= b \div d
<1> DEFINE x == a \div d
           y == b \div d
<1>1. x \in Nat /\ y \in Nat /\ d * x <= a /\ b < d * y + d
    BY DivFloor
<1> HIDE DEF x, y
<1>2. ASSUME y + 1 <= x PROVE FALSE
  <2>1. d * (y + 1) <= d * x
      BY <1>1, <1>2, TimesMonotone
  <2>2. d * (y + 1) = d * y + d
      BY <1>1
  <2> QED
      BY <1>1, <2>1, <2>2
<1> QED
    BY <1>1, <1>2 DEF x, y

LEMMA DivBound ==
    ASSUME NEW a \in Nat, NEW k \in Nat, NEW d \in Nat \ {0}, a <= d * k
    PROVE  a \div d \in 0 .. k
<1> DEFINE x == a \div d
<1>1. x \in Nat /\ d * x <= a
    BY DivFloor
<1> HIDE DEF x
<1>2. ASSUME k + 1 <= x PROVE FALSE
  <2>1. d * (k + 1) <= d * x
      BY <1>1, <1>2, TimesMonotone
  <2>2. d * (k + 1) = d * k + d /\ d * x \in Nat /\ d * k \in Nat
      BY <1>1
  <2> QED
      BY <1>1, <2>1, <2>2
<1> QED
    BY <1>1, <1>2 DEF x

\* The running product of the factors w, by its recursive equation and by what
\* the equation says of each value.
Factors(n) == [1 .. n -> Nat]
ProductEquation(m, n, w) == m = [i \in 0 .. n |-> IF i = 0 THEN 1 ELSE m[i - 1] * w[i]]
Products(m, n, w) ==
    /\ m \in [0 .. n -> Nat] /\ m[0] = 1
    /\ \A i \in 1 .. n : m[i] = m[i - 1] * w[i]

\* The equation has a solution and every solution is a running product.
LEMMA RunningProduct ==
    ASSUME NEW n \in Nat, NEW w \in Factors(n)
    PROVE  /\ \E m : ProductEquation(m, n, w)
           /\ \A m : ProductEquation(m, n, w) => Products(m, n, w)
<1> USE DEF Factors, ProductEquation, Products
<1> DEFINE step == [x \in (1 .. n) \X Nat |-> x[2] * w[x[1]]]
<1>1. step \in Steps(n, Nat) /\ 1 \in Nat
  <2>1. \A x \in (1 .. n) \X Nat : x[2] * w[x[1]] \in Nat
      OBVIOUS
  <2> QED
      BY <2>1 DEF Steps
<1>2. \A i \in 1 .. n, x \in Nat : step[<<i, x>>] = x * w[i]
    OBVIOUS
<1> HIDE DEF step
<1>3. PICK f : Iterates(f, n, Nat, 1, step)
    BY <1>1, SegmentRecursion
<1>4. ProductEquation(f, n, w)
  <2> USE <1>3 DEF Iterates
  <2>1. \A i \in 0 .. n : f[i] = IF i = 0 THEN 1 ELSE f[i - 1] * w[i]
    <3> SUFFICES ASSUME NEW i \in 0 .. n PROVE f[i] = IF i = 0 THEN 1 ELSE f[i - 1] * w[i]
        OBVIOUS
    <3>1. CASE i = 0
        BY <1>3, <3>1
    <3>2. CASE i # 0
      <4>1. i \in 1 .. n /\ i - 1 \in 0 .. n
          BY <3>2
      <4>2. f[i - 1] \in Nat
          BY <4>1
      <4> QED
          BY <1>2, <1>3, <3>2, <4>1, <4>2
    <3> QED
        BY <3>1, <3>2
  <2> QED
      BY <2>1
<1>5. ASSUME NEW m, ProductEquation(m, n, w)
      PROVE  Products(m, n, w)
  <2> DEFINE T == {i \in 0 .. n : m[i] \in Nat}
  <2>1. DOMAIN m = 0 .. n
      BY <1>5
  <2>2. m[0] = 1 /\ \A i \in 1 .. n : m[i] = m[i - 1] * w[i]
    <3>1. \A i \in 0 .. n : m[i] = IF i = 0 THEN 1 ELSE m[i - 1] * w[i]
        BY <1>5
    <3>2. 0 \in 0 .. n /\ \A i \in 1 .. n : i \in 0 .. n /\ i # 0
        OBVIOUS
    <3> QED
        BY <3>1, <3>2
  <2>3. 0 \in T
      BY <2>2
  <2>4. ASSUME NEW i \in 0 .. n - 1, i \in T PROVE i + 1 \in T
    <3>1. i + 1 \in 1 .. n /\ (i + 1) - 1 = i
        OBVIOUS
    <3>2. m[i + 1] = m[i] * w[i + 1] /\ w[i + 1] \in Nat /\ m[i] \in Nat
        BY <2>2, <2>4, <3>1
    <3> QED
        BY <3>1, <3>2
  <2> HIDE DEF T
  <2>5. 0 .. n \subseteq T
      BY <2>3, <2>4, SegmentInduction
  <2>6. \A i \in 0 .. n : m[i] \in Nat
      BY <2>5 DEF T
  <2>7. m = [i \in 0 .. n |-> m[i]]
      BY <1>5
  <2> QED
      BY <2>2, <2>6, <2>7
<1> HIDE DEF ProductEquation, Products
<1> QED
    BY <1>4, <1>5

\* The two products of NoisyOr, doubts over units.
LEMMA NoisyOrProducts ==
    ASSUME NEW n \in Nat, NEW cs \in [1 .. n -> Conf]
    PROVE  \E miss, unit \in [0 .. n -> Nat] :
             /\ miss[0] = 1 /\ unit[0] = 1
             /\ \A i \in 1 .. n : /\ miss[i] = miss[i - 1] * (Scale - cs[i])
                                  /\ unit[i] = unit[i - 1] * Scale
             /\ NoisyOr(cs) = Scale - (Scale * miss[n]) \div unit[n]
<1> DEFINE Miss(m) == m = [i \in 0 .. n |-> IF i = 0 THEN 1 ELSE m[i - 1] * (Scale - cs[i])]
           Unit(m) == m = [i \in 0 .. n |-> IF i = 0 THEN 1 ELSE m[i - 1] * Scale]
           w == [i \in 1 .. n |-> Scale - cs[i]]
           u == [i \in 1 .. n |-> Scale]
<1>1. w \in Factors(n) /\ u \in Factors(n)
    BY QuadAssumption DEF Conf, Factors
<1>2. /\ \A m : Miss(m) <=> ProductEquation(m, n, w)
      /\ \A m : Unit(m) <=> ProductEquation(m, n, u)
  <2>1. \A m : [i \in 0 .. n |-> IF i = 0 THEN 1 ELSE m[i - 1] * (Scale - cs[i])]
               = [i \in 0 .. n |-> IF i = 0 THEN 1 ELSE m[i - 1] * w[i]]
      OBVIOUS
  <2>2. \A m : [i \in 0 .. n |-> IF i = 0 THEN 1 ELSE m[i - 1] * Scale]
               = [i \in 0 .. n |-> IF i = 0 THEN 1 ELSE m[i - 1] * u[i]]
      OBVIOUS
  <2> QED
      BY <2>1, <2>2 DEF ProductEquation
<1> HIDE DEF Miss, Unit
<1>3. /\ \E m : Miss(m)
      /\ \A m : Miss(m) => Products(m, n, w)
  <2> HIDE DEF w
  <2> QED
      BY <1>1, <1>2, RunningProduct
<1>4. /\ \E m : Unit(m)
      /\ \A m : Unit(m) => Products(m, n, u)
  <2> HIDE DEF u
  <2> QED
      BY <1>1, <1>2, RunningProduct
<1> DEFINE miss == CHOOSE m : Miss(m)
           unit == CHOOSE m : Unit(m)
<1>5. NoisyOr(cs) = Scale - (Scale * miss[n]) \div unit[n]
  <2>1. Len(cs) = n
    <3>1. cs \in Seq(Conf)
        BY FunctionIsSeq
    <3> QED
        BY <3>1
  <2>2. NoisyOr(cs) =
          LET ms == CHOOSE m : m = [i \in 0 .. Len(cs) |-> IF i = 0 THEN 1 ELSE m[i - 1] * (Scale - cs[i])]
              us == CHOOSE m : m = [i \in 0 .. Len(cs) |-> IF i = 0 THEN 1 ELSE m[i - 1] * Scale]
          IN  Scale - (Scale * ms[Len(cs)]) \div us[Len(cs)]
      BY Zenon DEF NoisyOr
  <2> QED
      BY <2>1, <2>2, Zenon DEF Miss, Unit
<1>6. Miss(miss) /\ Unit(unit)
    BY <1>3, <1>4, Zenon
<1> HIDE DEF miss, unit
<1>7. /\ miss \in [0 .. n -> Nat] /\ unit \in [0 .. n -> Nat]
      /\ miss[0] = 1 /\ unit[0] = 1
      /\ \A i \in 1 .. n : /\ miss[i] = miss[i - 1] * (Scale - cs[i])
                           /\ unit[i] = unit[i - 1] * Scale
    BY <1>3, <1>4, <1>6 DEF Products
<1> QED
    BY <1>5, <1>7

\* The combined confidence of confidences is a confidence: the doubts' product
\* never exceeds the units', and the rounding stays inside.
LEMMA NoisyOrType ==
    ASSUME NEW n \in Nat, NEW cs \in [1 .. n -> Conf]
    PROVE  NoisyOr(cs) \in Conf
<1>1. PICK miss \in [0 .. n -> Nat], unit \in [0 .. n -> Nat] :
        /\ miss[0] = 1 /\ unit[0] = 1
        /\ \A i \in 1 .. n : /\ miss[i] = miss[i - 1] * (Scale - cs[i])
                             /\ unit[i] = unit[i - 1] * Scale
        /\ NoisyOr(cs) = Scale - (Scale * miss[n]) \div unit[n]
    BY NoisyOrProducts
<1> DEFINE T == {i \in 0 .. n : miss[i] <= unit[i] /\ unit[i] > 0}
<1>2. 0 \in T
    BY <1>1
<1>3. ASSUME NEW i \in 0 .. n - 1, i \in T PROVE i + 1 \in T
  <2>1. i + 1 \in 1 .. n /\ i + 1 \in 0 .. n /\ (i + 1) - 1 = i
      OBVIOUS
  <2>2. /\ miss[i + 1] = miss[i] * (Scale - cs[i + 1])
        /\ unit[i + 1] = unit[i] * Scale
      BY <1>1, <2>1
  <2> DEFINE a == miss[i]
             b == unit[i]
             x == Scale - cs[i + 1]
  <2>3. x \in Nat /\ x <= Scale /\ Scale \in Nat \ {0}
    <3> DEFINE z == cs[i + 1]
    <3>1. z \in Conf
        BY <2>1
    <3>2. x = Scale - z
        OBVIOUS
    <3> HIDE DEF T, x, z
    <3> QED
        BY <3>1, <3>2, QuadAssumption DEF Conf
  <2>4. a \in Nat /\ b \in Nat \ {0} /\ a <= b
      BY <1>3
  <2>5. miss[i + 1] = a * x /\ unit[i + 1] = b * Scale
      BY <2>2
  <2> HIDE DEF a, b, x
  <2>6. a * x <= b * Scale /\ b * Scale \in Nat \ {0}
      BY ONLY <2>3, <2>4, TimesMonotone, TimesPositive
  <2> QED
      BY <2>1, <2>5, <2>6
<1>4. n \in T
  <2>1. 0 .. n \subseteq T
    <3> HIDE DEF T
    <3> QED
        BY <1>2, <1>3, SegmentInduction
  <2> QED
      BY <2>1
<1>5. miss[n] \in Nat /\ unit[n] \in Nat \ {0} /\ miss[n] <= unit[n] /\ Scale \in Nat
    BY <1>4, QuadAssumption
<1>6. Scale * miss[n] \in Nat /\ Scale * miss[n] <= unit[n] * Scale
  <2>1. miss[n] * Scale \in Nat /\ miss[n] * Scale <= unit[n] * Scale
      BY <1>5, TimesMonotone
  <2> QED
      BY <1>5, <2>1
<1>7. (Scale * miss[n]) \div unit[n] \in 0 .. Scale
    BY <1>5, <1>6, DivBound
<1> QED
    BY <1>1, <1>5, <1>7 DEF Conf

\* The more confidence, the less doubt.
LEMMA Doubts ==
    ASSUME NEW c \in Conf, NEW d \in Conf, c <= d
    PROVE  Scale - c \in Nat /\ Scale - d \in Nat /\ Scale - d <= Scale - c
BY QuadAssumption DEF Conf

\* Noisy-OR is monotone in every argument.
LEMMA NoisyOrMonotone ==
    ASSUME NEW n \in Nat, NEW cs \in [1 .. n -> Conf], NEW ds \in [1 .. n -> Conf],
           \A i \in 1 .. n : cs[i] <= ds[i]
    PROVE  NoisyOr(cs) <= NoisyOr(ds)
<1>1. PICK missC \in [0 .. n -> Nat], unitC \in [0 .. n -> Nat] :
        /\ missC[0] = 1 /\ unitC[0] = 1
        /\ \A i \in 1 .. n : /\ missC[i] = missC[i - 1] * (Scale - cs[i])
                             /\ unitC[i] = unitC[i - 1] * Scale
        /\ NoisyOr(cs) = Scale - (Scale * missC[n]) \div unitC[n]
    BY NoisyOrProducts
<1>2. PICK missD \in [0 .. n -> Nat], unitD \in [0 .. n -> Nat] :
        /\ missD[0] = 1 /\ unitD[0] = 1
        /\ \A i \in 1 .. n : /\ missD[i] = missD[i - 1] * (Scale - ds[i])
                             /\ unitD[i] = unitD[i - 1] * Scale
        /\ NoisyOr(ds) = Scale - (Scale * missD[n]) \div unitD[n]
    BY NoisyOrProducts
<1> DEFINE T == {i \in 0 .. n : missD[i] <= missC[i] /\ unitC[i] = unitD[i] /\ unitC[i] > 0}
<1>3. 0 \in T
    BY <1>1, <1>2
<1>4. ASSUME NEW i \in 0 .. n - 1, i \in T PROVE i + 1 \in T
  <2>1. i + 1 \in 1 .. n /\ i + 1 \in 0 .. n /\ (i + 1) - 1 = i
      OBVIOUS
  <2>2. /\ missC[i + 1] = missC[i] * (Scale - cs[i + 1])
        /\ missD[i + 1] = missD[i] * (Scale - ds[i + 1])
        /\ unitC[i + 1] = unitC[i] * Scale /\ unitD[i + 1] = unitD[i] * Scale
      BY <1>1, <1>2, <2>1
  <2> DEFINE a == missD[i]
             b == missC[i]
             u == unitC[i]
             x == Scale - ds[i + 1]
             y == Scale - cs[i + 1]
  <2>3. x \in Nat /\ y \in Nat /\ x <= y /\ Scale \in Nat \ {0}
    <3>1. cs[i + 1] \in Conf /\ ds[i + 1] \in Conf /\ cs[i + 1] <= ds[i + 1]
        BY <2>1
    <3> QED
        BY <3>1, Doubts, QuadAssumption
  <2>4. a \in Nat /\ b \in Nat /\ a <= b /\ u \in Nat \ {0} /\ unitD[i] = u
      BY <1>4
  <2>5. /\ missD[i + 1] = a * x /\ missC[i + 1] = b * y
        /\ unitC[i + 1] = u * Scale /\ unitD[i + 1] = u * Scale
      BY <2>2, <2>4
  <2> HIDE DEF a, b, u, x, y
  <2>6. a * x <= b * y /\ u * Scale \in Nat \ {0}
      BY ONLY <2>3, <2>4, TimesMonotone, TimesPositive
  <2> QED
      BY <2>1, <2>5, <2>6
<1>5. n \in T
  <2>1. 0 .. n \subseteq T
    <3> HIDE DEF T
    <3> QED
        BY <1>3, <1>4, SegmentInduction
  <2> QED
      BY <2>1
<1>6. /\ missC[n] \in Nat /\ missD[n] \in Nat /\ unitC[n] \in Nat \ {0}
      /\ missD[n] <= missC[n] /\ unitC[n] = unitD[n] /\ Scale \in Nat
    BY <1>5, QuadAssumption
<1>7. Scale * missD[n] <= Scale * missC[n] /\ Scale * missD[n] \in Nat /\ Scale * missC[n] \in Nat
  <2>1. missC[n] * Scale \in Nat /\ Scale * missC[n] = missC[n] * Scale
      BY <1>6, TimesMonotone
  <2> QED
      BY <1>6, <2>1, TimesMonotone
<1> DEFINE x == (Scale * missD[n]) \div unitC[n]
           y == (Scale * missC[n]) \div unitC[n]
<1>8. x <= y /\ x \in Nat /\ y \in Nat
    BY <1>6, <1>7, DivMonotone, DivFloor
<1>9. NoisyOr(cs) = Scale - y /\ NoisyOr(ds) = Scale - x
    BY <1>1, <1>2, <1>6
<1> HIDE DEF x, y
<1> QED
    BY <1>6, <1>8, <1>9

\* A bounded, non-empty set of confidences has a greatest member.
LEMMA Greatest ==
    ASSUME NEW E \in SUBSET Conf, E # {}
    PROVE  \E c \in E : \A d \in E : d <= c
<1> DEFINE T == {Scale - c : c \in E}
<1>1. T \in SUBSET Nat /\ T # {}
    BY QuadAssumption DEF Conf
<1>2. PICK m \in T : \A k \in T : m <= k
  <2> HIDE DEF T
  <2> QED
      BY <1>1, Least
<1>3. PICK c \in E : m = Scale - c
    OBVIOUS
<1>4. \A d \in E : d <= c
  <2> SUFFICES ASSUME NEW d \in E PROVE d <= c
      OBVIOUS
  <2>1. Scale - c <= Scale - d /\ c \in Int /\ d \in Int /\ Scale \in Int
      BY <1>2, <1>3, QuadAssumption DEF Conf
  <2> QED
      BY <2>1
<1> QED
    BY <1>4

\* Assignments of confidences to the live beliefs, and decay factors for them.
FastMaps(q) == [Live(q) -> Conf]
Decaying(q, decay) == \A id \in Live(q) : decay[id] \in Conf

\* One edge's confidence is a confidence: dead premises count as 0.
LEMMA EdgeConfidenceType ==
    ASSUME NEW q, NEW fast \in FastMaps(q), NEW ps \in Seq(BeliefId)
    PROVE  EdgeConfidence(q, fast, ps) \in Conf
<1> DEFINE cs == [i \in DOMAIN ps |-> IF ps[i] \in Live(q) THEN fast[ps[i]] ELSE 0]
<1>1. Len(ps) \in Nat /\ DOMAIN ps = 1 .. Len(ps) /\ 0 \in Conf
    BY QuadAssumption DEF Conf
<1>2. \A i \in DOMAIN ps : (IF ps[i] \in Live(q) THEN fast[ps[i]] ELSE 0) \in Conf
    BY <1>1 DEF FastMaps
<1>3. cs \in [1 .. Len(ps) -> Conf]
    BY <1>1, <1>2
<1>4. EdgeConfidence(q, fast, ps) = NoisyOr(cs)
    BY Zenon DEF EdgeConfidence
<1> HIDE DEF cs
<1> QED
    BY <1>1, <1>3, <1>4, NoisyOrType

\* Support paths are lists of ids.
LEMMA SupportPathsType ==
    ASSUME NEW q, QuadInv(q), NEW id
    PROVE  SupportPaths(q, id) \subseteq Seq(BeliefId)
<1>1. "causal" \in Projection
    BY DEF Projection
<1>2. q.graphs["causal"].edges \subseteq Edge
    BY <1>1 DEF QuadInv, IsQuad, Graph
<1> QED
    BY <1>2 DEF SupportPaths, Edge

\* Best evidence and decay stay within [0, 1], and are what the maximum of the
\* edges' confidences gives; without evidence the belief keeps its confidence.
LEMMA RecomputedCases ==
    ASSUME NEW q, QuadInv(q), NEW fast \in FastMaps(q), NEW decay, NEW id \in Live(q),
           decay[id] \in Conf
    PROVE  /\ Recomputed(q, decay, fast, id) \in Conf
           /\ SupportPaths(q, id) = {} => Recomputed(q, decay, fast, id) = fast[id]
           /\ SupportPaths(q, id) # {} =>
                \E ps \in SupportPaths(q, id) :
                  /\ Recomputed(q, decay, fast, id)
                       = (EdgeConfidence(q, fast, ps) * decay[id]) \div Scale
                  /\ \A d \in SupportPaths(q, id) :
                       EdgeConfidence(q, fast, d) <= EdgeConfidence(q, fast, ps)
<1> DEFINE evidence == {EdgeConfidence(q, fast, ps) : ps \in SupportPaths(q, id)}
           best     == CHOOSE c \in evidence : \A d \in evidence : d <= c
<1>1. evidence \in SUBSET Conf
    BY EdgeConfidenceType, SupportPathsType
<1>2. Recomputed(q, decay, fast, id) =
        IF evidence = {} THEN fast[id] ELSE (best * decay[id]) \div Scale
    BY Zenon DEF Recomputed
<1>3. evidence = {} <=> SupportPaths(q, id) = {}
    OBVIOUS
<1>4. CASE evidence = {}
    BY <1>2, <1>3, <1>4 DEF FastMaps
<1>5. CASE evidence # {}
  <2>1. \E c \in evidence : \A d \in evidence : d <= c
    <3> HIDE DEF evidence
    <3> QED
        BY <1>1, <1>5, Greatest
  <2>2. best \in evidence /\ \A d \in evidence : d <= best
    <3> HIDE DEF evidence
    <3> QED
        BY <2>1, Zenon
  <2>3. PICK ps \in SupportPaths(q, id) : best = EdgeConfidence(q, fast, ps)
    <3> HIDE DEF best
    <3> QED
        BY <2>2
  <2> HIDE DEF best
  <2>4. \A d \in SupportPaths(q, id) : EdgeConfidence(q, fast, d) <= EdgeConfidence(q, fast, ps)
      BY <2>2, <2>3
  <2>5. best \in Conf
      BY <1>1, <2>2
  <2> HIDE DEF evidence
  <2>6. (best * decay[id]) \div Scale \in Conf
    <3> DEFINE x == decay[id]
    <3>1. best \in Nat /\ x \in Nat /\ Scale \in Nat \ {0} /\ best <= Scale /\ x <= Scale
        BY <2>5, QuadAssumption DEF Conf
    <3> HIDE DEF x
    <3>2. best * x \in Nat /\ best * x <= Scale * Scale
        BY ONLY <3>1, TimesMonotone
    <3>3. (best * x) \div Scale \in 0 .. Scale
        BY ONLY <3>1, <3>2, DivBound
    <3> QED
        BY <3>3 DEF Conf, x
  <2> QED
      BY <1>2, <1>3, <1>5, <2>3, <2>4, <2>6
<1> QED
    BY <1>4, <1>5

\* Where the causal edges from beliefs of S lead to.
Heads(q, S) == {e.to : e \in {x \in q.graphs["causal"].edges : x.from \in S}}

\* descendants_of collects the heads of what it has collected, once per belief.
LEMMA DescendantsSteps ==
    ASSUME NEW q, QuadInv(q), NEW id
    PROVE  LET N == Cardinality(Live(q))
           IN  /\ N \in Nat
               /\ \E r \in [0 .. N -> SUBSET Live(q)] :
                    /\ r[0] = Heads(q, {id})
                    /\ \A n \in 1 .. N : r[n] = r[n - 1] \cup Heads(q, r[n - 1])
                    /\ Descendants(q, id) = r[N] \ {id}
<1> DEFINE N       == Cardinality(Live(q))
           succ(S) == {e.to : e \in {x \in q.graphs["causal"].edges : x.from \in S}}
           step    == [x \in (1 .. N) \X SUBSET Live(q) |-> x[2] \cup succ(x[2])]
           Reaches(r) == r = [n \in 0 .. N |-> IF n = 0 THEN succ({id})
                                               ELSE r[n - 1] \cup succ(r[n - 1])]
<1>1. N \in Nat
    BY FS_CardinalityType DEF QuadInv, Finite
<1>2. \A S : succ(S) \in SUBSET Live(q)
    BY DEF QuadInv, ProjectionsAgree, Projection
<1>3. step \in Steps(N, SUBSET Live(q)) /\ succ({id}) \in SUBSET Live(q)
    BY <1>2 DEF Steps
<1>4. \A i \in 1 .. N, S \in SUBSET Live(q) : step[<<i, S>>] = S \cup succ(S)
    OBVIOUS
<1>10. \A S : Heads(q, S) = succ(S)
    BY DEF Heads
<1> HIDE DEF step, succ, N
<1>5. PICK f : Iterates(f, N, SUBSET Live(q), succ({id}), step)
    BY <1>1, <1>3, SegmentRecursion
<1>6. Reaches(f)
  <2> SUFFICES ASSUME NEW n \in 0 .. N
               PROVE  f[n] = IF n = 0 THEN succ({id}) ELSE f[n - 1] \cup succ(f[n - 1])
      BY <1>5 DEF Iterates
  <2>1. CASE n = 0
      BY <1>5, <2>1 DEF Iterates
  <2>2. CASE n # 0
    <3>1. n \in 1 .. N /\ n - 1 \in 0 .. N
        BY <1>1, <2>2
    <3>2. f[n - 1] \in SUBSET Live(q) /\ f[n] = step[<<n, f[n - 1]>>]
        BY <1>5, <3>1 DEF Iterates
    <3> QED
        BY <1>4, <2>2, <3>1, <3>2
  <2> QED
      BY <2>1, <2>2
<1>7. ASSUME NEW r, Reaches(r)
      PROVE  /\ r \in [0 .. N -> SUBSET Live(q)] /\ r[0] = succ({id})
             /\ \A n \in 1 .. N : r[n] = r[n - 1] \cup succ(r[n - 1])
  <2>1. \A n \in 0 .. N : r[n] = IF n = 0 THEN succ({id}) ELSE r[n - 1] \cup succ(r[n - 1])
      BY <1>7
  <2>2. r[0] = succ({id})
    <3>1. 0 \in 0 .. N
        BY <1>1
    <3> HIDE DEF succ
    <3>2. r[0] = IF 0 = 0 THEN succ({id}) ELSE r[0 - 1] \cup succ(r[0 - 1])
        BY ONLY <2>1, <3>1
    <3> QED
        BY <3>2
  <2>3. ASSUME NEW n \in 1 .. N PROVE r[n] = r[n - 1] \cup succ(r[n - 1])
    <3>1. n \in 0 .. N /\ n # 0
        BY <1>1
    <3> QED
        BY <2>1, <3>1
  <2>4. \A n \in 0 .. N : r[n] \in SUBSET Live(q)
    <3> SUFFICES ASSUME NEW n \in 0 .. N PROVE r[n] \in SUBSET Live(q)
        OBVIOUS
    <3> DEFINE T == {k \in 0 .. N : r[k] \subseteq Live(q)}
    <3>1. 0 \in T
        BY <1>1, <1>3, <2>2
    <3>2. ASSUME NEW k \in 0 .. N - 1, k \in T PROVE k + 1 \in T
      <4>1. k + 1 \in 1 .. N /\ (k + 1) - 1 = k
          BY <1>1
      <4>2. r[k + 1] = r[k] \cup succ(r[k])
          BY <2>3, <4>1
      <4> QED
          BY <1>2, <3>2, <4>1, <4>2
    <3> HIDE DEF T
    <3>3. 0 .. N \subseteq T
        BY <1>1, <3>1, <3>2, SegmentInduction
    <3> QED
        BY <3>3 DEF T
  <2>5. r = [n \in 0 .. N |-> r[n]]
      BY <1>7
  <2> QED
      BY <2>2, <2>3, <2>4, <2>5
<1> DEFINE reach == CHOOSE r : Reaches(r)
<1>8. Descendants(q, id) = reach[N] \ {id}
    BY Zenon DEF Descendants, N, succ
<1>9. Reaches(reach)
  <2> HIDE DEF Reaches
  <2> QED
      BY <1>6, Zenon
<1> HIDE DEF Reaches, reach
<1>11. /\ reach \in [0 .. N -> SUBSET Live(q)] /\ reach[0] = Heads(q, {id})
       /\ \A n \in 1 .. N : reach[n] = reach[n - 1] \cup Heads(q, reach[n - 1])
  <2>1. /\ reach \in [0 .. N -> SUBSET Live(q)] /\ reach[0] = succ({id})
        /\ \A n \in 1 .. N : reach[n] = reach[n - 1] \cup succ(reach[n - 1])
      BY <1>7, <1>9, Zenon
  <2>2. Heads(q, {id}) = succ({id}) /\ \A n : Heads(q, reach[n - 1]) = succ(reach[n - 1])
      BY <1>10, Zenon
  <2> QED
      BY <2>1, <2>2
<1>12. /\ N \in Nat
       /\ \E r \in [0 .. N -> SUBSET Live(q)] :
            /\ r[0] = Heads(q, {id})
            /\ \A n \in 1 .. N : r[n] = r[n - 1] \cup Heads(q, r[n - 1])
            /\ Descendants(q, id) = r[N] \ {id}
    BY <1>1, <1>8, <1>11
<1> QED
    BY <1>12, Zenon DEF N

\* Beliefs downstream of a belief are live: no causal edge dangles.
LEMMA DescendantsLive ==
    ASSUME NEW q, QuadInv(q), NEW id
    PROVE  Descendants(q, id) \subseteq Live(q)
<1> DEFINE N == Cardinality(Live(q))
<1>1. /\ N \in Nat
      /\ \E r \in [0 .. N -> SUBSET Live(q)] : Descendants(q, id) = r[N] \ {id}
    BY DescendantsSteps
<1> HIDE DEF N
<1> QED
    BY <1>1

\* What descendants_of collects, together with its start, is closed under
\* causal edges: a belief is collected per step until nothing is left.
LEMMA DescendantsClosed ==
    ASSUME NEW q, QuadInv(q), NEW id, NEW e \in q.graphs["causal"].edges,
           e.from \in {id} \cup Descendants(q, id)
    PROVE  e.to \in {id} \cup Descendants(q, id)
<1> DEFINE N == Cardinality(Live(q))
<1>1. /\ N \in Nat
      /\ \E r \in [0 .. N -> SUBSET Live(q)] :
           /\ r[0] = Heads(q, {id})
           /\ \A n \in 1 .. N : r[n] = r[n - 1] \cup Heads(q, r[n - 1])
           /\ Descendants(q, id) = r[N] \ {id}
    BY DescendantsSteps
<1>2. IsFiniteSet(Live(q))
    BY DEF QuadInv, Finite
<1>3. \A A \in SUBSET Live(q) : /\ IsFiniteSet(A) /\ Cardinality(A) \in Nat
                                /\ Cardinality(A) <= N
                                /\ \A B \in SUBSET A : B # A => Cardinality(B) < Cardinality(A)
    BY <1>2, FS_Subset, FS_CardinalityType
<1> HIDE DEF N
<1>4. PICK r \in [0 .. N -> SUBSET Live(q)] :
        /\ r[0] = Heads(q, {id})
        /\ \A n \in 1 .. N : r[n] = r[n - 1] \cup Heads(q, r[n - 1])
        /\ Descendants(q, id) = r[N] \ {id}
    BY <1>1
<1> DEFINE Closed(A) == Heads(q, A) \subseteq A
           T == {n \in 0 .. N : /\ r[0] \subseteq r[n]
                                /\ Closed(r[n]) \/ Cardinality(r[n]) >= n + 1}
<1>5. 0 \in T
  <2>1. CASE r[0] = {}
    <3>1. Closed(r[0])
        BY <2>1 DEF Heads
    <3> QED
        BY <1>1, <3>1
  <2>2. CASE r[0] # {}
    <3>1. 0 \in 0 .. N /\ r[0] \in SUBSET Live(q)
        BY <1>1
    <3>2. {} \in SUBSET r[0] /\ Cardinality({}) = 0
        BY FS_EmptySet
    <3>3. Cardinality(r[0]) >= 1
        BY <1>3, <2>2, <3>1, <3>2
    <3> QED
        BY <3>1, <3>3
  <2> QED
      BY <2>1, <2>2
<1>6. ASSUME NEW n \in 0 .. N - 1, n \in T PROVE n + 1 \in T
  <2>1. n + 1 \in 1 .. N /\ (n + 1) - 1 = n /\ n \in 0 .. N /\ n + 1 \in 0 .. N
      BY <1>1
  <2>2. r[n + 1] = r[n] \cup Heads(q, r[n]) /\ r[n] \in SUBSET Live(q) /\ r[n + 1] \in SUBSET Live(q)
      BY <1>4, <2>1
  <2>3. CASE Closed(r[n])
    <3>1. r[n + 1] = r[n]
        BY <2>2, <2>3
    <3> QED
        BY <1>6, <2>1, <2>3, <3>1
  <2>4. CASE ~Closed(r[n])
    <3>1. Cardinality(r[n]) >= n + 1
        BY <1>6, <2>4
    <3>2. r[n] \in SUBSET r[n + 1] /\ r[n] # r[n + 1]
        BY <2>2, <2>4
    <3>3. Cardinality(r[n]) < Cardinality(r[n + 1])
        BY <1>3, <2>2, <3>2
    <3>4. Cardinality(r[n]) \in Nat /\ Cardinality(r[n + 1]) \in Nat
        BY <1>3, <2>2
    <3>5. Cardinality(r[n + 1]) >= (n + 1) + 1
        BY <2>1, <3>1, <3>3, <3>4
    <3> QED
        BY <1>6, <2>1, <3>2, <3>5
  <2> QED
      BY <2>3, <2>4
<1> HIDE DEF T
<1>7. 0 .. N \subseteq T
    BY <1>1, <1>5, <1>6, SegmentInduction
<1>8. /\ r[0] \subseteq r[N] /\ r[N] \in SUBSET Live(q)
      /\ Closed(r[N]) \/ Cardinality(r[N]) >= N + 1
    BY <1>1, <1>7 DEF T
<1>9. Closed(r[N])
    BY <1>1, <1>3, <1>8
<1>10. CASE e.from = id
  <2>1. e.to \in r[0]
      BY <1>4, <1>10 DEF Heads
  <2> QED
      BY <1>4, <1>8, <2>1
<1>11. CASE e.from # id
  <2>1. e.from \in r[N]
      BY <1>4, <1>11
  <2>2. e.to \in Heads(q, r[N])
      BY <2>1 DEF Heads
  <2> QED
      BY <1>4, <1>9, <2>2
<1> QED
    BY <1>10, <1>11

\* ... and it collects nothing but what the edges lead to.
LEMMA DescendantsLeast ==
    ASSUME NEW q, QuadInv(q), NEW id, NEW S, Heads(q, {id}) \subseteq S, Heads(q, S) \subseteq S
    PROVE  Descendants(q, id) \subseteq S
<1> DEFINE N == Cardinality(Live(q))
<1>1. /\ N \in Nat
      /\ \E r \in [0 .. N -> SUBSET Live(q)] :
           /\ r[0] = Heads(q, {id})
           /\ \A n \in 1 .. N : r[n] = r[n - 1] \cup Heads(q, r[n - 1])
           /\ Descendants(q, id) = r[N] \ {id}
    BY DescendantsSteps
<1> HIDE DEF N
<1>2. PICK r \in [0 .. N -> SUBSET Live(q)] :
        /\ r[0] = Heads(q, {id})
        /\ \A n \in 1 .. N : r[n] = r[n - 1] \cup Heads(q, r[n - 1])
        /\ Descendants(q, id) = r[N] \ {id}
    BY <1>1
<1> DEFINE T == {n \in 0 .. N : r[n] \subseteq S}
<1>3. 0 \in T
    BY <1>1, <1>2
<1>4. ASSUME NEW n \in 0 .. N - 1, n \in T PROVE n + 1 \in T
  <2>1. n + 1 \in 1 .. N /\ (n + 1) - 1 = n
      BY <1>1
  <2>2. r[n + 1] = r[n] \cup Heads(q, r[n])
      BY <1>2, <2>1
  <2>3. Heads(q, r[n]) \subseteq Heads(q, S)
      BY <1>4 DEF Heads
  <2> QED
      BY <1>4, <2>1, <2>2, <2>3
<1> HIDE DEF T
<1>5. 0 .. N \subseteq T
    BY <1>1, <1>3, <1>4, SegmentInduction
<1> QED
    BY <1>1, <1>2, <1>5 DEF T

\* Beliefs are recomputed one after the other, each from the confidences its
\* predecessors left, and every confidence stays in range.
LEMMA VisitSteps ==
    ASSUME NEW q, QuadInv(q), NEW decay, Decaying(q, decay),
           NEW n \in Nat, NEW order, order \in Seq(BeliefId), Len(order) = n
    PROVE  \E after \in [0 .. n -> FastMaps(q)] :
             /\ after[0] = Fast(q)
             /\ \A i \in 1 .. n :
                  after[i] = [after[i - 1] EXCEPT
                                ![order[i]] = Recomputed(q, decay, after[i - 1], order[i])]
             /\ Visit(q, decay, order) = after[n]
<1> DEFINE Next1(i, f) == [f EXCEPT ![order[i]] = Recomputed(q, decay, f, order[i])]
           step == [x \in (1 .. n) \X FastMaps(q) |-> Next1(x[1], x[2])]
           Visits(m) == m = [i \in 0 .. n |-> IF i = 0 THEN Fast(q) ELSE Next1(i, m[i - 1])]
<1>1. \A i : \A f \in FastMaps(q) : Next1(i, f) \in FastMaps(q)
  <2> SUFFICES ASSUME NEW f \in FastMaps(q), NEW i PROVE Next1(i, f) \in FastMaps(q)
      OBVIOUS
  <2> DEFINE id == order[i]
             c  == Recomputed(q, decay, f, id)
  <2>1. id \in Live(q) => c \in Conf
      BY RecomputedCases DEF Decaying
  <2> HIDE DEF id, c
  <2>2. [f EXCEPT ![id] = c] \in FastMaps(q)
      BY <2>1 DEF FastMaps
  <2> QED
      BY <2>2 DEF id, c
<1>2. Fast(q) \in FastMaps(q)
  <2>1. \A id \in Live(q) : q.nodes[id].fast \in Conf
      BY DEF QuadInv, IsQuad, Node
  <2> QED
      BY <2>1 DEF Fast, FastMaps
<1> HIDE DEF Next1
<1>3. step \in Steps(n, FastMaps(q))
    BY <1>1 DEF Steps
<1>4. \A i \in 1 .. n, f \in FastMaps(q) : step[<<i, f>>] = Next1(i, f)
    OBVIOUS
<1> HIDE DEF step
<1>5. PICK f : Iterates(f, n, FastMaps(q), Fast(q), step)
    BY <1>2, <1>3, SegmentRecursion
<1>6. Visits(f)
  <2> SUFFICES ASSUME NEW i \in 0 .. n
               PROVE  f[i] = IF i = 0 THEN Fast(q) ELSE Next1(i, f[i - 1])
      BY <1>5 DEF Iterates
  <2>1. CASE i = 0
      BY <1>5, <2>1 DEF Iterates
  <2>2. CASE i # 0
    <3>1. i \in 1 .. n /\ i - 1 \in 0 .. n
        BY <2>2
    <3>2. f \in [0 .. n -> FastMaps(q)] /\ f[i] = step[<<i, f[i - 1]>>]
        BY <1>5, <3>1 DEF Iterates
    <3>3. f[i - 1] \in FastMaps(q)
        BY <3>1, <3>2
    <3> QED
        BY <1>4, <2>2, <3>1, <3>2, <3>3
  <2> QED
      BY <2>1, <2>2
<1>7. ASSUME NEW m, Visits(m)
      PROVE  /\ m \in [0 .. n -> FastMaps(q)] /\ m[0] = Fast(q)
             /\ \A i \in 1 .. n : m[i] = Next1(i, m[i - 1])
  <2> DEFINE T == {i \in 0 .. n : m[i] \in FastMaps(q)}
  <2>1. \A i \in 0 .. n : m[i] = IF i = 0 THEN Fast(q) ELSE Next1(i, m[i - 1])
      BY <1>7
  <2>2. 0 \in T
    <3>1. 0 \in 0 .. n /\ m[0] = Fast(q)
        BY <2>1
    <3> QED
        BY <1>2, <3>1
  <2>3. ASSUME NEW i \in 0 .. n - 1, i \in T PROVE i + 1 \in T
    <3>1. i + 1 \in 0 .. n /\ i + 1 # 0 /\ (i + 1) - 1 = i
        OBVIOUS
    <3>2. m[i + 1] = Next1(i + 1, m[i])
        BY <2>1, <3>1
    <3> QED
        BY <1>1, <2>3, <3>1, <3>2
  <2> HIDE DEF T
  <2>4. 0 .. n \subseteq T
      BY <2>2, <2>3, SegmentInduction
  <2>5. m = [i \in 0 .. n |-> m[i]]
      BY <1>7
  <2>6. m \in [0 .. n -> FastMaps(q)]
      BY <2>4, <2>5 DEF T
  <2>7. m[0] = Fast(q) /\ \A i \in 1 .. n : m[i] = Next1(i, m[i - 1])
    <3>1. 0 \in 0 .. n /\ \A i \in 1 .. n : i \in 0 .. n /\ i # 0
        OBVIOUS
    <3> QED
        BY <2>1, <3>1
  <2> QED
      BY <2>6, <2>7
<1> DEFINE after == CHOOSE m : Visits(m)
<1>8. Visit(q, decay, order) = after[n]
    BY Zenon DEF Visit, Next1
<1>9. Visits(after)
  <2> HIDE DEF Visits
  <2> QED
      BY <1>6, Zenon
<1> HIDE DEF Visits, after
<1>10. /\ after \in [0 .. n -> FastMaps(q)] /\ after[0] = Fast(q)
       /\ \A i \in 1 .. n : after[i] = Next1(i, after[i - 1])
    BY <1>7, <1>9
<1> QED
    BY <1>8, <1>10 DEF Next1

\* Recomputing beliefs one after the other keeps every confidence in range.
LEMMA VisitType ==
    ASSUME NEW q, QuadInv(q), NEW decay, Decaying(q, decay),
           NEW n \in Nat, NEW order, order \in Seq(BeliefId), Len(order) = n
    PROVE  Visit(q, decay, order) \in FastMaps(q)
<1>1. n \in 0 .. n
    OBVIOUS
<1> QED
    BY <1>1, VisitSteps

\* Writing confidences into a well-formed quad touches nothing else.
LEMMA WithFastInv ==
    ASSUME NEW q, QuadInv(q), NEW fast \in FastMaps(q)
    PROVE  /\ QuadInv(WithFast(q, fast))
           /\ Live(WithFast(q, fast)) = Live(q)
           /\ WithFast(q, fast).gens = q.gens /\ WithFast(q, fast).version = q.version
           /\ WithFast(q, fast).graphs = q.graphs
           /\ \A id \in Live(q) :
                WithFast(q, fast).nodes[id] = [q.nodes[id] EXCEPT !.fast = fast[id]]
<1> DEFINE N == [id \in Live(q) |-> [q.nodes[id] EXCEPT !.fast = fast[id]]]
           r == [q EXCEPT !.nodes = N]
<1>1. IsQuad(q) /\ Finite(q) /\ ArenaSound(q) /\ ProjectionsAgree(q)
    BY DEF QuadInv
<1>2. \A id \in Live(q) : N[id] \in Node /\ N[id].value = q.nodes[id].value
    BY <1>1 DEF IsQuad, Node, FastMaps
<1>3. DOMAIN N = Live(q) /\ N \in [Live(q) -> Node]
    BY <1>2
<1>4. \A id \in Live(q) : N[id] = [q.nodes[id] EXCEPT !.fast = fast[id]]
    OBVIOUS
<1> HIDE DEF N
<1>5. r = [nodes |-> N, gens |-> q.gens, free |-> q.free,
           graphs |-> q.graphs, prospective |-> q.prospective,
           equivalent |-> q.equivalent, version |-> q.version]
  <2>1. q = [nodes |-> q.nodes, gens |-> q.gens, free |-> q.free,
                graphs |-> q.graphs, prospective |-> q.prospective,
                equivalent |-> q.equivalent, version |-> q.version]
      BY <1>1 DEF IsQuad
  <2> QED
      BY ONLY <2>1
<1>6. Live(r) = Live(q)
    BY <1>3, <1>5 DEF Live
<1>7. WithFast(q, fast) = r
    BY Zenon DEF WithFast, N
<1> HIDE DEF r
<1>8. IsQuad(r)
    BY <1>1, <1>3, <1>5, <1>6 DEF IsQuad
<1>9. ArenaSound(r) /\ ProjectionsAgree(r) /\ Finite(r)
    BY <1>1, <1>2, <1>5, <1>6 DEF ArenaSound, ProjectionsAgree, Finite
<1>10. r.gens = q.gens /\ r.version = q.version /\ r.graphs = q.graphs /\ r.nodes = N
    BY <1>5
<1> QED
    BY <1>4, <1>6, <1>7, <1>8, <1>9, <1>10 DEF QuadInv

\* propagate_system1 changes confidences and nothing else, whatever order it
\* visits the descendants in.
LEMMA PropagateInv ==
    ASSUME NEW q, QuadInv(q), NEW decay, Decaying(q, decay), NEW changed \in BeliefId,
           NEW r \in Propagate(q, decay, changed)
    PROVE  /\ QuadInv(r) /\ Live(r) = Live(q)
           /\ r.gens = q.gens /\ r.version = q.version /\ r.graphs = q.graphs
           /\ \A id \in Live(q) : r.nodes[id].key = q.nodes[id].key
<1>1. CASE r = q
    BY <1>1
<1>2. ASSUME changed \in Live(q), NEW order \in VisitOrders(q, changed),
             r = WithFast(q, Visit(q, decay, order))
      PROVE  /\ QuadInv(r) /\ Live(r) = Live(q)
             /\ r.gens = q.gens /\ r.version = q.version /\ r.graphs = q.graphs
             /\ \A id \in Live(q) : r.nodes[id].key = q.nodes[id].key
  <2> DEFINE S == {changed} \cup Descendants(q, changed)
             fast == Visit(q, decay, order)
  <2>1. S \in SUBSET Live(q) /\ S \subseteq BeliefId
      BY <1>2, DescendantsLive DEF QuadInv, IsQuad
  <2>2. IsFiniteSet(S)
    <3> HIDE DEF S
    <3> QED
        BY <2>1, FS_Subset DEF QuadInv, Finite
  <2>3. order \in SetToSeqs(S)
      BY <1>2 DEF VisitOrders
  <2> HIDE DEF S
  <2>4. order \in Seq(S)
      BY <2>2, <2>3, ListsOfASet
  <2>5. order \in Seq(BeliefId) /\ Len(order) \in Nat
      BY <2>1, <2>4
  <2>6. fast \in FastMaps(q)
      BY <2>5, VisitType
  <2>7. r = WithFast(q, fast)
      BY <1>2
  <2> HIDE DEF fast
  <2>8. /\ QuadInv(r) /\ Live(r) = Live(q)
        /\ r.gens = q.gens /\ r.version = q.version /\ r.graphs = q.graphs
        /\ \A id \in Live(q) : r.nodes[id] = [q.nodes[id] EXCEPT !.fast = fast[id]]
      BY ONLY <2>6, <2>7, QuadInv(q), WithFastInv
  <2>9. \A id \in Live(q) : q.nodes[id] \in Node
      BY DEF QuadInv, IsQuad
  <2> QED
      BY <2>8, <2>9 DEF Node
<1> QED
    BY <1>1, <1>2 DEF Propagate

-----------------------------------------------------------------------------
(* Well-formed quads form a set, so that sequences and functions of quads   *)
(* have a type.                                                             *)
Quads ==
    [nodes       : UNION {[ids -> Node] : ids \in SUBSET BeliefId},
     gens        : Seq(Nat),
     free        : Seq(Nat),
     graphs      : [Projection -> Graph],
     prospective : UNION {[ids -> Value] : ids \in SUBSET BeliefId},
     equivalent  : SUBSET (Value \X Value),
     version     : Nat]

Sound == {q \in Quads : QuadInv(q)}

\* The well-formed quads are the members of a set.
LEMMA SoundQuads ==
    ASSUME NEW q, QuadInv(q)
    PROVE  q \in Sound
<1>1. IsQuad(q)
    BY DEF QuadInv
<1>2. q.nodes \in UNION {[ids -> Node] : ids \in SUBSET BeliefId}
    BY <1>1 DEF IsQuad, Live
<1>3. q.prospective \in UNION {[ids -> Value] : ids \in SUBSET BeliefId}
    BY <1>1 DEF IsQuad
<1>4. q \in Quads
  <2> DEFINE N == UNION {[ids -> Node] : ids \in SUBSET BeliefId}
             P == UNION {[ids -> Value] : ids \in SUBSET BeliefId}
             G == [Projection -> Graph]
             E == SUBSET (Value \X Value)
  <2>1. q.nodes \in N /\ q.prospective \in P
      BY <1>2, <1>3
  <2>2. q.graphs \in G /\ q.equivalent \in E
      BY <1>1 DEF IsQuad
  <2>3. q.gens \in Seq(Nat) /\ q.free \in Seq(Nat) /\ q.version \in Nat
      BY <1>1 DEF IsQuad
  <2>4. q = [nodes |-> q.nodes, gens |-> q.gens, free |-> q.free,
             graphs |-> q.graphs, prospective |-> q.prospective,
             equivalent |-> q.equivalent, version |-> q.version]
      BY <1>1 DEF IsQuad
  <2>5. Quads = [nodes : N, gens : Seq(Nat), free : Seq(Nat), graphs : G,
                 prospective : P, equivalent : E, version : Nat]
      BY Zenon DEF Quads
  <2> HIDE DEF N, P, G, E
  <2> QED
      BY ONLY <2>1, <2>2, <2>3, <2>4, <2>5
<1> QED
    BY <1>4 DEF Sound

-----------------------------------------------------------------------------
(* Rollbacks *)

\* Checkpoints of well-formed quads.
Marks == [id : Nat, quad : Sound]

\* rollback_to ends in the quad it was given or in one of the checkpoints.
LEMMA RollbackOutcome ==
    ASSUME NEW q, NEW list, NEW cp
    PROVE  LET out == Rollback(q, list, cp)
           IN  /\ \/ out.quad = q /\ out.checkpoints = list
                  \/ out.checkpoints = <<>> /\ \E i \in DOMAIN list : out.quad = list[i].quad
               /\ out.result \in {"Ok", "CheckpointNotFound", "UnnecessaryContraction"}
               /\ out.result = "Ok" => \E i \in DOMAIN list : out.quad = list[i].quad
<1> DEFINE H    == Held(list, cp)
           i    == CHOOSE j \in H : TRUE
           snap == list[i].quad
           out  == Rollback(q, list, cp)
<1>1. H # {} => i \in DOMAIN list
    BY Zenon DEF Held
<1>2. out = IF H = {}
            THEN [quad |-> q, checkpoints |-> list, result |-> "CheckpointNotFound"]
            ELSE IF HasContradictions(q, snap)
                 THEN [quad |-> snap, checkpoints |-> <<>>, result |-> "Ok"]
                 ELSE [quad |-> q, checkpoints |-> list, result |-> "UnnecessaryContraction"]
    BY Zenon DEF Rollback, RestoredList
<1> HIDE DEF H, i, out
<1> QED
    BY <1>1, <1>2 DEF out

LEMMA RollbackType ==
    ASSUME NEW q, QuadInv(q), NEW list \in Seq(Marks), NEW cp
    PROVE  LET out == Rollback(q, list, cp)
           IN  QuadInv(out.quad) /\ out.checkpoints \in Seq(Marks)
<1> DEFINE out == Rollback(q, list, cp)
<1>1. \/ out.quad = q /\ out.checkpoints = list
      \/ out.checkpoints = <<>> /\ \E i \in DOMAIN list : out.quad = list[i].quad
    BY RollbackOutcome
<1> HIDE DEF out
<1>2. \A m \in Marks : QuadInv(m.quad)
    BY DEF Marks, Sound
<1>3. \A i \in DOMAIN list : list[i] \in Marks
    OBVIOUS
<1>4. QuadInv(out.quad)
    BY <1>1, <1>2, <1>3
<1>5. out.checkpoints \in Seq(Marks)
  <2>1. <<>> \in Seq(Marks)
      OBVIOUS
  <2> QED
      BY ONLY <1>1, <2>1, list \in Seq(Marks)
<1> QED
    BY <1>4, <1>5 DEF out

=============================================================================

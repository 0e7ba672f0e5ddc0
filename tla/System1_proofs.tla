---------------------------- MODULE System1_proofs ----------------------------
(***************************************************************************)
(* System 1 keeps confidences in range on every graph the API lets callers *)
(* build, losing a belief never strengthens another one, and rounds of     *)
(* propagation settle a graph without cycles.                              *)
(***************************************************************************)
EXTENDS System1, QuadOps_proofs

\* The node the beliefs start from can be inserted.
LEMMA InsertAny ==
    ASSUME NEW q, QuadInv(q)
    PROVE  QuadInv(Insert(q, AnyNode))
<1>1. (CHOOSE k \in Key : TRUE) \in Key /\ (CHOOSE v \in Value : TRUE) \in Value
    BY System1Assumption, Zenon
<1> QED
    BY <1>1, InsertInv DEF AnyNode

\* Built[n] is what n inserts make.
LEMMA BuiltStep ==
    /\ Built[0] = EmptyQuad
    /\ \A n \in 1 .. MaxBeliefs : Built[n] = Insert(Built[n - 1], AnyNode)
<1> DEFINE N == MaxBeliefs
           step == [x \in (1 .. N) \X Sound |-> Insert(x[2], AnyNode)]
           Builds(m) == m = [n \in 0 .. N |-> IF n = 0 THEN EmptyQuad
                                              ELSE Insert(m[n - 1], AnyNode)]
<1>1. N \in Nat
    BY System1Assumption
<1>2. \A q \in Sound : Insert(q, AnyNode) \in Sound
    BY InsertAny, SoundQuads DEF Sound
<1>3. step \in Steps(N, Sound) /\ EmptyQuad \in Sound
    BY <1>2, EmptyQuadInv, SoundQuads DEF Steps
<1>4. \A i \in 1 .. N, q \in Sound : step[<<i, q>>] = Insert(q, AnyNode)
    OBVIOUS
<1> HIDE DEF step, N
<1>5. PICK f : Iterates(f, N, Sound, EmptyQuad, step)
    BY <1>1, <1>3, SegmentRecursion
<1>6. Builds(f)
  <2>1. \A n \in 0 .. N :
          f[n] = IF n = 0 THEN EmptyQuad ELSE Insert(f[n - 1], AnyNode)
    <3> SUFFICES ASSUME NEW n \in 0 .. N
                 PROVE  f[n] = IF n = 0 THEN EmptyQuad ELSE Insert(f[n - 1], AnyNode)
        OBVIOUS
    <3>1. CASE n = 0
        BY <1>5, <3>1 DEF Iterates
    <3>2. CASE n # 0
      <4>1. n \in 1 .. N /\ n - 1 \in 0 .. N
          BY <1>1, <3>2
      <4>2. f[n - 1] \in Sound /\ f[n] = step[<<n, f[n - 1]>>]
          BY <1>5, <4>1 DEF Iterates
      <4> QED
          BY <1>4, <3>2, <4>1, <4>2
    <3> QED
        BY <3>1, <3>2
  <2> QED
      BY <1>5, <2>1 DEF Iterates
<1>7. Builds(Built)
  <2>1. Built = CHOOSE m : Builds(m)
      BY Zenon DEF Built, N
  <2> HIDE DEF Builds
  <2> QED
      BY <1>6, <2>1, Zenon
<1>8. \A n \in 0 .. N :
        Built[n] = IF n = 0 THEN EmptyQuad ELSE Insert(Built[n - 1], AnyNode)
    BY <1>7
<1> HIDE DEF Builds
<1>9. Built[0] = EmptyQuad
  <2>1. 0 \in 0 .. N
      BY <1>1
  <2> QED
      BY <1>8, <2>1
<1>10. ASSUME NEW n \in 1 .. MaxBeliefs
       PROVE  Built[n] = Insert(Built[n - 1], AnyNode)
  <2>1. n \in 0 .. N /\ n # 0
      BY <1>1 DEF N
  <2> QED
      BY <1>8, <2>1
<1> QED
    BY <1>9, <1>10

\* The beliefs of Built[n] occupy the first n slots, in their first generation.
LEMMA BuiltIds ==
    QuadInv(Built[MaxBeliefs]) /\ Live(Built[MaxBeliefs]) = Ids
<1> DEFINE N == MaxBeliefs
           First(q, n) == /\ QuadInv(q) /\ q.free = <<>> /\ Len(q.gens) = n
                          /\ Live(q) = {<<s, 1>> : s \in 1 .. n}
           T == {n \in 0 .. N : First(Built[n], n)}
<1>1. N \in Nat
    BY System1Assumption
<1>2. 0 \in T
  <2>1. First(EmptyQuad, 0)
      BY EmptyQuadInv DEF EmptyQuad, Live
  <2> QED
      BY <1>1, <2>1, BuiltStep
<1>3. ASSUME NEW n \in 0 .. N - 1, n \in T
      PROVE  n + 1 \in T
  <2> DEFINE q == Built[n]
             r == Insert(q, AnyNode)
  <2>1. First(q, n)
      BY <1>3
  <2>2. QuadInv(r)
      BY <2>1, InsertAny
  <2>3. Built[n + 1] = r
    <3>1. n + 1 \in 1 .. N /\ (n + 1) - 1 = n
        BY <1>1
    <3> QED
        BY <3>1, BuiltStep
  <2>4. /\ r.free = IF q.free = <<>> THEN <<>> ELSE Tail(q.free)
        /\ r.gens = IF q.free = <<>> THEN Append(q.gens, 1) ELSE q.gens
        /\ Live(r) = Live(q) \cup {NextId(q)}
      BY Zenon DEF Insert, Live
  <2> HIDE DEF q, r
  <2>5. NextId(q) = <<n + 1, 1>>
      BY <2>1 DEF NextId
  <2>6. q.gens \in Seq(Nat)
      BY <2>1 DEF QuadInv, IsQuad
  <2>7. r.free = <<>> /\ Len(r.gens) = n + 1
      BY <2>1, <2>4, <2>6
  <2>8. Live(r) = {<<s, 1>> : s \in 1 .. n + 1}
    <3>1. 1 .. n + 1 = 1 .. n \cup {n + 1}
        OBVIOUS
    <3> QED
        BY <2>1, <2>4, <2>5, <3>1
  <2>9. First(r, n + 1)
      BY <2>2, <2>7, <2>8
  <2> HIDE DEF First
  <2> QED
      BY <1>1, <2>3, <2>9
<1> HIDE DEF T
<1>4. 0 .. N \subseteq T
    BY <1>1, <1>2, <1>3, SegmentInduction
<1>5. First(Built[N], N)
    BY <1>1, <1>4 DEF T
<1> QED
    BY <1>5 DEF Ids

-----------------------------------------------------------------------------
(* The invariant *)

LEMMA InitInv == Init => Inv
<1> SUFFICES ASSUME Init PROVE Inv
    OBVIOUS
<1> DEFINE q == Built[MaxBeliefs]
<1>1. PICK fast \in [Ids -> ConfIn] : quad = WithFast(q, fast)
    BY DEF Init
<1>2. QuadInv(q) /\ Live(q) = Ids
    BY BuiltIds
<1> HIDE DEF q
<1>3. fast \in FastMaps(q)
    BY <1>1, <1>2, System1Assumption DEF FastMaps
<1>4. QuadInv(quad) /\ Live(quad) = Ids
    BY <1>1, <1>2, <1>3, WithFastInv
<1>5. TypeOK
    BY <1>4, System1Assumption DEF Init, TypeOK, QuadInv, IsQuad, Node
<1> QED
    BY <1>4, <1>5 DEF Inv

\* A step that leaves a sound quad with no new beliefs keeps the types.
LEMMA QuadStep ==
    ASSUME Inv, QuadInv(quad'), Live(quad') \subseteq Live(quad), UNCHANGED decay,
           root' \in Ids \cup {None}, rounds' \in 0 .. MaxBeliefs + 1
    PROVE  Inv'
<1>1. \A id \in Live(quad') : quad'.nodes[id].fast \in Conf
    BY DEF QuadInv, IsQuad, Node
<1>2. TypeOK'
    BY <1>1 DEF Inv, TypeOK, Live
<1> QED
    BY <1>2 DEF Inv, QuadInv, IsQuad, Finite, ArenaSound, ProjectionsAgree, Live

LEMMA DecayInRange ==
    ASSUME Inv
    PROVE  Decaying(quad, decay)
BY System1Assumption DEF Inv, TypeOK, Decaying

LEMMA NextInv == Inv /\ [Next]_vars => Inv'
<1> SUFFICES ASSUME Inv, [Next]_vars PROVE Inv'
    OBVIOUS
<1>1. QuadInv(quad) /\ Live(quad) \subseteq Ids /\ Ids \subseteq BeliefId
    BY DEF Inv, TypeOK, Ids, BeliefId
<1>2. ASSUME Settle PROVE root' \in Ids \cup {None} /\ rounds' \in 0 .. MaxBeliefs + 1
    BY <1>2, System1Assumption DEF Settle
<1>3. ASSUME NEW e \in InferenceEdges, LinkPremises(e) PROVE Inv'
  <2>1. e \in Edge
    <3>1. e.premises \in PremiseLists
        BY <1>3 DEF InferenceEdges
    <3>2. PICK n \in 1 .. MaxPremises : e.premises \in [1 .. n -> Ids]
        BY <3>1 DEF PremiseLists
    <3>3. e.premises \in [1 .. n -> BeliefId] /\ n \in Nat
        BY <1>1, <3>2
    <3>4. e.premises \in Seq(BeliefId)
        BY <3>3, FunctionIsSeq
    <3> QED
        BY <1>1, <1>3, <3>4 DEF InferenceEdges, Edge, EdgeKind
  <2>2. quad' = [quad EXCEPT !.graphs["causal"] = AddEdge(@, e)]
      BY <1>3 DEF LinkPremises
  <2>3. QuadInv(quad') /\ Live(quad') = Live(quad)
      BY <1>1, <2>1, <2>2, AddEdgeInv DEF Projection, Live
  <2> QED
      BY <1>2, <1>3, <2>3, QuadStep DEF LinkPremises
<1>4. ASSUME NEW id \in Ids, NEW c \in ConfIn, ChangeConfidence(id, c) PROVE Inv'
  <2> DEFINE v    == quad.nodes[id].value
             slow == quad.nodes[id].slow
             q    == Expand(quad, id, v, c, slow)
  <2>1. id \in Live(quad) /\ v \in Value /\ slow \in Int \cup {None} /\ c \in Int
      BY <1>1, <1>4, System1Assumption DEF ChangeConfidence, QuadInv, IsQuad, Node, Conf
  <2>2. quad' = q
      BY <1>4 DEF ChangeConfidence
  <2> HIDE DEF v, slow
  <2>3. QuadInv(q) /\ Live(q) = Live(quad)
      BY <1>1, <2>1, ExpandInv
  <2> QED
      BY <1>2, <1>4, <2>2, <2>3, QuadStep DEF ChangeConfidence
<1>5. ASSUME NEW id \in Ids, DropBelief(id) PROVE Inv'
  <2>1. QuadInv(quad') /\ Live(quad') \subseteq Live(quad)
      BY <1>1, <1>5, RemoveOneInv DEF DropBelief
  <2> QED
      BY <1>2, <1>5, <2>1, QuadStep DEF DropBelief
<1>6. ASSUME NEW id \in Ids, PropagateSystem1(id) PROVE Inv'
  <2>1. quad' \in Propagate(quad, decay, id)
      BY <1>6 DEF PropagateSystem1
  <2>2. QuadInv(quad') /\ Live(quad') = Live(quad)
      BY <1>1, <2>1, DecayInRange, PropagateInv
  <2>3. root' \in Ids \cup {None} /\ rounds' \in 0 .. MaxBeliefs + 1
      BY <1>6, System1Assumption DEF PropagateSystem1, Inv, TypeOK
  <2> QED
      BY <1>6, <2>2, <2>3, QuadStep DEF PropagateSystem1
<1>7. CASE UNCHANGED vars
    BY <1>7, System1Assumption, QuadStep DEF vars, Inv, TypeOK
<1> QED
    BY <1>3, <1>4, <1>5, <1>6, <1>7 DEF Next

\* Every reachable quad is well-formed: no mix of links, revisions, removals
\* and propagations breaks the arena, the projections or the range of a
\* confidence.
THEOREM TypeCorrect == Spec => []TypeOK
<1>1. Inv => TypeOK
    BY DEF Inv
<1> QED
    BY InitInv, NextInv, <1>1, PTL DEF Spec

-----------------------------------------------------------------------------
(* Losing support *)

\* remove takes a belief's edges with it and leaves the other beliefs alone.
LEMMA RemovalCuts ==
    ASSUME NEW q, QuadInv(q), NEW p \in Live(q), NEW id
    PROVE  SupportPaths(RemoveOne(q, p), id) \subseteq SupportPaths(q, id)
<1> DEFINE r == RemoveOne(q, p)
<1>1. r.graphs = [g \in Projection |-> DropNodes(q.graphs[g], Range(<<p>>))]
    BY DEF RemoveOne, RemoveAll
<1>2. r.graphs["causal"].edges \subseteq q.graphs["causal"].edges
    BY <1>1 DEF Projection, DropNodes
<1> HIDE DEF r
<1>3. SupportPaths(r, id) \subseteq SupportPaths(q, id)
    BY <1>2 DEF SupportPaths
<1> QED
    BY <1>3 DEF r

\* With fewer beliefs left, each with the confidence it had, an edge counts
\* for no more than before.
LEMMA EdgeWeakens ==
    ASSUME NEW q, QuadInv(q), NEW r, QuadInv(r), Live(r) \subseteq Live(q),
           \A id \in Live(r) : r.nodes[id] = q.nodes[id],
           NEW ps \in Seq(BeliefId)
    PROVE  EdgeConfidence(r, Fast(r), ps) <= EdgeConfidence(q, Fast(q), ps)
<1> DEFINE old == [i \in DOMAIN ps |-> IF ps[i] \in Live(q) THEN Fast(q)[ps[i]] ELSE 0]
           new == [i \in DOMAIN ps |-> IF ps[i] \in Live(r) THEN Fast(r)[ps[i]] ELSE 0]
<1>1. Len(ps) \in Nat /\ DOMAIN ps = 1 .. Len(ps)
    OBVIOUS
<1>2. \A x : /\ x \in Live(q) => Fast(q)[x] = q.nodes[x].fast /\ q.nodes[x].fast \in Conf
             /\ x \in Live(r) => Fast(r)[x] = q.nodes[x].fast /\ x \in Live(q)
    BY DEF Fast, QuadInv, IsQuad, Node
<1>3. 0 \in Conf /\ \A c \in Conf : 0 <= c /\ c <= c
    BY QuadAssumption DEF Conf
<1>4. old \in [1 .. Len(ps) -> Conf] /\ new \in [1 .. Len(ps) -> Conf]
    BY <1>1, <1>2, <1>3
<1>5. \A i \in 1 .. Len(ps) : new[i] <= old[i]
    BY <1>1, <1>2, <1>3
<1>6. EdgeConfidence(q, Fast(q), ps) = NoisyOr(old) /\ EdgeConfidence(r, Fast(r), ps) = NoisyOr(new)
    BY Zenon DEF EdgeConfidence
<1> HIDE DEF old, new
<1> QED
    BY <1>1, <1>4, <1>5, <1>6, NoisyOrMonotone

\* A belief recomputed after a removal is at most what it would have been
\* before it, or nothing supports it any more and it stays as it is.
LEMMA RecomputedWeakens ==
    ASSUME NEW q, QuadInv(q), Decaying(q, decay),
           NEW p \in Live(q), NEW id \in Live(q), p # id
    PROVE  LET r == RemoveOne(q, p)
           IN  \/ Recomputed(r, decay, Fast(r), id) <= Recomputed(q, decay, Fast(q), id)
               \/ Recomputed(r, decay, Fast(r), id) = q.nodes[id].fast
<1> DEFINE r == RemoveOne(q, p)
<1>1. /\ QuadInv(r) /\ Live(r) = Live(q) \ {p}
      /\ \A i \in Live(r) : r.nodes[i] = q.nodes[i]
    BY RemoveOneInv
<1>2. SupportPaths(r, id) \subseteq SupportPaths(q, id)
    BY RemovalCuts
<1> HIDE DEF r
<1>3. Fast(q) \in FastMaps(q) /\ Fast(r) \in FastMaps(r)
    BY <1>1 DEF Fast, FastMaps, QuadInv, IsQuad, Node
<1>4. id \in Live(r) /\ decay[id] \in Conf
    BY <1>1 DEF Decaying
<1>5. CASE SupportPaths(r, id) = {}
  <2>1. Recomputed(r, decay, Fast(r), id) = Fast(r)[id]
      BY <1>1, <1>3, <1>4, <1>5, RecomputedCases
  <2>2. Fast(r)[id] = q.nodes[id].fast
      BY <1>1, <1>4 DEF Fast
  <2> QED
      BY <2>1, <2>2 DEF r
<1>6. CASE SupportPaths(r, id) # {}
  <2>1. PICK new \in SupportPaths(r, id) :
          Recomputed(r, decay, Fast(r), id)
            = (EdgeConfidence(r, Fast(r), new) * decay[id]) \div Scale
      BY <1>1, <1>3, <1>4, <1>6, RecomputedCases
  <2>2. PICK old \in SupportPaths(q, id) :
          /\ Recomputed(q, decay, Fast(q), id)
               = (EdgeConfidence(q, Fast(q), old) * decay[id]) \div Scale
          /\ \A d \in SupportPaths(q, id) :
               EdgeConfidence(q, Fast(q), d) <= EdgeConfidence(q, Fast(q), old)
      BY <1>2, <1>3, <1>4, <1>6, RecomputedCases
  <2>3. new \in SupportPaths(q, id) /\ new \in Seq(BeliefId) /\ old \in Seq(BeliefId)
      BY <1>2, SupportPathsType
  <2> DEFINE a == EdgeConfidence(r, Fast(r), new)
             b == EdgeConfidence(q, Fast(q), new)
             c == EdgeConfidence(q, Fast(q), old)
             d == decay[id]
  <2>4. a <= b /\ b <= c
      BY <1>1, <2>2, <2>3, EdgeWeakens
  <2>5. a \in Conf /\ b \in Conf /\ c \in Conf /\ d \in Conf
      BY <1>3, <1>4, <2>3, EdgeConfidenceType
  <2>6. /\ Recomputed(r, decay, Fast(r), id) = (a * d) \div Scale
        /\ Recomputed(q, decay, Fast(q), id) = (c * d) \div Scale
      BY <2>1, <2>2
  <2> HIDE DEF a, b, c, d
  <2>7. a \in Nat /\ c \in Nat /\ d \in Nat /\ a <= c /\ Scale \in Nat \ {0}
      BY <2>4, <2>5, QuadAssumption DEF Conf
  <2>8. a * d \in Nat /\ c * d \in Nat /\ a * d <= c * d
      BY ONLY <2>7, TimesMonotone
  <2>9. (a * d) \div Scale <= (c * d) \div Scale
      BY ONLY <2>7, <2>8, DivMonotone
  <2> QED
      BY <2>6, <2>9 DEF r
<1> QED
    BY <1>5, <1>6

\* A removed premise drops out of the Noisy-OR, so no belief is recomputed to
\* more than its full support makes it, on any graph.
THEOREM SupportLoss == Spec => []SupportLossNeverStrengthens
<1>1. Inv => SupportLossNeverStrengthens
  <2> SUFFICES ASSUME Inv PROVE SupportLossNeverStrengthens
      OBVIOUS
  <2>1. QuadInv(quad) /\ Decaying(quad, decay)
      BY DecayInRange DEF Inv
  <2> QED
      BY <2>1, RecomputedWeakens DEF SupportLossNeverStrengthens
<1> QED
    BY InitInv, NextInv, <1>1, PTL DEF Spec

-----------------------------------------------------------------------------
(* Convergence: what is settled is a set of beliefs closed under premises, *)
(* and every round adds a belief to it.                                    *)

\* The live beliefs a support path of id counts on.
Premises(q, id) == {p \in Live(q) : \E ps \in SupportPaths(q, id) : p \in Range(ps)}

\* What a belief is recomputed to depends on its premises alone, or on itself
\* when nothing supports it.
LEMMA RecomputedLocal ==
    ASSUME NEW q, NEW d, NEW f, NEW g, NEW id,
           \A p \in Premises(q, id) : f[p] = g[p],
           SupportPaths(q, id) = {} => f[id] = g[id]
    PROVE  Recomputed(q, d, f, id) = Recomputed(q, d, g, id)
<1> DEFINE F == {EdgeConfidence(q, f, ps) : ps \in SupportPaths(q, id)}
           G == {EdgeConfidence(q, g, ps) : ps \in SupportPaths(q, id)}
           Best(E) == CHOOSE c \in E : \A e \in E : e <= c
<1>1. ASSUME NEW ps \in SupportPaths(q, id)
      PROVE  EdgeConfidence(q, f, ps) = EdgeConfidence(q, g, ps)
  <2> DEFINE a == [i \in DOMAIN ps |-> IF ps[i] \in Live(q) THEN f[ps[i]] ELSE 0]
             b == [i \in DOMAIN ps |-> IF ps[i] \in Live(q) THEN g[ps[i]] ELSE 0]
  <2>1. \A i \in DOMAIN ps : ps[i] \in Live(q) => f[ps[i]] = g[ps[i]]
      BY DEF Premises, Range
  <2>2. a = b
      BY <2>1
  <2>3. EdgeConfidence(q, f, ps) = NoisyOr(a) /\ EdgeConfidence(q, g, ps) = NoisyOr(b)
      BY Zenon DEF EdgeConfidence
  <2> HIDE DEF a, b
  <2> QED
      BY <2>2, <2>3
<1>2. F = G
    BY <1>1
<1>3. F = {} => SupportPaths(q, id) = {}
    OBVIOUS
<1>4. /\ Recomputed(q, d, f, id) = IF F = {} THEN f[id] ELSE (Best(F) * d[id]) \div Scale
      /\ Recomputed(q, d, g, id) = IF G = {} THEN g[id] ELSE (Best(G) * d[id]) \div Scale
    BY Zenon DEF Recomputed
<1> HIDE DEF F, G, Best
<1> QED
    BY <1>2, <1>3, <1>4

\* In one round what was settled stays settled, and so is afterwards a belief
\* whose premises were.
LEMMA RoundSettles ==
    ASSUME NEW q, QuadInv(q), NEW d, Decaying(q, d), NEW ids \in SUBSET Live(q),
           NEW order \in Seq(ids), Range(order) = ids, NEW S \in SUBSET ids,
           \A x \in S : /\ Fast(q)[x] = Recomputed(q, d, Fast(q), x)
                        /\ Premises(q, x) \cap ids \subseteq S,
           NEW m \in ids, Premises(q, m) \cap ids \subseteq S
    PROVE  /\ Visit(q, d, order) \in FastMaps(q)
           /\ \A x \in S \cup {m} :
                Visit(q, d, order)[x] = Recomputed(q, d, Visit(q, d, order), x)
<1> DEFINE n  == Len(order)
           f0 == Fast(q)
           K  == (Live(q) \ ids) \cup S
           c  == Recomputed(q, d, f0, m)
           Done(i) == \E j \in 1 .. i : order[j] = m
<1>1. /\ order \in Seq(BeliefId) /\ n \in Nat /\ Len(order) = n
      /\ \A i \in 1 .. n : order[i] \in ids
    BY DEF QuadInv, IsQuad
<1>2. PICK after \in [0 .. n -> FastMaps(q)] :
        /\ after[0] = Fast(q)
        /\ \A i \in 1 .. n :
             after[i] = [after[i - 1] EXCEPT
                           ![order[i]] = Recomputed(q, d, after[i - 1], order[i])]
        /\ Visit(q, d, order) = after[n]
  <2> HIDE DEF n
  <2> QED
      BY <1>1, VisitSteps
<1>3. SupportPaths(q, m) = {} => c = f0[m]
  <2>1. f0 \in FastMaps(q) /\ m \in Live(q) /\ d[m] \in Conf
      BY <1>1, <1>2 DEF Decaying
  <2> QED
      BY <2>1, RecomputedCases
<1>4. \A x : Premises(q, x) \subseteq Live(q)
    BY DEF Premises
<1> HIDE DEF f0, c, n
<1>5. ASSUME NEW f, \A x \in K : f[x] = f0[x]
      PROVE  /\ \A x \in S : Recomputed(q, d, f, x) = f0[x]
             /\ (SupportPaths(q, m) = {} => f[m] = f0[m]) => Recomputed(q, d, f, m) = c
  <2>1. ASSUME NEW x \in S PROVE Recomputed(q, d, f, x) = f0[x]
    <3>1. Premises(q, x) \subseteq K
        BY <1>4
    <3>2. x \in K
        OBVIOUS
    <3>3. Recomputed(q, d, f, x) = Recomputed(q, d, f0, x)
        BY <1>5, <3>1, <3>2, RecomputedLocal
    <3> QED
        BY <3>3 DEF f0
  <2>2. ASSUME SupportPaths(q, m) = {} => f[m] = f0[m] PROVE Recomputed(q, d, f, m) = c
    <3>1. Premises(q, m) \subseteq K
        BY <1>4
    <3> QED
        BY <1>5, <2>2, <3>1, RecomputedLocal DEF c
  <2> QED
      BY <2>1, <2>2
<1> DEFINE Good(i) == /\ \A x \in K : after[i][x] = f0[x]
                      /\ after[i][m] = IF Done(i) THEN c ELSE f0[m]
           T == {i \in 0 .. n : Good(i)}
<1>6. 0 \in T
  <2>1. ~Done(0) /\ after[0] = f0
      BY <1>2 DEF f0
  <2> QED
      BY <1>1, <2>1
<1>7. ASSUME NEW i \in 0 .. n - 1, i \in T PROVE i + 1 \in T
  <2> DEFINE f == after[i]
             x == order[i + 1]
             g == after[i + 1]
  <2>1. i + 1 \in 1 .. n /\ (i + 1) - 1 = i /\ i \in 0 .. n
      BY <1>1
  <2>2. f \in FastMaps(q) /\ x \in ids /\ g = [f EXCEPT ![x] = Recomputed(q, d, f, x)]
      BY <1>1, <1>2, <2>1
  <2>3. Good(i)
      BY <1>7
  <2>4. Done(i + 1) <=> Done(i) \/ x = m
    <3>1. \A j : j \in 1 .. i + 1 <=> j \in 1 .. i \/ j = i + 1
        BY <2>1, <1>1
    <3> QED
        BY <3>1
  <2>5. SupportPaths(q, m) = {} => f[m] = f0[m]
      BY <1>3, <2>3
  <2>6. f[m] = IF Done(i) THEN c ELSE f0[m]
      BY <2>3
  <2> HIDE DEF Done
  <2>7. /\ \A y \in S : Recomputed(q, d, f, y) = f0[y]
        /\ Recomputed(q, d, f, m) = c
      BY <1>5, <2>3, <2>5
  <2>8. \A y \in K : f[y] = f0[y]
      BY <2>3
  <2>9. \A y \in Live(q) : g[y] = IF y = x THEN Recomputed(q, d, f, x) ELSE f[y]
      BY <2>2 DEF FastMaps
  <2> HIDE DEF f, g, x
  <2>10. ASSUME NEW y \in K PROVE g[y] = f0[y]
      BY <2>2, <2>7, <2>8, <2>9
  <2>11. g[m] = IF Done(i + 1) THEN c ELSE f0[m]
      BY <2>4, <2>6, <2>7, <2>9
  <2> QED
      BY <2>1, <2>10, <2>11 DEF g
<1> HIDE DEF T, Good
<1>8. 0 .. n \subseteq T
    BY <1>1, <1>6, <1>7, SegmentInduction
<1>9. Good(n) /\ n \in 0 .. n
    BY <1>1, <1>8 DEF T
<1>10. Done(n)
    BY <1>1 DEF Range, n
<1> DEFINE f == after[n]
<1>11. (\A x \in K : f[x] = f0[x]) /\ f[m] = c
    BY <1>9, <1>10 DEF Good
<1> HIDE DEF Done
<1>12. f \in FastMaps(q) /\ Visit(q, d, order) = f
    BY <1>2, <1>9
<1> HIDE DEF f
<1>13. (\A x \in S : Recomputed(q, d, f, x) = f0[x]) /\ Recomputed(q, d, f, m) = c
    BY <1>3, <1>5, <1>11
<1> QED
    BY <1>11, <1>12, <1>13

\* No belief is downstream of itself.
Acyclic(q) ==
    \A id \in Live(q) : \A e \in q.graphs["causal"].edges :
      e.from \in {id} \cup Descendants(q, id) => e.to # id

\* Among beliefs of an acyclic graph there is one that no edge from another of
\* them leads to: one with the most beliefs downstream.
LEMMA MostUpstream ==
    ASSUME NEW q, QuadInv(q), Acyclic(q), NEW T \in SUBSET Live(q), T # {}
    PROVE  \E m \in T : \A e \in q.graphs["causal"].edges : e.to = m => e.from \notin T
<1> DEFINE D(x) == Cardinality(Descendants(q, x))
           N == Cardinality(Live(q))
           Z == {D(x) : x \in T}
<1>1. IsFiniteSet(Live(q)) /\ N \in Nat
    BY FS_CardinalityType DEF QuadInv, Finite
<1>2. \A x : /\ Descendants(q, x) \in SUBSET Live(q) /\ IsFiniteSet(Descendants(q, x))
             /\ D(x) \in 0 .. N
    BY <1>1, DescendantsLive, FS_Subset, FS_CardinalityType
<1>3. Z \in SUBSET Nat /\ Z # {} /\ Z \in SUBSET (0 .. N)
    BY <1>2
<1>4. IsFiniteSet(Z)
  <2> HIDE DEF Z, N
  <2>1. IsFiniteSet(0 .. N)
      BY <1>1, FS_Interval
  <2> QED
      BY <1>3, <2>1, FS_Subset
<1>5. PICK z \in Z : \A y \in Z : y <= z
  <2> HIDE DEF Z
  <2> QED
      BY <1>3, <1>4, GreatestNat
<1>6. PICK m \in T : \A x \in T : D(x) <= D(m)
    BY <1>5
<1>7. ASSUME NEW e \in q.graphs["causal"].edges, e.to = m, e.from \in T PROVE FALSE
  <2> DEFINE p == e.from
  <2>1. p \in Live(q) /\ m \in Live(q)
      BY <1>7
  <2>2. p # m
      BY <1>7, <2>1 DEF Acyclic
  <2>3. m \in Descendants(q, p)
      BY <1>7, <2>2, DescendantsClosed
  <2>4. p \notin Descendants(q, m)
      BY <1>7, <2>1 DEF Acyclic
  <2>5. m \notin Descendants(q, m)
      BY DEF Descendants
  <2>6. Descendants(q, m) \subseteq {p} \cup Descendants(q, p)
    <3> DEFINE S == {p} \cup Descendants(q, p)
    <3>1. Heads(q, S) \subseteq S
        BY DescendantsClosed DEF Heads
    <3>2. Heads(q, {m}) \subseteq Heads(q, S)
        BY <2>3 DEF Heads
    <3> HIDE DEF S
    <3>3. Descendants(q, m) \subseteq S
        BY <3>1, <3>2, DescendantsLeast
    <3> QED
        BY <3>3 DEF S
  <2>7. Descendants(q, m) \in SUBSET Descendants(q, p) /\ Descendants(q, m) # Descendants(q, p)
      BY <2>3, <2>4, <2>5, <2>6
  <2>8. D(m) < D(p)
      BY <1>2, <2>7, FS_Subset
  <2>9. D(p) <= D(m) /\ D(p) \in Nat /\ D(m) \in Nat
      BY <1>2, <1>6, <1>7
  <2> HIDE DEF D
  <2> QED
      BY <2>8, <2>9
<1> QED
    BY <1>7

\* Every premise of an inference has an edge of its own.
Linked(q) ==
    \A e \in q.graphs["causal"].edges : \A p \in Range(e.premises) :
      p \in Live(q) => \E x \in q.graphs["causal"].edges : x.from = p /\ x.to = e.to

\* After n rounds from a belief at least n of the beliefs downstream are
\* settled, if there are as many, and with each of them its premises.
Region(q, id) == {id} \cup Descendants(q, id)

Progressed(q, d, id, n) ==
    \E S \in SUBSET Region(q, id) :
      /\ \A x \in S : /\ Fast(q)[x] = Recomputed(q, d, Fast(q), x)
                      /\ Premises(q, x) \cap Region(q, id) \subseteq S
      /\ S = Region(q, id) \/ Cardinality(S) >= n

\* Propagation looks at the live beliefs and at the graphs.
LEMMA SameShape ==
    ASSUME NEW q, NEW r, Live(r) = Live(q), r.graphs = q.graphs
    PROVE  /\ \A id : /\ Descendants(r, id) = Descendants(q, id)
                      /\ Region(r, id) = Region(q, id)
                      /\ Premises(r, id) = Premises(q, id)
           /\ \A d, f, id : Recomputed(r, d, f, id) = Recomputed(q, d, f, id)
<1>1. ASSUME NEW id PROVE Descendants(r, id) = Descendants(q, id)
  <2> DEFINE Reached(G, L) ==
        LET succ(S) == {e.to : e \in {x \in G["causal"].edges : x.from \in S}}
            reach[n \in 0 .. Cardinality(L)] ==
              IF n = 0 THEN succ({id}) ELSE reach[n - 1] \cup succ(reach[n - 1])
        IN  reach[Cardinality(L)] \ {id}
  <2>1. /\ Descendants(r, id) = Reached(r.graphs, Live(r))
        /\ Descendants(q, id) = Reached(q.graphs, Live(q))
      BY Zenon DEF Descendants
  <2> HIDE DEF Reached
  <2> QED
      BY <2>1
<1>2. \A id : SupportPaths(r, id) = SupportPaths(q, id)
    BY DEF SupportPaths
<1>3. \A f, ps : EdgeConfidence(r, f, ps) = EdgeConfidence(q, f, ps)
  <2> SUFFICES ASSUME NEW f, NEW ps PROVE EdgeConfidence(r, f, ps) = EdgeConfidence(q, f, ps)
      OBVIOUS
  <2> DEFINE a == [i \in DOMAIN ps |-> IF ps[i] \in Live(r) THEN f[ps[i]] ELSE 0]
             b == [i \in DOMAIN ps |-> IF ps[i] \in Live(q) THEN f[ps[i]] ELSE 0]
  <2>1. a = b
      OBVIOUS
  <2>2. EdgeConfidence(r, f, ps) = NoisyOr(a) /\ EdgeConfidence(q, f, ps) = NoisyOr(b)
      BY Zenon DEF EdgeConfidence
  <2> HIDE DEF a, b
  <2> QED
      BY <2>1, <2>2
<1>4. ASSUME NEW d, NEW f, NEW id PROVE Recomputed(r, d, f, id) = Recomputed(q, d, f, id)
  <2> DEFINE F == {EdgeConfidence(r, f, ps) : ps \in SupportPaths(r, id)}
             G == {EdgeConfidence(q, f, ps) : ps \in SupportPaths(q, id)}
             Best(E) == CHOOSE c \in E : \A e \in E : e <= c
  <2>1. F = G
      BY <1>2, <1>3
  <2>2. /\ Recomputed(r, d, f, id) = IF F = {} THEN f[id] ELSE (Best(F) * d[id]) \div Scale
        /\ Recomputed(q, d, f, id) = IF G = {} THEN f[id] ELSE (Best(G) * d[id]) \div Scale
      BY Zenon DEF Recomputed
  <2> HIDE DEF F, G, Best
  <2> QED
      BY <2>1, <2>2
<1>5. \A id : Region(r, id) = Region(q, id)
    BY <1>1 DEF Region
<1>6. \A id : Premises(r, id) = Premises(q, id)
    BY <1>2 DEF Premises
<1> QED
    BY <1>1, <1>4, <1>5, <1>6

\* One more round settles one more belief.
LEMMA ProgressStep ==
    ASSUME NEW q, QuadInv(q), NEW d, Decaying(q, d), Acyclic(q), Linked(q),
           NEW id \in Live(q), NEW n \in Nat, Progressed(q, d, id, n),
           NEW r \in Propagate(q, d, id)
    PROVE  Progressed(r, d, id, n + 1)
<1> DEFINE ids == Region(q, id)
<1>1. ids \in SUBSET Live(q)
    BY DescendantsLive DEF Region
<1>2. IsFiniteSet(Live(q)) /\ IsFiniteSet(ids)
  <2>1. IsFiniteSet(Live(q))
      BY DEF QuadInv, Finite
  <2> HIDE DEF ids
  <2> QED
      BY <1>1, <2>1, FS_Subset
<1>3. PICK S \in SUBSET ids :
        /\ \A x \in S : /\ Fast(q)[x] = Recomputed(q, d, Fast(q), x)
                        /\ Premises(q, x) \cap ids \subseteq S
        /\ S = ids \/ Cardinality(S) >= n
    BY DEF Progressed
<1>4. PICK order \in VisitOrders(q, id) : r = WithFast(q, Visit(q, d, order))
    BY DEF Propagate
<1>5. order \in SetToSeqs(ids)
    BY <1>4 DEF VisitOrders, Region
<1>6. id \in ids
    BY DEF Region
<1> HIDE DEF ids
<1>7. order \in Seq(ids) /\ Range(order) = ids
    BY <1>2, <1>5, ListsOfASet, ListsAll
<1>8. \E m \in ids : Premises(q, m) \cap ids \subseteq S /\ (S # ids => m \notin S)
  <2>1. CASE S = ids
      BY <1>6, <2>1
  <2>2. CASE S # ids
    <3> DEFINE T == ids \ S
    <3>1. T \in SUBSET Live(q) /\ T # {}
        BY <1>1, <2>2
    <3> HIDE DEF T
    <3>2. PICK m \in T : \A e \in q.graphs["causal"].edges : e.to = m => e.from \notin T
        BY <3>1, MostUpstream
    <3>3. ASSUME NEW p \in Premises(q, m) PROVE p \notin T
      <4>1. PICK e \in q.graphs["causal"].edges : e.to = m /\ p \in Range(e.premises) /\ p \in Live(q)
          BY <3>3 DEF Premises, SupportPaths
      <4>2. \E x \in q.graphs["causal"].edges : x.from = p /\ x.to = m
          BY <4>1 DEF Linked
      <4> QED
          BY <3>2, <4>2
    <3> QED
        BY <3>2, <3>3 DEF T
  <2> QED
      BY <2>1, <2>2
<1>9. PICK m \in ids : Premises(q, m) \cap ids \subseteq S /\ (S # ids => m \notin S)
    BY <1>8
<1> DEFINE fast == Visit(q, d, order)
           U == S \cup {m}
<1>10. /\ fast \in FastMaps(q)
       /\ \A x \in U : fast[x] = Recomputed(q, d, fast, x)
    BY <1>1, <1>3, <1>7, <1>9, RoundSettles
<1>11. r = WithFast(q, fast)
    BY <1>4
<1> HIDE DEF fast
<1>12. /\ Live(r) = Live(q) /\ r.graphs = q.graphs
       /\ \A x \in Live(q) : r.nodes[x] = [q.nodes[x] EXCEPT !.fast = fast[x]]
    BY <1>10, <1>11, WithFastInv
<1>13. Fast(r) = fast
  <2>1. \A x \in Live(q) : r.nodes[x].fast = fast[x]
      BY <1>12 DEF QuadInv, IsQuad, Node
  <2> QED
      BY <1>10, <1>12, <2>1 DEF Fast, FastMaps
<1>14. \A x \in U : Fast(r)[x] = Recomputed(r, d, Fast(r), x)
    BY <1>10, <1>12, <1>13, SameShape
<1>15. U \in SUBSET ids /\ \A x \in U : Premises(q, x) \cap ids \subseteq U
    BY <1>3, <1>9
<1>16. Region(r, id) = ids /\ \A x : Premises(r, x) = Premises(q, x)
    BY <1>12, SameShape DEF ids
<1>17. U = ids \/ Cardinality(U) >= n + 1
  <2>1. CASE S = ids
      BY <1>9, <2>1
  <2>2. CASE S # ids
    <3>1. IsFiniteSet(S) /\ m \notin S /\ Cardinality(S) >= n
        BY <1>2, <1>3, <1>9, <2>2, FS_Subset
    <3>2. Cardinality(S) \in Nat /\ Cardinality(U) = Cardinality(S) + 1
        BY <3>1, FS_AddElement, FS_CardinalityType
    <3> QED
        BY <3>1, <3>2
  <2> QED
      BY <2>1, <2>2
<1> HIDE DEF U
<1> QED
    BY <1>14, <1>15, <1>16, <1>17 DEF Progressed

\* What System 1 has settled by the rounds it ran from the present root.
Progress ==
    (WellFounded /\ root \in Live(quad)) => Progressed(quad, decay, root, rounds)

\* Nothing need be settled before the first round.
LEMMA NothingYet ==
    ASSUME NEW q, NEW d, NEW id
    PROVE  Progressed(q, d, id, 0)
<1>1. {} \in SUBSET Region(q, id) /\ Cardinality({}) >= 0
    BY FS_EmptySet
<1> QED
    BY <1>1 DEF Progressed

LEMMA InitProgress == Init => Progress
BY NothingYet DEF Init, Progress

LEMMA NextProgress == Inv /\ Progress /\ [Next]_vars => Progress'
<1> SUFFICES ASSUME Inv, Progress, [Next]_vars PROVE Progress'
    OBVIOUS
<1>1. ASSUME Settle PROVE Progress'
    BY <1>1, NothingYet DEF Settle, Progress
<1>2. ASSUME NEW id \in Ids, PropagateSystem1(id) PROVE Progress'
  <2> SUFFICES ASSUME WellFounded', root' \in Live(quad')
               PROVE  Progressed(quad', decay', root', rounds')
      BY DEF Progress
  <2>1. quad' \in Propagate(quad, decay, id) /\ root' = id /\ decay' = decay
      BY <1>2 DEF PropagateSystem1
  <2>2. QuadInv(quad) /\ Decaying(quad, decay) /\ id \in BeliefId /\ rounds \in Nat
      BY DecayInRange DEF Inv, TypeOK, Ids, BeliefId
  <2>3. Live(quad') = Live(quad) /\ quad'.graphs = quad.graphs
      BY <2>1, <2>2, PropagateInv
  <2>4. id \in Live(quad)
      BY <2>1, <2>3
  <2>5. \A x : Descendants(quad', x) = Descendants(quad, x)
      BY <2>3, SameShape
  <2>6. WellFounded
      BY <2>3, <2>5 DEF WellFounded, Causal
  <2>7. Acyclic(quad) /\ Linked(quad)
      BY <2>6 DEF WellFounded, Causal, Acyclic, Linked
  <2> DEFINE n == IF root = id THEN rounds ELSE 0
  <2>8. n \in Nat /\ rounds' = n + 1
      BY <1>2, <2>2 DEF PropagateSystem1
  <2>9. Progressed(quad, decay, id, n)
      BY <2>4, <2>6, NothingYet DEF Progress
  <2> HIDE DEF n
  <2>10. Progressed(quad', decay, id, n + 1)
      BY <2>1, <2>2, <2>4, <2>7, <2>8, <2>9, ProgressStep
  <2> QED
      BY <2>1, <2>8, <2>10
<1>3. CASE UNCHANGED vars
    BY <1>3 DEF vars, Progress, WellFounded, Causal, Live
<1> QED
    BY <1>1, <1>2, <1>3 DEF Next, LinkPremises, ChangeConfidence, DropBelief

\* System 1 settles everything downstream of its root in as many rounds as
\* there are beliefs, on every well-founded graph, with any decay and in every
\* order the hash sets may choose.
THEOREM Convergence == Spec => []Converges
<1>1. Inv /\ Progress => Converges
  <2> SUFFICES ASSUME Inv, Progress, WellFounded, root \in Live(quad),
                      rounds >= Cardinality(Region(quad, root))
               PROVE  Settled(Region(quad, root))
      BY DEF Converges, Region
  <2> DEFINE ids == Region(quad, root)
  <2>1. PICK S \in SUBSET ids :
          /\ \A x \in S : Fast(quad)[x] = Recomputed(quad, decay, Fast(quad), x)
          /\ S = ids \/ Cardinality(S) >= rounds
      BY DEF Progress, Progressed
  <2>2. ids \in SUBSET Live(quad) /\ IsFiniteSet(Live(quad)) /\ rounds \in Nat
      BY DescendantsLive DEF Inv, TypeOK, QuadInv, Finite, Region
  <2>3. rounds >= Cardinality(ids)
      OBVIOUS
  <2> HIDE DEF ids
  <2>4. S = ids
    <3>1. IsFiniteSet(ids) /\ IsFiniteSet(S)
        BY <2>2, FS_Subset
    <3>2. Cardinality(ids) \in Nat /\ Cardinality(S) \in Nat
        BY <3>1, FS_CardinalityType
    <3>3. Cardinality(S) = Cardinality(ids) => S = ids
        BY <3>1, FS_Subset
    <3>4. Cardinality(S) <= Cardinality(ids)
        BY <3>1, FS_Subset
    <3> QED
        BY <2>1, <2>2, <2>3, <3>2, <3>3, <3>4
  <2>5. \A x \in ids : quad.nodes[x].fast = Recomputed(quad, decay, Fast(quad), x)
      BY <2>1, <2>2, <2>4 DEF Fast
  <2> QED
      BY <2>5 DEF Settled, ids
<1> QED
    BY InitInv, NextInv, InitProgress, NextProgress, <1>1, PTL DEF Spec

=============================================================================

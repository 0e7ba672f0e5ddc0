-------------------------- MODULE BeliefQuad_proofs --------------------------
(***************************************************************************)
(* Theorems about BeliefQuad for every number of keys, values, slots and   *)
(* checkpoints.  The inductive invariant is Inv: the live quad and every   *)
(* snapshot are well-formed, which needs the soundness of the arena, since *)
(* a slot issued twice would bring an old belief's edges back under a new  *)
(* belief.                                                                 *)
(***************************************************************************)
EXTENDS BeliefQuad, QuadOps_proofs

\* The edges callers pass are edges over the ids they were given.
LEMMA EdgesTyped ==
    ASSUME handles \subseteq BeliefId \X Key, NEW kinds \in SUBSET EdgeKind
    PROVE  /\ Issued \subseteq BeliefId
           /\ EdgeInputs(kinds, PremiseLists) \subseteq Edge
           /\ EdgeInputs(kinds, {<<>>}) \subseteq Edge
<1>1. Issued \subseteq BeliefId
    BY DEF Issued
<1>2. PremiseLists \subseteq Seq(BeliefId)
  <2> SUFFICES ASSUME NEW n \in 0 .. MaxPremises, NEW ps \in [1 .. n -> Issued]
               PROVE  ps \in Seq(BeliefId)
      BY DEF PremiseLists
  <2>1. n \in Nat
      BY BoundsAssumption
  <2> QED
      BY <1>1, <2>1, FunctionIsSeq
<1>3. <<>> \in Seq(BeliefId)
    OBVIOUS
<1> QED
    BY <1>1, <1>2, <1>3 DEF EdgeInputs, Edge

\* A rollback that fails changes nothing; one that succeeds restores a held
\* snapshot, leaves no checkpoint and undoes the handles given since.
LEMMA RollbackCases ==
    ASSUME NEW cp, RollbackTo(cp)
    PROVE  /\ \/ quad' = quad /\ checkpoints' = checkpoints /\ undone' = undone
              \/ /\ checkpoints' = <<>>
                 /\ undone' = undone \cup (handles \ taken[cp])
                 /\ \E i \in DOMAIN checkpoints :
                      checkpoints[i].id = cp /\ quad' = checkpoints[i].quad
           /\ nextCp' = nextCp /\ handles' = handles /\ taken' = taken
<1> DEFINE H == Held(checkpoints, cp)
<1>1. H # {} => (CHOOSE i \in H : TRUE) \in H
    OBVIOUS
<1>2. \A i \in H : i \in DOMAIN checkpoints /\ checkpoints[i].id = cp
    BY DEF Held
<1> HIDE DEF H
<1>3. RollbackTo(cp) <=>
        LET out == IF H = {}
                   THEN [quad |-> quad, checkpoints |-> checkpoints, result |-> "CheckpointNotFound"]
                   ELSE LET snap == checkpoints[CHOOSE i \in H : TRUE].quad
                        IN  IF HasContradictions(quad, snap)
                            THEN [quad |-> snap, checkpoints |-> <<>>, result |-> "Ok"]
                            ELSE [quad |-> quad, checkpoints |-> checkpoints,
                                  result |-> "UnnecessaryContraction"]
        IN  /\ quad' = out.quad
            /\ checkpoints' = out.checkpoints
            /\ reply' = Reply("rollback", None, out.result, {})
            /\ undone' = IF out.result = "Ok" THEN undone \cup (handles \ taken[cp]) ELSE undone
            /\ UNCHANGED <<nextCp, handles, taken>>
    BY DEF RollbackTo, Rollback, RestoredList, H
<1> QED
    BY <1>1, <1>2, <1>3

\* Storing scenarios, of whatever value for whatever id, keeps the quad well-formed.
LEMMA IndexInv ==
    ASSUME QuadInv(quad), NEW id \in BeliefId, NEW v \in Value
    PROVE  QuadInv([quad EXCEPT !.prospective =
                      [i \in DOMAIN @ \cup {id} |-> IF i = id THEN v ELSE @[i]]])
<1> DEFINE P == [i \in DOMAIN quad.prospective \cup {id} |->
                   IF i = id THEN v ELSE quad.prospective[i]]
           r == [quad EXCEPT !.prospective = P]
<1>1. IsQuad(quad) /\ Finite(quad) /\ ArenaSound(quad) /\ ProjectionsAgree(quad)
    BY DEF QuadInv
<1>2. /\ DOMAIN P = DOMAIN quad.prospective \cup {id}
      /\ P \in [DOMAIN P -> Value]
      /\ DOMAIN P \subseteq BeliefId
    BY <1>1 DEF IsQuad
<1> HIDE DEF P
<1>3. r = [nodes |-> quad.nodes, gens |-> quad.gens, free |-> quad.free,
           graphs |-> quad.graphs, prospective |-> P,
           equivalent |-> quad.equivalent, version |-> quad.version]
  <2>1. quad = [nodes |-> quad.nodes, gens |-> quad.gens, free |-> quad.free,
                graphs |-> quad.graphs, prospective |-> quad.prospective,
                equivalent |-> quad.equivalent, version |-> quad.version]
      BY <1>1 DEF IsQuad
  <2> QED
      BY ONLY <2>1
<1>4. Live(r) = Live(quad)
    BY <1>3 DEF Live
<1> HIDE DEF r
<1>5. IsQuad(r)
    BY <1>1, <1>2, <1>3, <1>4 DEF IsQuad
<1>6. ArenaSound(r) /\ ProjectionsAgree(r) /\ Finite(r)
    BY <1>1, <1>2, <1>3, <1>4 DEF ArenaSound, ProjectionsAgree, Finite
<1> QED
    BY <1>1, <1>4, <1>5, <1>6 DEF QuadInv, r, P

\* Installing or clearing the embedding provider keeps the quad well-formed.
LEMMA SetProviderInv ==
    ASSUME QuadInv(quad), NEW b \in SUBSET (Value \X Value)
    PROVE  QuadInv([quad EXCEPT !.equivalent = b])
<1> DEFINE r == [quad EXCEPT !.equivalent = b]
<1>1. IsQuad(quad) /\ Finite(quad) /\ ArenaSound(quad) /\ ProjectionsAgree(quad)
    BY DEF QuadInv
<1>2. r = [nodes |-> quad.nodes, gens |-> quad.gens, free |-> quad.free,
           graphs |-> quad.graphs, prospective |-> quad.prospective,
           equivalent |-> b, version |-> quad.version]
  <2>1. quad = [nodes |-> quad.nodes, gens |-> quad.gens, free |-> quad.free,
                graphs |-> quad.graphs, prospective |-> quad.prospective,
                equivalent |-> quad.equivalent, version |-> quad.version]
      BY <1>1 DEF IsQuad
  <2> QED
      BY ONLY <2>1
<1>3. Live(r) = Live(quad)
    BY <1>2 DEF Live
<1> HIDE DEF r
<1>4. IsQuad(r)
    BY <1>1, <1>2, <1>3 DEF IsQuad
<1>5. ArenaSound(r) /\ ProjectionsAgree(r) /\ Finite(r)
    BY <1>1, <1>2, <1>3 DEF ArenaSound, ProjectionsAgree, Finite
<1> QED
    BY <1>1, <1>3, <1>4, <1>5 DEF QuadInv, r

-----------------------------------------------------------------------------

\* Every call leaves the live quad well-formed, whatever it returns.
LEMMA QuadStep ==
    ASSUME Inv, Next
    PROVE  QuadInv(quad')
<1>1. QuadInv(quad) /\ handles \subseteq BeliefId \X Key
    BY DEF Inv, Worlds, TypeOK
<1>2. ConfIn \subseteq Int
    BY BoundsAssumption
<1>3. Issued \subseteq BeliefId
    BY <1>1, EdgesTyped
<1>4. ASSUME NEW k \in Key, NEW v \in Value, NEW c \in ConfIn, InsertBelief(k, v, c)
      PROVE  QuadInv(quad')
    BY <1>1, <1>2, <1>4, InsertInv DEF InsertBelief
<1>5. ASSUME NEW id \in Issued, RemoveBelief(id)
      PROVE  QuadInv(quad')
  <2>1. CASE id \in Live(quad)
    <3>1. <<id>> \in Seq(Live(quad)) /\ quad' = RemoveAll(quad, <<id>>)
        BY <1>5, <2>1 DEF RemoveBelief, RemoveOne
    <3>2. \A i, j \in DOMAIN <<id>> : <<id>>[i] = <<id>>[j] => i = j
        OBVIOUS
    <3> HIDE DEF QuadInv
    <3> QED
        BY <1>1, <3>1, <3>2, RemoveAllInv
  <2>2. CASE id \notin Live(quad)
      BY <1>1, <1>5, <2>2 DEF RemoveBelief, RemoveOne
  <2> QED
      BY <2>1, <2>2
<1>6. ASSUME NEW id \in Issued, NEW v \in Value, NEW c \in ConfIn, ReviseBelief(id, v, c)
      PROVE  QuadInv(quad')
    BY <1>1, <1>2, <1>3, <1>6, ReviseInv DEF ReviseBelief
<1>7. ASSUME NEW p \in Projection, NEW e \in Edge, LinkBeliefs(p, e)
      PROVE  QuadInv(quad')
    BY <1>1, <1>7, AddEdgeInv DEF LinkBeliefs
<1>8. ASSUME NEW id \in Issued, NEW v \in Value, IndexBelief(id, v)
      PROVE  QuadInv(quad')
    BY <1>1, <1>3, <1>8, IndexInv DEF IndexBelief
<1>9. ASSUME NEW id \in Issued, NEW c \in ConfIn, SetSlow(id, c)
      PROVE  QuadInv(quad')
    BY <1>1, <1>2, <1>9, SetSlowInv DEF SetSlow
<1>10. ASSUME NEW b \in SUBSET (Value \X Value), SetProvider(b)
       PROVE  QuadInv(quad')
    BY <1>1, <1>10, SetProviderInv DEF SetProvider
<1>11. ASSUME TakeCheckpoint \/ ClearCheckpoints
       PROVE  QuadInv(quad')
    BY <1>1, <1>11 DEF TakeCheckpoint, ClearCheckpoints
<1>12. ASSUME NEW cp \in 1 .. nextCp - 1, RollbackTo(cp)
       PROVE  QuadInv(quad')
  <2>1. CASE quad' = quad
      BY <1>1, <2>1
  <2>2. ASSUME NEW i \in DOMAIN checkpoints, quad' = checkpoints[i].quad
        PROVE  QuadInv(quad')
      BY <2>2 DEF Inv, Worlds, Snapshots
  <2> QED
      BY <1>12, <2>1, <2>2, RollbackCases
<1>13. /\ EdgeInputs({"Contradicts"}, {<<>>}) \subseteq Edge
       /\ EdgeInputs({"InferredFrom"}, PremiseLists) \subseteq Edge
       /\ EdgeInputs({"Related"}, {<<>>}) \subseteq Edge
    BY <1>1, EdgesTyped DEF EdgeKind
<1>14. Equivalence \cup {{}} \subseteq SUBSET (Value \X Value)
    BY QuadAssumption
<1>15. "semantic" \in Projection /\ {"causal", "temporal", "entity"} \subseteq Projection
    BY DEF Projection
<1> QED
    BY <1>4, <1>5, <1>6, <1>7, <1>8, <1>9, <1>10, <1>11, <1>12, <1>13, <1>14, <1>15 DEF Next

\* Checkpoints are captures of the live quad and are only ever dropped.
LEMMA CheckpointsStep ==
    ASSUME Inv, Next
    PROVE  /\ checkpoints' \in Seq([id : Nat, quad : Snapshots'])
           /\ Snapshots' \subseteq Worlds
           /\ nextCp' \in Nat
<1>1. checkpoints \in Seq([id : Nat, quad : Snapshots]) /\ nextCp \in Nat
    BY DEF Inv, TypeOK
<1>2. CASE checkpoints' = checkpoints /\ nextCp' = nextCp
    BY <1>1, <1>2 DEF Snapshots, Worlds
<1>3. CASE checkpoints' = <<>> /\ nextCp' = nextCp
    BY <1>1, <1>3 DEF Snapshots
<1>4. CASE /\ checkpoints' = Append(checkpoints, [id |-> nextCp, quad |-> quad])
           /\ nextCp' = nextCp + 1
  <2> DEFINE cp == [id |-> nextCp, quad |-> quad]
  <2>1. /\ Len(checkpoints) \in Nat
        /\ DOMAIN checkpoints' = 1 .. Len(checkpoints) + 1
        /\ checkpoints'[Len(checkpoints) + 1] = cp
        /\ \A i \in 1 .. Len(checkpoints) :
             checkpoints'[i] = checkpoints[i] /\ i \in DOMAIN checkpoints
      BY <1>1, <1>4
  <2>2. Snapshots' = Snapshots \cup {quad}
    <3>1. Snapshots' = {checkpoints'[i].quad : i \in 1 .. Len(checkpoints) + 1}
        BY <2>1 DEF Snapshots
    <3>2. Snapshots = {checkpoints[i].quad : i \in 1 .. Len(checkpoints)}
      <4>1. DOMAIN checkpoints = 1 .. Len(checkpoints)
          BY <1>1
      <4> QED
          BY ONLY <4>1 DEF Snapshots
    <3>3. 1 .. Len(checkpoints) + 1 = 1 .. Len(checkpoints) \cup {Len(checkpoints) + 1}
        BY <2>1
    <3>4. checkpoints'[Len(checkpoints) + 1].quad = quad
        BY <2>1
    <3> QED
        BY ONLY <2>1, <3>1, <3>2, <3>3, <3>4
  <2>3. cp \in [id : Nat, quad : Snapshots']
      BY <1>1, <2>2
  <2>4. checkpoints \in Seq([id : Nat, quad : Snapshots'])
    <3>1. [id : Nat, quad : Snapshots] \subseteq [id : Nat, quad : Snapshots']
        BY <2>2
    <3> QED
        BY <1>1, <3>1, SeqMonotonic
  <2>5. checkpoints' \in Seq([id : Nat, quad : Snapshots'])
      BY <1>4, <2>3, <2>4
  <2> QED
      BY <1>1, <1>4, <2>2, <2>5 DEF Worlds
<1> QED
    BY <1>2, <1>3, <1>4, RollbackCases DEF Next, InsertBelief, RemoveBelief, ReviseBelief,
         LinkBeliefs, IndexBelief, SetSlow, SetProvider, TakeCheckpoint, ClearCheckpoints, callers

\* Callers are only given ids the arena issued, and the history remembers
\* handles callers have.
LEMMA HandlesStep ==
    ASSUME Inv, Next
    PROVE  /\ handles' \subseteq BeliefId \X Key
           /\ taken' \in Seq(SUBSET handles') /\ Len(taken') = nextCp' - 1
           /\ undone' \subseteq handles'
<1>1. /\ QuadInv(quad) /\ handles \subseteq BeliefId \X Key /\ nextCp \in Nat
      /\ taken \in Seq(SUBSET handles) /\ Len(taken) = nextCp - 1 /\ undone \subseteq handles
    BY DEF Inv, Worlds, TypeOK
<1>2. CASE UNCHANGED callers
    BY <1>1, <1>2 DEF callers
<1>3. ASSUME NEW k \in Key, handles' = handles \cup {<<NextId(quad), k>>},
             UNCHANGED <<nextCp, taken, undone>>
      PROVE  /\ handles' \subseteq BeliefId \X Key
             /\ taken' \in Seq(SUBSET handles') /\ Len(taken') = nextCp' - 1
             /\ undone' \subseteq handles'
  <2>1. SUBSET handles \subseteq SUBSET handles'
      BY <1>3
  <2>2. taken \in Seq(SUBSET handles')
      BY <1>1, <2>1, SeqMonotonic
  <2>3. handles' \subseteq BeliefId \X Key
      BY <1>1, <1>3, NextIdFresh
  <2> QED
      BY <1>1, <1>3, <2>2, <2>3
<1>4. CASE /\ nextCp' = nextCp + 1 /\ taken' = Append(taken, handles)
           /\ UNCHANGED <<handles, undone>>
    BY <1>1, <1>4
<1>5. ASSUME NEW cp, RollbackTo(cp)
      PROVE  UNCHANGED <<nextCp, handles, taken>> /\ undone' \subseteq undone \cup handles
    BY <1>5, RollbackCases
<1>6. ASSUME NEW cp, RollbackTo(cp)
      PROVE  /\ handles' \subseteq BeliefId \X Key
             /\ taken' \in Seq(SUBSET handles') /\ Len(taken') = nextCp' - 1
             /\ undone' \subseteq handles'
    BY <1>1, <1>5, <1>6
<1> QED
    BY <1>2, <1>3, <1>4, <1>6 DEF Next, InsertBelief, RemoveBelief, ReviseBelief,
         LinkBeliefs, IndexBelief, SetSlow, SetProvider, TakeCheckpoint, ClearCheckpoints

\* The live quad and every snapshot are well-formed, always.
THEOREM Invariance == Spec => []Inv
<1>1. Init => Inv
  <2> SUFFICES ASSUME Init PROVE Inv
      OBVIOUS
  <2>1. Worlds = {EmptyQuad} /\ Snapshots = {}
      BY DEF Init, Worlds, Snapshots
  <2>2. QuadInv(EmptyQuad)
      BY EmptyQuadInv
  <2>3. IsQuad(EmptyQuad)
      BY <2>2 DEF QuadInv
  <2> QED
      BY <2>1, <2>2, <2>3 DEF Init, Inv, TypeOK
<1>2. Inv /\ [Next]_vars => Inv'
  <2> SUFFICES ASSUME Inv, [Next]_vars PROVE Inv'
      OBVIOUS
  <2>1. CASE Next
    <3>1. QuadInv(quad') /\ \A q \in Worlds : QuadInv(q)
        BY <2>1, QuadStep DEF Inv
    <3>2. \A q \in Worlds' : QuadInv(q)
        BY <2>1, <3>1, CheckpointsStep DEF Worlds
    <3>3. TypeOK'
        BY <2>1, <3>2, CheckpointsStep, HandlesStep DEF TypeOK, QuadInv
    <3> QED
        BY <3>2, <3>3 DEF Inv
  <2>2. CASE UNCHANGED vars
      BY <2>2 DEF vars, callers, Inv, TypeOK, Worlds, Snapshots
  <2> QED
      BY <2>1, <2>2
<1> QED
    BY <1>1, <1>2, PTL DEF Spec

\* Type correctness of the quad, its snapshots and the ids callers hold.
THEOREM TypeCorrect == Spec => []TypeOK
<1>1. Inv => TypeOK
    BY DEF Inv
<1> QED
    BY <1>1, Invariance, PTL

\* No sequence of inserts, removals, revisions, edges, checkpoints and
\* rollbacks leaves a projection out of step with the arena or an edge dangling.
THEOREM ProjectionAgreement == Spec => []AllProjectionsAgree
<1>1. Inv => AllProjectionsAgree
    BY DEF Inv, QuadInv, AllProjectionsAgree
<1> QED
    BY <1>1, Invariance, PTL

-----------------------------------------------------------------------------

\* Apart from insertion and rollback, a call only moves the arena forward.
LEMMA OtherStepsLater ==
    ASSUME Inv, Next
    PROVE  \/ /\ Later(quad, quad')
              /\ handles' = handles /\ undone' = undone
           \/ \E k \in Key, v \in Value, c \in ConfIn : InsertBelief(k, v, c)
           \/ "rollback" \in Calls /\ \E cp \in 1 .. nextCp - 1 : RollbackTo(cp)
<1>1. QuadInv(quad) /\ handles \subseteq BeliefId \X Key
    BY DEF Inv, Worlds, TypeOK
<1>2. ConfIn \subseteq Int /\ Issued \subseteq BeliefId
    BY <1>1, BoundsAssumption, EdgesTyped
<1>3. /\ IsQuad(quad)
      /\ \A s \in DOMAIN quad.gens : quad.gens[s] \in Nat
      /\ quad.version \in Nat
    BY <1>1 DEF QuadInv, IsQuad
<1>4. ASSUME Live(quad') = Live(quad), quad'.gens = quad.gens,
             quad'.version = quad.version,
             \A i \in Live(quad) : /\ quad'.nodes[i].key = quad.nodes[i].key
                                    /\ quad'.nodes[i].value = quad.nodes[i].value
      PROVE  Later(quad, quad')
    BY <1>3, <1>4 DEF Later
<1>5. ASSUME NEW id \in Issued, RemoveBelief(id)
      PROVE  Later(quad, quad')
  <2>1. CASE id \in Live(quad)
    <3>1. <<id>> \in Seq(Live(quad)) /\ quad' = RemoveAll(quad, <<id>>)
        BY <1>5, <2>1 DEF RemoveBelief, RemoveOne
    <3>2. \A i, j \in DOMAIN <<id>> : <<id>>[i] = <<id>>[j] => i = j
        OBVIOUS
    <3> QED
        BY <1>1, <3>1, <3>2, RemoveAllLater
  <2>2. CASE id \notin Live(quad)
      BY <1>4, <1>5, <2>2 DEF RemoveBelief, RemoveOne
  <2> QED
      BY <2>1, <2>2
<1>6. ASSUME NEW id \in Issued, NEW v \in Value, NEW c \in ConfIn, ReviseBelief(id, v, c)
      PROVE  Later(quad, quad')
    BY <1>1, <1>2, <1>6, ReviseLater DEF ReviseBelief
<1>7. ASSUME NEW p, NEW e, LinkBeliefs(p, e)
      PROVE  Later(quad, quad')
  <2>1. /\ quad'.nodes = quad.nodes /\ quad'.gens = quad.gens
        /\ quad'.version = quad.version
      BY <1>3, <1>7 DEF LinkBeliefs, IsQuad
  <2> QED
      BY <1>4, <2>1 DEF Live
<1>8. ASSUME NEW id \in Issued, NEW v \in Value, IndexBelief(id, v)
      PROVE  Later(quad, quad')
  <2>1. /\ quad'.nodes = quad.nodes /\ quad'.gens = quad.gens
        /\ quad'.version = quad.version
      BY <1>3, <1>8 DEF IndexBelief, IsQuad
  <2> QED
      BY <1>4, <2>1 DEF Live
<1>9. ASSUME NEW id \in Issued, NEW c \in ConfIn, SetSlow(id, c)
      PROVE  Later(quad, quad')
  <2>1. /\ id \in Live(quad)
        /\ quad'.nodes = [quad.nodes EXCEPT ![id] = [quad.nodes[id] EXCEPT !.slow = c]]
        /\ quad'.gens = quad.gens /\ quad'.version = quad.version
      BY <1>3, <1>9 DEF SetSlow, IsQuad
  <2>2. /\ [quad.nodes[id] EXCEPT !.slow = c].key = quad.nodes[id].key
        /\ [quad.nodes[id] EXCEPT !.slow = c].value = quad.nodes[id].value
      BY <1>3, <2>1 DEF IsQuad, Node
  <2> QED
      BY <1>4, <2>1, <2>2 DEF Live
<1>10. ASSUME NEW b, SetProvider(b)
       PROVE  Later(quad, quad')
  <2>1. /\ quad'.nodes = quad.nodes /\ quad'.gens = quad.gens
        /\ quad'.version = quad.version
      BY <1>3, <1>10 DEF SetProvider, IsQuad
  <2> QED
      BY <1>4, <2>1 DEF Live
<1>11. ASSUME TakeCheckpoint \/ ClearCheckpoints
       PROVE  Later(quad, quad')
    BY <1>4, <1>11 DEF TakeCheckpoint, ClearCheckpoints
<1> QED
    BY <1>5, <1>6, <1>7, <1>8, <1>9, <1>10, <1>11 DEF Next, RemoveBelief, ReviseBelief,
         LinkBeliefs, IndexBelief, SetSlow, SetProvider, TakeCheckpoint, ClearCheckpoints, callers

\* Moving the arena forward, and dropping handles, keeps what handles name.
LEMMA NamedLater ==
    ASSUME NEW q, NEW r, QuadInv(q), QuadInv(r), Later(q, r),
           NEW given \in SUBSET (BeliefId \X Key), Named(q, given)
    PROVE  Named(r, given)
<1> SUFFICES ASSUME NEW h \in given
             PROVE  IssuedBy(r, h[1]) /\ (h[1] \in Live(r) => r.nodes[h[1]].key = h[2])
    BY DEF Named
<1> DEFINE id == h[1]
<1>1. /\ Slot(id) \in DOMAIN q.gens
      /\ id \in Live(q) \/ id[2] < q.gens[Slot(id)]
      /\ id \in Live(q) => q.nodes[id].key = h[2]
    BY DEF Named, IssuedBy
<1>2. /\ DOMAIN r.gens = DOMAIN q.gens
      /\ q.gens[Slot(id)] <= r.gens[Slot(id)]
      /\ id \in Live(r) => id \in Live(q) /\ r.nodes[id].key = q.nodes[id].key
      /\ id \in Live(q) /\ id \notin Live(r) => id[2] < r.gens[Slot(id)]
    BY <1>1 DEF Later
<1>3. q.gens[Slot(id)] \in Nat /\ r.gens[Slot(id)] \in Nat /\ id[2] \in Nat
    BY <1>1, <1>2, LaterNumbers DEF BeliefId
<1> HIDE DEF id
<1>4. IssuedBy(r, id)
    BY <1>1, <1>2, <1>3 DEF IssuedBy
<1> QED
    BY <1>1, <1>2, <1>4 DEF id

\* The arena issues an id that no handle it knows has, so a new belief answers
\* to its own handle only.
LEMMA NamedInsert ==
    ASSUME NEW q, QuadInv(q), NEW k \in Key, NEW v, NEW c,
           NEW given \in SUBSET (BeliefId \X Key), Named(q, given)
    PROVE  Named(Insert(q, [key |-> k, value |-> v, fast |-> c, slow |-> None]),
                 given \cup {<<NextId(q), k>>})
<1> DEFINE id   == NextId(q)
           node == [key |-> k, value |-> v, fast |-> c, slow |-> None]
           r    == Insert(q, node)
<1>0. \A s \in DOMAIN q.gens : q.gens[s] \in Nat
    BY LaterNumbers
<1>2. /\ r.nodes = [i \in Live(q) \cup {id} |->
                          IF i = id THEN [node EXCEPT !.fast = Clamp(@)] ELSE q.nodes[i]]
      /\ r.gens = IF q.free = <<>> THEN Append(q.gens, 1) ELSE q.gens
    BY Zenon DEF Insert
<1>3. [node EXCEPT !.fast = Clamp(@)].key = k
    OBVIOUS
<1>4. Live(r) = Live(q) \cup {id} /\ r.nodes[id].key = k
    BY <1>2, <1>3 DEF Live
<1>5. q.gens \in Seq(Nat) /\ q.free \in Seq(Nat)
    BY DEF QuadInv, IsQuad
<1>6. /\ DOMAIN q.gens \subseteq DOMAIN r.gens
      /\ \A s \in DOMAIN q.gens : r.gens[s] = q.gens[s]
  <2> DEFINE gens == q.gens
             now  == r.gens
  <2>1. gens \in Seq(Nat) /\ (now = Append(gens, 1) \/ now = gens)
      BY <1>2, <1>5
  <2> HIDE DEF gens, now
  <2>2. DOMAIN gens \subseteq DOMAIN now /\ \A s \in DOMAIN gens : now[s] = gens[s]
    <3>1. CASE now = Append(gens, 1)
      <4>1. DOMAIN gens = 1 .. Len(gens) /\ Len(gens) \in Nat
          BY ONLY <2>1
      <4>2. DOMAIN now = 1 .. Len(gens) + 1
          BY ONLY <2>1, <3>1
      <4>3. \A s \in 1 .. Len(gens) : now[s] = gens[s]
          BY ONLY <2>1, <3>1
      <4> QED
          BY ONLY <4>1, <4>2, <4>3
    <3>2. CASE now = gens
        BY ONLY <3>2
    <3> QED
        BY <2>1, <3>1, <3>2, Zenon
  <2> QED
      BY <2>2, Zenon DEF gens, now
<1>7. /\ Slot(id) \in DOMAIN r.gens
      /\ Slot(id) \in DOMAIN q.gens => id[2] = q.gens[Slot(id)]
  <2>1. CASE q.free = <<>>
      BY <1>2, <1>5, <2>1 DEF NextId, Slot
  <2>2. CASE q.free # <<>>
    <3>1. 1 \in DOMAIN q.free /\ Head(q.free) = q.free[1]
        BY <1>5, <2>2
    <3>2. q.free[1] \in DOMAIN q.gens
        BY <3>1 DEF QuadInv, ArenaSound
    <3> QED
        BY <1>2, <2>2, <3>1, <3>2 DEF NextId, Slot
  <2> QED
      BY <2>1, <2>2
<1>8. \A h \in given : h[1] = id => FALSE
  <2> SUFFICES ASSUME NEW h \in given, h[1] = id PROVE FALSE
      OBVIOUS
  <2>1. Slot(id) \in DOMAIN q.gens /\ id[2] < q.gens[Slot(id)]
      BY NextIdFresh DEF Named, IssuedBy
  <2> QED
      BY <1>0, <1>7, <2>1
<1>9. id \notin Live(q)
    BY NextIdFresh
<1> HIDE DEF id, node, r
<1>10. ASSUME NEW h \in given
       PROVE  IssuedBy(r, h[1]) /\ (h[1] \in Live(r) => r.nodes[h[1]].key = h[2])
  <2>1. /\ IssuedBy(q, h[1]) /\ h[1] # id
        /\ h[1] \in Live(q) => q.nodes[h[1]].key = h[2]
      BY <1>8 DEF Named
  <2>2. h[1] \in Live(r) => h[1] \in Live(q) /\ r.nodes[h[1]] = q.nodes[h[1]]
      BY <1>2, <1>4, <2>1
  <2>3. IssuedBy(r, h[1])
      BY <1>4, <1>6, <2>1 DEF IssuedBy
  <2> QED
      BY <2>1, <2>2, <2>3
<1>11. IssuedBy(r, id) /\ r.nodes[id].key = k
    BY <1>4, <1>7 DEF IssuedBy
<1>12. Named(r, given \cup {<<id, k>>})
    BY <1>10, <1>11 DEF Named
<1> QED
    BY <1>12 DEF r, id, node

\* What a list of checkpoints promises of the handles taken with them.
LEMMA ListStep ==
    ASSUME Inv, HandlesInv, Next
    PROVE  \A i \in DOMAIN checkpoints' :
             /\ checkpoints'[i].id \in DOMAIN taken'
             /\ Named(checkpoints'[i].quad, taken'[checkpoints'[i].id] \ undone')
<1>1. /\ checkpoints \in Seq([id : Nat, quad : Snapshots])
      /\ taken \in Seq(SUBSET handles) /\ Len(taken) = nextCp - 1 /\ nextCp \in Nat
    BY DEF Inv, TypeOK
<1>2. CASE checkpoints' = <<>>
    BY <1>2
<1>3. CASE UNCHANGED <<checkpoints, taken, undone>>
    BY <1>3 DEF HandlesInv
<1>4. CASE TakeCheckpoint
  <2> DEFINE n == Len(checkpoints) + 1
  <2>1. /\ checkpoints' = Append(checkpoints, [id |-> nextCp, quad |-> quad])
        /\ taken' = Append(taken, handles) /\ undone' = undone
      BY <1>4 DEF TakeCheckpoint
  <2>2. /\ DOMAIN checkpoints' = 1 .. n
        /\ checkpoints'[n].id = nextCp /\ checkpoints'[n].quad = quad
        /\ \A i \in 1 .. n : i # n => i \in DOMAIN checkpoints /\ checkpoints'[i] = checkpoints[i]
      BY <1>1, <2>1
  <2>3. /\ nextCp \in DOMAIN taken' /\ taken'[nextCp] = handles
        /\ \A i \in DOMAIN taken : i \in DOMAIN taken' /\ taken'[i] = taken[i]
      BY <1>1, <2>1
  <2>4. Named(quad, handles \ undone)
      BY DEF HandlesInv
  <2>5. \A i \in DOMAIN checkpoints :
          /\ checkpoints[i].id \in DOMAIN taken
          /\ Named(checkpoints[i].quad, taken[checkpoints[i].id] \ undone)
      BY DEF HandlesInv
  <2> SUFFICES ASSUME NEW i \in 1 .. n
               PROVE  /\ checkpoints'[i].id \in DOMAIN taken'
                      /\ Named(checkpoints'[i].quad, taken'[checkpoints'[i].id] \ undone')
      BY <2>2
  <2>6. CASE i = n
      BY <2>1, <2>2, <2>3, <2>4, <2>6
  <2>7. CASE i # n
    <3>1. i \in DOMAIN checkpoints /\ checkpoints'[i] = checkpoints[i]
        BY <2>2, <2>7
    <3>2. /\ checkpoints[i].id \in DOMAIN taken
          /\ Named(checkpoints[i].quad, taken[checkpoints[i].id] \ undone)
        BY <2>5, <3>1
    <3>3. /\ checkpoints[i].id \in DOMAIN taken'
          /\ taken'[checkpoints[i].id] = taken[checkpoints[i].id]
        BY <2>3, <3>2
    <3> QED
        BY <2>1, <3>1, <3>2, <3>3
  <2> QED
      BY <2>6, <2>7
<1>5. ASSUME NEW cp, RollbackTo(cp)
      PROVE  checkpoints' = <<>> \/ UNCHANGED <<checkpoints, taken, undone>>
    BY <1>5, RollbackCases
<1> QED
    BY <1>2, <1>3, <1>4, <1>5 DEF Next, InsertBelief, RemoveBelief, ReviseBelief,
         LinkBeliefs, IndexBelief, SetSlow, SetProvider, ClearCheckpoints, callers

\* A BeliefId never names another belief than the one it was returned for,
\* unless a rollback went back behind the call that returned it: short of that
\* the generations rule the ABA hazard out.
THEOREM AliasingOnlyUndone == Spec => []OnlyUndoneIdsAlias
<1>1. Init => HandlesInv
    BY DEF Init, HandlesInv, Named
<1>2. Inv /\ HandlesInv /\ [Next]_vars => HandlesInv'
  <2> SUFFICES ASSUME Inv, HandlesInv, [Next]_vars PROVE HandlesInv'
      OBVIOUS
  <2>1. QuadInv(quad) /\ handles \ undone \in SUBSET (BeliefId \X Key)
      BY DEF Inv, Worlds, TypeOK
  <2>2. Named(quad, handles \ undone)
      BY DEF HandlesInv
  <2>3. CASE Next
    <3>1. SUFFICES Named(quad', handles' \ undone')
        BY <2>3, ListStep DEF HandlesInv
    <3>2. CASE Later(quad, quad') /\ handles' = handles /\ undone' = undone
        BY <2>1, <2>2, <2>3, <3>2, NamedLater, QuadStep
    <3>3. ASSUME NEW k \in Key, NEW v \in Value, NEW c \in ConfIn, InsertBelief(k, v, c)
          PROVE  Named(quad', handles' \ undone')
      <4>1. /\ quad' = Insert(quad, [key |-> k, value |-> v, fast |-> c, slow |-> None])
            /\ handles' = handles \cup {<<NextId(quad), k>>} /\ undone' = undone
          BY <3>3 DEF InsertBelief
      <4>2. Named(quad', (handles \ undone) \cup {<<NextId(quad), k>>})
          BY <2>1, <2>2, <4>1, NamedInsert
      <4> QED
          BY <4>1, <4>2 DEF Named
    <3>4. ASSUME NEW cp, RollbackTo(cp)
          PROVE  Named(quad', handles' \ undone')
      <4>1. CASE quad' = quad /\ undone' = undone
          BY <2>2, <3>4, <4>1, RollbackCases
      <4>2. ASSUME undone' = undone \cup (handles \ taken[cp]), handles' = handles,
                   NEW i \in DOMAIN checkpoints,
                   checkpoints[i].id = cp, quad' = checkpoints[i].quad
            PROVE  Named(quad', handles' \ undone')
        <5>1. Named(quad', taken[cp] \ undone)
            BY <4>2 DEF HandlesInv
        <5>2. handles' \ undone' \subseteq taken[cp] \ undone
            BY <4>2
        <5> QED
            BY <5>1, <5>2 DEF Named
      <4> QED
          BY <3>4, <4>1, <4>2, RollbackCases
    <3> QED
        BY <2>3, <3>2, <3>3, <3>4, OtherStepsLater
  <2>4. CASE UNCHANGED vars
      BY <2>4 DEF vars, callers, HandlesInv
  <2> QED
      BY <2>3, <2>4
<1>3. HandlesInv => OnlyUndoneIdsAlias
    BY DEF HandlesInv, Named, OnlyUndoneIdsAlias
<1> QED
    BY <1>1, <1>2, <1>3, Invariance, PTL DEF Spec

\* Every call that keeps the checkpoints moves the version forward, or leaves
\* both the version and what it names alone; a rollback that succeeds keeps none.
LEMMA VersionStep ==
    ASSUME Inv, Next
    PROVE  \/ checkpoints' = <<>>
           \/ /\ checkpoints' = checkpoints
              /\ quad.version <= quad'.version
              /\ quad'.version = quad.version => Content(quad') = Content(quad)
           \/ /\ checkpoints' = Append(checkpoints, [id |-> nextCp, quad |-> quad])
              /\ quad' = quad
<1>1. QuadInv(quad) /\ quad.version \in Nat
    BY DEF Inv, Worlds, QuadInv, IsQuad
<1>2. ASSUME Later(quad, quad')
      PROVE  /\ quad.version <= quad'.version
             /\ quad'.version = quad.version => Content(quad') = Content(quad)
  <2>1. CASE quad'.version # quad.version
      BY <1>2, <2>1 DEF Later
  <2>2. CASE quad'.version = quad.version
    <3>1. /\ Live(quad') = Live(quad) /\ quad.version <= quad'.version
          /\ \A i \in Live(quad) : /\ quad'.nodes[i].key = quad.nodes[i].key
                                   /\ quad'.nodes[i].value = quad.nodes[i].value
        BY <1>2, <2>2 DEF Later
    <3> QED
        BY <3>1 DEF Content
  <2> QED
      BY <2>1, <2>2
<1>3. ASSUME NEW k \in Key, NEW v \in Value, NEW c \in ConfIn, InsertBelief(k, v, c)
      PROVE  checkpoints' = checkpoints /\ quad'.version = quad.version + 1
  <2> DEFINE node == [key |-> k, value |-> v, fast |-> c, slow |-> None]
  <2>1. quad' = Insert(quad, node) /\ checkpoints' = checkpoints
      BY <1>3 DEF InsertBelief
  <2>2. Insert(quad, node).version = quad.version + 1
      BY Zenon DEF Insert
  <2> QED
      BY <2>1, <2>2
<1>4. ASSUME NEW cp, RollbackTo(cp)
      PROVE  checkpoints' = <<>> \/ (checkpoints' = checkpoints /\ quad' = quad)
    BY <1>4, RollbackCases
<1>5. ASSUME Later(quad, quad')
      PROVE  \/ checkpoints' = <<>> \/ checkpoints' = checkpoints
             \/ checkpoints' = Append(checkpoints, [id |-> nextCp, quad |-> quad]) /\ quad' = quad
    BY RollbackCases DEF Next, InsertBelief, RemoveBelief, ReviseBelief, LinkBeliefs,
         IndexBelief, SetSlow, SetProvider, TakeCheckpoint, ClearCheckpoints, callers
<1> QED
    BY <1>1, <1>2, <1>3, <1>4, <1>5, OtherStepsLater

\* A version names one content: the checkpoints are in version order, none is
\* ahead of the live quad, and equal versions mean equal keys and values, even
\* though a rollback moves the version back.
THEOREM VersionsNameContent == Spec => []VersionNamesContent
<1>1. Init => VersionNamesContent
    BY DEF Init, VersionNamesContent, VersionOrder, Worlds, Snapshots
<1>2. Inv /\ VersionNamesContent /\ [Next]_vars => VersionNamesContent'
  <2> SUFFICES ASSUME Inv, VersionNamesContent, [Next]_vars PROVE VersionNamesContent'
      OBVIOUS
  <2>1. /\ quad.version \in Nat
        /\ checkpoints \in Seq([id : Nat, quad : Snapshots])
        /\ \A i \in DOMAIN checkpoints : checkpoints[i].quad.version \in Nat
    <3>1. /\ checkpoints \in Seq([id : Nat, quad : Snapshots])
          /\ \A q \in Worlds : IsQuad(q)
        BY Zenon DEF Inv, TypeOK
    <3>2. \A q \in Worlds : q.version \in Nat
        BY <3>1, Zenon DEF IsQuad
    <3>3. quad \in Worlds /\ \A i \in DOMAIN checkpoints : checkpoints[i].quad \in Worlds
        BY DEF Worlds, Snapshots
    <3> QED
        BY <3>1, <3>2, <3>3, Zenon
  <2>2. CASE checkpoints' = <<>>
      BY <2>2 DEF VersionNamesContent, VersionOrder, Worlds, Snapshots
  <2>3. CASE /\ checkpoints' = checkpoints
             /\ quad.version <= quad'.version
             /\ quad'.version = quad.version => Content(quad') = Content(quad)
             /\ QuadInv(quad')
    <3>1. quad'.version \in Nat /\ Snapshots' = Snapshots
        BY <2>3 DEF QuadInv, IsQuad, Snapshots
    <3>2. VersionOrder'
        BY <2>1, <2>3, <3>1 DEF VersionNamesContent, VersionOrder
    <3>3. \A b \in Snapshots : b.version <= quad.version /\ b.version \in Nat
        BY <2>1 DEF VersionNamesContent, VersionOrder, Snapshots
    <3>4. \A b \in Snapshots : b.version = quad'.version => Content(b) = Content(quad')
      <4> SUFFICES ASSUME NEW b \in Snapshots, b.version = quad'.version
                   PROVE  Content(b) = Content(quad')
          OBVIOUS
      <4>1. quad'.version = quad.version /\ b.version = quad.version
          BY <2>1, <2>3, <3>1, <3>3
      <4>2. Content(b) = Content(quad)
          BY <4>1 DEF VersionNamesContent, Worlds
      <4> QED
          BY <2>3, <4>1, <4>2
    <3> QED
        BY <3>1, <3>2, <3>4 DEF VersionNamesContent, Worlds
  <2>4. CASE /\ checkpoints' = Append(checkpoints, [id |-> nextCp, quad |-> quad])
             /\ quad' = quad
    <3> DEFINE n == Len(checkpoints) + 1
    <3>1. /\ n \in Nat /\ DOMAIN checkpoints' = 1 .. n
          /\ checkpoints'[n].quad = quad
          /\ \A i \in 1 .. n :
               i # n => i \in DOMAIN checkpoints /\ checkpoints'[i] = checkpoints[i]
        BY <2>1, <2>4
    <3>2. Worlds' \subseteq Worlds
        BY <2>4, <3>1 DEF Worlds, Snapshots
    <3>3. \A i \in DOMAIN checkpoints' : checkpoints'[i].quad.version <= quad'.version
        BY <2>1, <2>4, <3>1 DEF VersionNamesContent, VersionOrder
    <3>4. \A i, j \in DOMAIN checkpoints' :
            i <= j => checkpoints'[i].quad.version <= checkpoints'[j].quad.version
      <4> SUFFICES ASSUME NEW i \in 1 .. n, NEW j \in 1 .. n, i <= j
                   PROVE  checkpoints'[i].quad.version <= checkpoints'[j].quad.version
          BY <3>1
      <4>1. CASE j = n
          BY <2>4, <3>1, <3>3, <4>1
      <4>2. CASE j # n
        <5>1. i # n
            BY <3>1, <4>2
        <5> QED
            BY <3>1, <4>2, <5>1 DEF VersionNamesContent, VersionOrder
      <4> QED
          BY <4>1, <4>2
    <3>5. VersionOrder'
        BY <3>3, <3>4 DEF VersionOrder
    <3> QED
        BY <3>2, <3>5 DEF VersionNamesContent
  <2>5. CASE UNCHANGED vars
      BY <2>5 DEF vars, VersionNamesContent, VersionOrder, Worlds, Snapshots
  <2> QED
      BY <2>2, <2>3, <2>4, <2>5, VersionStep, QuadStep
<1> QED
    BY <1>1, <1>2, Invariance, PTL DEF Spec

-----------------------------------------------------------------------------
(* What a revision takes away. *)

\* A call that answers as revise() is one, on an id the caller was given.
LEMMA OnlyReviseAnswersSo ==
    ASSUME Next, reply'.op = "revise"
    PROVE  \E id \in Issued, v \in Value, c \in ConfIn : ReviseBelief(id, v, c)
<1>1. \A k, v, c : InsertBelief(k, v, c) => reply'.op = "insert"
    BY DEF InsertBelief, Done, Reply
<1>2. \A id : RemoveBelief(id) => reply'.op = "remove"
    BY DEF RemoveBelief, Done, Reply
<1>3. \A p, e : LinkBeliefs(p, e) => reply'.op = "add_edge"
    BY DEF LinkBeliefs, Done, Reply
<1>4. \A id, v : IndexBelief(id, v) => reply'.op = "index"
    BY DEF IndexBelief, Done, Reply
<1>5. \A id, c : SetSlow(id, c) => reply'.op = "get_mut"
    BY DEF SetSlow, Done, Reply
<1>6. \A relation : SetProvider(relation) => reply'.op = "provider"
    BY DEF SetProvider, Done, Reply
<1>7. \A cp : RollbackTo(cp) => reply'.op = "rollback"
  <2>1. \A cp : RollbackTo(cp) =>
          reply' = Reply("rollback", None, Rollback(quad, checkpoints, cp).result, {})
      BY Zenon DEF RollbackTo
  <2> QED
      BY <2>1 DEF Reply
<1>8. TakeCheckpoint => reply'.op = "checkpoint"
    BY DEF TakeCheckpoint, Done, Reply
<1>9. ClearCheckpoints => reply'.op = "clear_checkpoints"
    BY DEF ClearCheckpoints, Done, Reply
<1> QED
    BY <1>1, <1>2, <1>3, <1>4, <1>5, <1>6, <1>7, <1>8, <1>9 DEF Next

\* Core-retainment: a revision loses premises of its target only, at most one
\* per support path, and leaves every other belief exactly as it was; when it
\* finds no contradiction it loses nothing.
THEOREM RevisionsRetain == Spec => CoreRetainment
<1> DEFINE Retained ==
      reply'.op = "revise" =>
         LET id    == reply'.id
             paths == SupportPaths(quad, id)
             gone  == Live(quad) \ Live(quad')
         IN  /\ Live(quad') \subseteq Live(quad)
             /\ gone \subseteq UNION {Range(ps) : ps \in paths}
             /\ Cardinality(gone) <= Cardinality(paths)
             /\ \A o \in Live(quad') \ {id} : quad'.nodes[o] = quad.nodes[o]
             /\ reply'.result = "Expanded" => gone = {}
<1>1. Inv /\ [Next]_vars => [Retained]_vars
  <2> SUFFICES ASSUME Inv, Next, reply'.op = "revise" PROVE Retained
      OBVIOUS
  <2>1. QuadInv(quad) /\ handles \subseteq BeliefId \X Key
      BY DEF Inv, Worlds, TypeOK
  <2>2. ConfIn \subseteq Int /\ Issued \subseteq BeliefId
      BY <2>1, BoundsAssumption, EdgesTyped
  <2>3. PICK id \in Issued, v \in Value, c \in ConfIn : ReviseBelief(id, v, c)
      BY OnlyReviseAnswersSo
  <2>4. PICK out \in Revise(quad, id, v, c) :
          quad' = out.quad /\ reply' = Reply("revise", id, out.result, out.contracted)
      BY <2>3 DEF ReviseBelief
  <2>5. reply'.id = id /\ reply'.result = out.result
      BY <2>4 DEF Reply
  <2> DEFINE gone  == Live(quad) \ Live(quad')
             cut   == ContractionSet(quad, id)
             paths == SupportPaths(quad, id)
  <2>6. /\ Live(quad') \subseteq Live(quad)
        /\ gone \subseteq cut
        /\ \A o \in Live(quad') \ {id} : quad'.nodes[o] = quad.nodes[o]
        /\ out.result = "Expanded" => gone = {}
      BY <2>1, <2>2, <2>4, ReviseRetains
  <2>7. /\ cut \subseteq UNION {Range(ps) : ps \in paths}
        /\ IsFiniteSet(cut) /\ IsFiniteSet(paths)
        /\ Cardinality(cut) <= Cardinality(paths)
      BY <2>1, ContractionSetSound
  <2> HIDE DEF gone, cut, paths
  <2>8. Cardinality(gone) <= Cardinality(paths)
    <3>1. IsFiniteSet(gone) /\ Cardinality(gone) <= Cardinality(cut)
        BY <2>6, <2>7, FS_Subset
    <3> QED
        BY <2>7, <3>1, FS_CardinalityType
  <2> QED
      BY <2>5, <2>6, <2>7, <2>8 DEF gone, paths
<1> QED
    BY <1>1, Invariance, PTL DEF Spec, CoreRetainment

\* A contradicting revision breaks every support path of its target: the
\* contraction set meets each of them and none of it survives.
THEOREM RevisionsBreakSupport == Spec => SupportBroken
<1> DEFINE Broken ==
      (reply'.op = "revise" /\ reply'.result = "Revised") =>
         \A ps \in SupportPaths(quad, reply'.id) \ {<<>>} :
           \E i \in DOMAIN ps : ps[i] \notin Live(quad')
<1>1. Inv /\ [Next]_vars => [Broken]_vars
  <2> SUFFICES ASSUME Inv, Next, reply'.op = "revise", reply'.result = "Revised"
               PROVE  Broken
      OBVIOUS
  <2>1. QuadInv(quad) /\ handles \subseteq BeliefId \X Key
      BY DEF Inv, Worlds, TypeOK
  <2>2. ConfIn \subseteq Int /\ Issued \subseteq BeliefId
      BY <2>1, BoundsAssumption, EdgesTyped
  <2>3. PICK id \in Issued, v \in Value, c \in ConfIn : ReviseBelief(id, v, c)
      BY OnlyReviseAnswersSo
  <2>4. PICK out \in Revise(quad, id, v, c) :
          quad' = out.quad /\ reply' = Reply("revise", id, out.result, out.contracted)
      BY <2>3 DEF ReviseBelief
  <2>5. reply'.id = id /\ reply'.result = out.result
      BY <2>4 DEF Reply
  <2>6. ContractionSet(quad, id) \cap Live(quad') = {}
      BY <2>1, <2>2, <2>4, <2>5, ReviseRetains
  <2>7. \A ps \in SupportPaths(quad, id) \ {<<>>} :
          \E i \in DOMAIN ps : ps[i] \in ContractionSet(quad, id)
      BY <2>1, ContractionSetSound
  <2> QED
      BY <2>5, <2>6, <2>7
<1> QED
    BY <1>1, Invariance, PTL DEF Spec, SupportBroken

-----------------------------------------------------------------------------
(* What the index of scenarios loses. *)

\* From q to r nothing goes stale, and what is gone has no scenarios.
Lets(q, r) ==
    /\ Stale(r) \subseteq Stale(q)
    /\ DOMAIN r.prospective \subseteq DOMAIN q.prospective
    /\ (Live(q) \ Live(r)) \cap DOMAIN r.prospective = {}

LEMMA LetsTrans ==
    ASSUME NEW q, NEW q1, NEW r, Lets(q, q1), Lets(q1, r)
    PROVE  Lets(q, r)
BY DEF Lets

\* A belief's scenarios leave the index with it.
LEMMA RemoveAllLets ==
    ASSUME NEW q, QuadInv(q), NEW ids \in Seq(Live(q)),
           \A i, j \in DOMAIN ids : ids[i] = ids[j] => i = j
    PROVE  Lets(q, RemoveAll(q, ids))
<1> DEFINE r == RemoveAll(q, ids)
<1>1. /\ Live(r) = Live(q) \ Range(ids)
      /\ \A i \in Live(r) : r.nodes[i] = q.nodes[i]
    BY RemoveAllInv
<1>2. r.prospective = [i \in DOMAIN q.prospective \ Range(ids) |-> q.prospective[i]]
    BY Zenon DEF RemoveAll, Restrict, Invalidate
<1> HIDE DEF r
<1>3. Stale(r) \subseteq Stale(q)
    BY <1>1, <1>2 DEF Stale
<1> QED
    BY <1>1, <1>2, <1>3 DEF Lets, r

\* And with a value that is replaced.
LEMMA ExpandLets ==
    ASSUME NEW q, QuadInv(q), NEW id \in Live(q), NEW v \in Value,
           NEW c \in Int, NEW slow \in Int \cup {None}
    PROVE  /\ Lets(q, Expand(q, id, v, c, slow))
           /\ id \notin DOMAIN Expand(q, id, v, c, slow).prospective
<1> DEFINE r == Expand(q, id, v, c, slow)
<1>1. /\ Live(r) = Live(q)
      /\ \A i \in Live(q) \ {id} : r.nodes[i] = q.nodes[i]
    BY ExpandRetains
<1>2. r.prospective = [i \in DOMAIN q.prospective \ {id} |-> q.prospective[i]]
    BY Zenon DEF Expand, Restrict, Invalidate
<1> HIDE DEF r
<1>3. Stale(r) \subseteq Stale(q)
    BY <1>1, <1>2 DEF Stale
<1> QED
    BY <1>1, <1>2, <1>3 DEF Lets, r

\* Every outcome of revise() does, for the premises it contracted too.
LEMMA ReviseLets ==
    ASSUME NEW q, QuadInv(q), NEW id \in BeliefId, NEW v \in Value, NEW c \in Int,
           NEW out \in Revise(q, id, v, c)
    PROVE  /\ Lets(q, out.quad)
           /\ out.result \in {"Expanded", "Revised"} => id \notin DOMAIN out.quad.prospective
<1> DEFINE cut == ContractionSet(q, id)
           Goes(o) == /\ Lets(q, o.quad)
                      /\ o.result \in {"Expanded", "Revised"} =>
                           id \notin DOMAIN o.quad.prospective
<1>1. ASSUME NEW result \in {"BeliefNotFound", "PostulateViolation"},
             out = Outcome(q, result, {})
      PROVE  Goes(out)
    BY <1>1 DEF Outcome, Lets
<1>2. CASE id \in Live(q) /\ out = Outcome(Expand(q, id, v, c, q.nodes[id].slow), "Expanded", {})
  <2>1. q.nodes[id].slow \in Int \cup {None}
      BY <1>2 DEF QuadInv, IsQuad, Node
  <2>2. /\ Lets(q, Expand(q, id, v, c, q.nodes[id].slow))
        /\ id \notin DOMAIN Expand(q, id, v, c, q.nodes[id].slow).prospective
      BY <1>2, <2>1, ExpandLets
  <2> QED
      BY <1>2, <2>2 DEF Outcome
<1>3. ASSUME id \in Live(q),
             NEW order \in SetToSeqs(cut \cap Live(q)),
             \/ out = Outcome(RemoveAll(q, order), "BeliefNotFound", cut)
             \/ /\ id \notin cut
                /\ out = Outcome(Expand(RemoveAll(q, order), id, v, c, None), "Revised", cut)
      PROVE  Goes(out)
  <2> DEFINE q1 == RemoveAll(q, order)
  <2>1. IsFiniteSet(cut \cap Live(q))
      BY FS_Subset DEF QuadInv, Finite
  <2>2. /\ order \in Seq(cut \cap Live(q))
        /\ \A i, j \in DOMAIN order : order[i] = order[j] => i = j
      BY <2>1, <1>3, ListsOfASet
  <2>3. order \in Seq(Live(q)) /\ Range(order) \subseteq cut
      BY <2>2 DEF Range
  <2>4. QuadInv(q1) /\ Live(q1) = Live(q) \ Range(order)
      BY <2>2, <2>3, RemoveAllInv
  <2>5. Lets(q, q1)
      BY <2>2, <2>3, RemoveAllLets
  <2>6. CASE id \notin cut /\ out = Outcome(Expand(q1, id, v, c, None), "Revised", cut)
    <3>1. id \in Live(q1)
        BY <1>3, <2>3, <2>4, <2>6
    <3> HIDE DEF q1
    <3>2. None \in Int \cup {None}
        OBVIOUS
    <3>3. /\ Lets(q1, Expand(q1, id, v, c, None))
          /\ id \notin DOMAIN Expand(q1, id, v, c, None).prospective
        BY <2>4, <3>1, <3>2, ExpandLets
    <3>4. Lets(q, Expand(q1, id, v, c, None))
        BY <2>5, <3>3, LetsTrans
    <3> QED
        BY <2>6, <3>3, <3>4 DEF Outcome
  <2>7. CASE out = Outcome(q1, "BeliefNotFound", cut)
    <3> HIDE DEF q1
    <3> QED
        BY <2>5, <2>7 DEF Outcome
  <2> QED
      BY <1>3, <2>6, <2>7
<1> QED
    BY <1>1, <1>2, <1>3 DEF Revise

\* A new belief was not indexed as anything but stale before it was there.
LEMMA InsertLets ==
    ASSUME NEW q, QuadInv(q), NEW node
    PROVE  Lets(q, Insert(q, node))
<1> DEFINE id == NextId(q)
           r  == Insert(q, node)
<1>1. /\ r.nodes = [i \in Live(q) \cup {id} |->
                      IF i = id THEN [node EXCEPT !.fast = Clamp(@)] ELSE q.nodes[i]]
      /\ r.prospective = q.prospective
    BY Zenon DEF Insert
<1>2. id \notin Live(q)
    BY NextIdFresh
<1> HIDE DEF id, r
<1>3. Live(r) = Live(q) \cup {id} /\ \A i \in Live(q) : r.nodes[i] = q.nodes[i]
    BY <1>1, <1>2 DEF Live
<1>4. Stale(r) \subseteq Stale(q)
    BY <1>1, <1>3 DEF Stale
<1> QED
    BY <1>1, <1>3, <1>4 DEF Lets, r

\* Scenarios go with the value they were generated from: only a late store, or
\* a rollback to a checkpoint that held them, makes a belief's scenarios stale.
THEOREM ScenariosGo == Spec => ScenariosGoWithTheValue
<1> DEFINE Lost == (Live(quad) \ Live(quad')) \cup
                     {id \in {reply'.id} : reply'.result \in {"Expanded", "Revised"}}
           Goes ==
             CASE reply'.op = "index"    -> Stale(quad') \subseteq Stale(quad) \cup {reply'.id}
               [] reply'.op = "rollback" -> Stale(quad') \subseteq UNION {Stale(q) : q \in Worlds}
               [] OTHER -> /\ Stale(quad') \subseteq Stale(quad)
                           /\ Lost \cap DOMAIN quad'.prospective = {}
<1>1. Inv /\ [Next]_vars => [Goes]_vars
  <2> SUFFICES ASSUME Inv, Next PROVE Goes
      OBVIOUS
  <2>1. QuadInv(quad) /\ handles \subseteq BeliefId \X Key
      BY DEF Inv, Worlds, TypeOK
  <2>2. ConfIn \subseteq Int /\ Issued \subseteq BeliefId
      BY <2>1, BoundsAssumption, EdgesTyped
  <2>3. ASSUME Lets(quad, quad'), reply'.op \notin {"index", "rollback"},
               reply'.result \in {"Expanded", "Revised"} =>
                 reply'.id \notin DOMAIN quad'.prospective
        PROVE  Goes
    <3>1. Stale(quad') \subseteq Stale(quad) /\ Lost \cap DOMAIN quad'.prospective = {}
        BY <2>3 DEF Lets
    <3> HIDE DEF Lost
    <3> QED
        BY <2>3, <3>1
  <2>4. ASSUME quad'.nodes = quad.nodes, quad'.prospective = quad.prospective
        PROVE  Lets(quad, quad')
      BY <2>4 DEF Lets, Stale, Live
  <2>5. IsQuad(quad)
      BY <2>1 DEF QuadInv
  <2>6. ASSUME NEW k \in Key, NEW v \in Value, NEW c \in ConfIn, InsertBelief(k, v, c)
        PROVE  Goes
    <3>1. Lets(quad, quad')
        BY <2>1, <2>6, InsertLets DEF InsertBelief
    <3>2. reply'.op = "insert" /\ reply'.result = "Ok"
        BY <2>6 DEF InsertBelief, Done, Reply
    <3> QED
        BY <2>3, <3>1, <3>2
  <2>7. ASSUME NEW id \in Issued, RemoveBelief(id)
        PROVE  Goes
    <3>1. reply'.op = "remove" /\ reply'.result = "Ok"
        BY <2>7 DEF RemoveBelief, Done, Reply
    <3>2. CASE id \in Live(quad)
      <4>1. <<id>> \in Seq(Live(quad)) /\ quad' = RemoveAll(quad, <<id>>)
          BY <2>7, <3>2 DEF RemoveBelief, RemoveOne
      <4>2. \A i, j \in DOMAIN <<id>> : <<id>>[i] = <<id>>[j] => i = j
          OBVIOUS
      <4>3. Lets(quad, quad')
          BY <2>1, <4>1, <4>2, RemoveAllLets
      <4> QED
          BY <2>3, <3>1, <4>3
    <3>3. CASE id \notin Live(quad)
      <4>1. Lets(quad, quad')
          BY <2>4, <2>7, <3>3 DEF RemoveBelief, RemoveOne
      <4> QED
          BY <2>3, <3>1, <4>1
    <3> QED
        BY <3>2, <3>3
  <2>8. ASSUME NEW id \in Issued, NEW v \in Value, NEW c \in ConfIn, ReviseBelief(id, v, c)
        PROVE  Goes
    <3>1. PICK out \in Revise(quad, id, v, c) :
            quad' = out.quad /\ reply' = Reply("revise", id, out.result, out.contracted)
        BY <2>8 DEF ReviseBelief
    <3>2. reply'.op = "revise" /\ reply'.id = id /\ reply'.result = out.result
        BY <3>1 DEF Reply
    <3>3. /\ Lets(quad, quad')
          /\ out.result \in {"Expanded", "Revised"} => id \notin DOMAIN quad'.prospective
        BY <2>1, <2>2, <3>1, ReviseLets
    <3> QED
        BY <2>3, <3>2, <3>3
  <2>9. ASSUME NEW p, NEW e, LinkBeliefs(p, e)
        PROVE  Goes
    <3>1. quad'.nodes = quad.nodes /\ quad'.prospective = quad.prospective
        BY <2>5, <2>9 DEF LinkBeliefs, IsQuad
    <3>2. reply'.op = "add_edge" /\ reply'.result = "Ok"
        BY <2>9 DEF LinkBeliefs, Done, Reply
    <3> QED
        BY <2>3, <2>4, <3>1, <3>2
  <2>10. ASSUME NEW id \in Issued, NEW v \in Value, IndexBelief(id, v)
         PROVE  Goes
    <3>1. /\ quad'.nodes = quad.nodes
          /\ quad'.prospective = [i \in DOMAIN quad.prospective \cup {id} |->
                                    IF i = id THEN v ELSE quad.prospective[i]]
        BY <2>5, <2>10 DEF IndexBelief, IsQuad
    <3>2. reply'.op = "index" /\ reply'.id = id
        BY <2>10 DEF IndexBelief, Reply
    <3>3. Stale(quad') \subseteq Stale(quad) \cup {id}
        BY <3>1 DEF Stale, Live
    <3> QED
        BY <3>2, <3>3
  <2>11. ASSUME NEW id \in Issued, NEW c \in ConfIn, SetSlow(id, c)
         PROVE  Goes
    <3>1. /\ id \in Live(quad)
          /\ quad'.nodes = [quad.nodes EXCEPT ![id] = [quad.nodes[id] EXCEPT !.slow = c]]
          /\ quad'.prospective = quad.prospective
        BY <2>5, <2>11 DEF SetSlow, IsQuad
    <3>2. [quad.nodes[id] EXCEPT !.slow = c].value = quad.nodes[id].value
        BY <2>5, <3>1 DEF IsQuad, Node
    <3>3. Live(quad') = Live(quad) /\ \A i \in Live(quad) : quad'.nodes[i].value = quad.nodes[i].value
        BY <3>1, <3>2 DEF Live
    <3>4. Lets(quad, quad')
        BY <3>1, <3>3 DEF Lets, Stale
    <3>5. reply'.op = "get_mut" /\ reply'.result = "Ok"
        BY <2>11 DEF SetSlow, Done, Reply
    <3> QED
        BY <2>3, <3>4, <3>5
  <2>12. ASSUME NEW b, SetProvider(b)
         PROVE  Goes
    <3>1. quad'.nodes = quad.nodes /\ quad'.prospective = quad.prospective
        BY <2>5, <2>12 DEF SetProvider, IsQuad
    <3>2. reply'.op = "provider" /\ reply'.result = "Ok"
        BY <2>12 DEF SetProvider, Done, Reply
    <3> QED
        BY <2>3, <2>4, <3>1, <3>2
  <2>13. ASSUME TakeCheckpoint \/ ClearCheckpoints
         PROVE  Goes
    <3>1. quad' = quad /\ reply'.op \in {"checkpoint", "clear_checkpoints"} /\ reply'.result = "Ok"
        BY <2>13 DEF TakeCheckpoint, ClearCheckpoints, Done, Reply
    <3> QED
        BY <2>3, <2>4, <3>1
  <2>14. ASSUME NEW cp, RollbackTo(cp)
         PROVE  Goes
    <3>1. reply' = Reply("rollback", None, Rollback(quad, checkpoints, cp).result, {})
        BY <2>14, Zenon DEF RollbackTo
    <3>2. reply'.op = "rollback"
        BY <3>1 DEF Reply
    <3>3. quad' \in Worlds
        BY <2>14, RollbackCases DEF Worlds, Snapshots
    <3>4. Stale(quad') \subseteq UNION {Stale(q) : q \in Worlds}
        BY <3>3
    <3> QED
        BY <3>2, <3>4
  <2> HIDE DEF Goes
  <2> QED
      BY <2>6, <2>7, <2>8, <2>9, <2>10, <2>11, <2>12, <2>13, <2>14 DEF Next
<1> QED
    BY <1>1, Invariance, PTL DEF Spec, ScenariosGoWithTheValue

=============================================================================

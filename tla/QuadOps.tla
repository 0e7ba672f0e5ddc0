------------------------------ MODULE QuadOps ------------------------------
(***************************************************************************)
(* The belief quad of epica-core as a value: the slot arena of belief      *)
(* nodes, the four graph projections that index it, the prospective index  *)
(* and the version counter, with one operator per method of BeliefQuad     *)
(* that changes it.  The state machines of the other modules are built     *)
(* from these operators.                                                   *)
(***************************************************************************)
EXTENDS Integers, Sequences, FiniteSets, Functions, SequencesExt

CONSTANTS Key,         \* belief keys
          Value,       \* belief values, up to the literal comparison's
                       \* normalisation (trim, lower case)
          Equivalence, \* the sets of value pairs an embedding provider and
                       \* its thresholds may classify Equivalent
          Scale,       \* confidences are 0..Scale, standing for [0.0, 1.0]
          None         \* Option::None

ASSUME QuadAssumption ==
    /\ Equivalence \subseteq SUBSET (Value \X Value)
    /\ Scale \in Nat \ {0}
    /\ None \notin Int

Conf == 0 .. Scale

\* f32::clamp(0.0, 1.0) of BeliefNode::new and revise.
Unclamped(c) == c  \* mutant: the caller's confidence is stored as it is
Clamp(c) == IF c < 0 THEN 0 ELSE IF c > Scale THEN Scale ELSE c

(***************************************************************************)
(* A BeliefId is a slot of the arena and the slot's generation.            *)
(***************************************************************************)
BeliefId == Nat \X Nat
Slot(id) == id[1]

Node == [key : Key, value : Value, fast : Conf, slow : Int \cup {None}]

Projection == {"semantic", "temporal", "causal", "entity"}
EdgeKind   == {"Contradicts", "Related", "InferredFrom", "Causes"}
Edge       == [from : BeliefId, to : BeliefId, kind : EdgeKind,
               premises : Seq(BeliefId)]
Graph      == [nodes : SUBSET BeliefId, edges : SUBSET Edge]

(***************************************************************************)
(* gens[s] is the generation slot s has, or will get when it is reused;    *)
(* free is the arena's free list, most recently freed slot first.          *)
(* prospective[id] is the value the stored scenarios were generated from;  *)
(* equivalent is the set of pairs the installed provider and thresholds    *)
(* call paraphrases, empty when no provider is installed.                  *)
(***************************************************************************)
EmptyQuad ==
    [nodes       |-> [id \in {} |-> None],
     gens        |-> <<>>,
     free        |-> <<>>,
     graphs      |-> [p \in Projection |-> [nodes |-> {}, edges |-> {}]],
     prospective |-> [id \in {} |-> None],
     equivalent  |-> {},
     version     |-> 0]

Live(q) == DOMAIN q.nodes

-----------------------------------------------------------------------------
(* Graph projections: add_node, remove_node and add_edge of the four graphs *)

AddNode(g, id) == [nodes |-> g.nodes \cup {id}, edges |-> g.edges]

DropOutgoing(g, ids) ==  \* mutant: edges into a removed node stay
    [nodes |-> g.nodes \ ids, edges |-> {e \in g.edges : e.from \notin ids}]
DropNodes(g, ids) ==
    [nodes |-> g.nodes \ ids,
     edges |-> {e \in g.edges : e.from \notin ids /\ e.to \notin ids}]

Mirror(e) == [from |-> e.to, to |-> e.from, kind |-> e.kind, premises |-> e.premises]

\* Edges with an endpoint outside the graph are silently dropped; a
\* Contradicts edge is stored in both directions.
AddEdge(g, e) ==
    IF {e.from, e.to} \subseteq g.nodes
    THEN [nodes |-> g.nodes,
          edges |-> g.edges \cup {e} \cup
                      IF e.kind = "Contradicts" THEN {Mirror(e)} ELSE {}]
    ELSE g

-----------------------------------------------------------------------------
(* insert and remove *)

NextId(q) ==
    IF q.free = <<>>
    THEN <<Len(q.gens) + 1, 1>>
    ELSE <<Head(q.free), q.gens[Head(q.free)]>>

Insert(q, node) ==
    LET id == NextId(q)
    IN  [nodes       |-> [i \in Live(q) \cup {id} |->
                            IF i = id THEN [node EXCEPT !.fast = Clamp(@)] ELSE q.nodes[i]],
         gens        |-> IF q.free = <<>> THEN Append(q.gens, 1) ELSE q.gens,
         free        |-> IF q.free = <<>> THEN <<>> ELSE Tail(q.free),
         graphs      |-> [p \in Projection |-> AddNode(q.graphs[p], id)],
         prospective |-> q.prospective,
         equivalent  |-> q.equivalent,
         version     |-> q.version + 1]

\* A freed slot gets the next generation, so its old ids stay dead.
SameGeneration(gens, gone) == gens  \* mutant: slots are reused as they were
NextGeneration(gens, gone) ==
    [s \in DOMAIN gens |-> IF \E id \in gone : Slot(id) = s THEN gens[s] + 1 ELSE gens[s]]

KeepScenarios(index, ids) == index  \* mutant: stale scenarios stay indexed
Invalidate(index, ids) == Restrict(index, DOMAIN index \ ids)

\* The effect of removing, one after the other, the distinct live beliefs of
\* the sequence ids; its first element is the one removed last.
RemoveAll(q, ids) ==
    LET gone == Range(ids)
    IN  [nodes       |-> Restrict(q.nodes, Live(q) \ gone),
         gens        |-> NextGeneration(q.gens, gone),
         free        |-> [i \in DOMAIN ids |-> Slot(ids[i])] \o q.free,
         graphs      |-> [p \in Projection |-> DropNodes(q.graphs[p], gone)],
         prospective |-> Invalidate(q.prospective, gone),
         equivalent  |-> q.equivalent,
         version     |-> q.version + Len(ids)]

RemoveOne(q, id) == IF id \in Live(q) THEN RemoveAll(q, <<id>>) ELSE q

-----------------------------------------------------------------------------
(* Contradiction and the K*6 audit *)

\* value_contradicts_semantic: literal agreement first, then a cached
\* paraphrase verdict when an embedding provider is installed.
ValueContradicts(q, current, new) ==
    current # new /\ <<current, new>> \notin q.equivalent

HasContradictionEdges(q, id) ==
    \E e \in q.graphs["semantic"].edges : e.from = id /\ e.kind = "Contradicts"

Contradicts(q, id, v) ==
    \/ ValueContradicts(q, q.nodes[id].value, v)
    \/ HasContradictionEdges(q, id)

\* check_extensionality: a paraphrase of v held by another belief must give
\* the same verdict on the target as v itself.
Extensional(q, id, v) ==
    \A o \in Live(q) \ {id} :
      <<v, q.nodes[o].value>> \in q.equivalent =>
        (Contradicts(q, id, q.nodes[o].value) <=> Contradicts(q, id, v))

-----------------------------------------------------------------------------
(* revise: contract the weakest premise of every support path, then expand *)

SupportPaths(q, id) ==
    {e.premises : e \in {x \in q.graphs["causal"].edges :
                            x.to = id /\ x.kind = "InferredFrom"}}

FastOf(q, id) == IF id \in Live(q) THEN q.nodes[id].fast ELSE 0

\* min_by_key keeps the first of equal minima; a premise that is no longer
\* in the quad counts as confidence 0.
Weakest(q, premises) ==
    premises[CHOOSE i \in DOMAIN premises :
               /\ \A j \in DOMAIN premises :
                    FastOf(q, premises[i]) <= FastOf(q, premises[j])
               /\ \A j \in 1 .. i - 1 :
                    FastOf(q, premises[i]) < FastOf(q, premises[j])]

OneWeakest(q, id) ==  \* mutant: one premise in all, not one per path
    LET paths == SupportPaths(q, id) \ {<<>>}
    IN  IF paths = {} THEN {} ELSE {Weakest(q, CHOOSE ps \in paths : TRUE)}
Flattened(q, id) ==   \* mutant: every premise, the "previous implementation"
    UNION {Range(ps) : ps \in SupportPaths(q, id)}
ContractionSet(q, id) == {Weakest(q, ps) : ps \in SupportPaths(q, id) \ {<<>>}}

\* Value, provenance and fast confidence are replaced, the prospective entry
\* is invalidated; slow is what the caller decides.
Expand(q, id, v, c, slow) ==
    [nodes       |-> [q.nodes EXCEPT ![id] =
                        [key |-> q.nodes[id].key, value |-> v,
                         fast |-> Clamp(c), slow |-> slow]],
     gens        |-> q.gens,
     free        |-> q.free,
     graphs      |-> q.graphs,
     prospective |-> Invalidate(q.prospective, {id}),
     equivalent  |-> q.equivalent,
     version     |-> q.version + 1]

Outcome(q, result, contracted) ==
    [quad |-> q, result |-> result, contracted |-> contracted]

\* The possible outcomes of revise(id, v, _, c).  The contraction set is a
\* HashSet, so its beliefs are removed in any order; the order decides the
\* arena's free list.
Revise(q, id, v, c) ==
    IF id \notin Live(q)
    THEN {Outcome(q, "BeliefNotFound", {})}
    ELSE IF ~Extensional(q, id, v)
    THEN {Outcome(q, "PostulateViolation", {})}
    ELSE IF ~Contradicts(q, id, v)
    THEN {Outcome(Expand(q, id, v, c, q.nodes[id].slow), "Expanded", {})}
    ELSE LET cut == ContractionSet(q, id)
         IN  {LET q1 == RemoveAll(q, order)
              IN  IF id \in cut
                  THEN Outcome(q1, "BeliefNotFound", cut)
                  ELSE Outcome(Expand(q1, id, v, c, None), "Revised", cut) :
                order \in SetToSeqs(cut \cap Live(q))}

-----------------------------------------------------------------------------
(* diff and rollback *)

\* The fields diff() compares, gathered by belief key: among beliefs of one
\* key the last in slot order ends up in the HashMap.
Holders(q, k) == {id \in Live(q) : q.nodes[id].key = k}

ByKey(q) == [k \in {q.nodes[id].key : id \in Live(q)} |->
                LET id == CHOOSE i \in Holders(q, k) :
                              \A j \in Holders(q, k) : Slot(j) <= Slot(i)
                IN  <<q.nodes[id].value, q.nodes[id].fast>>]

HasContradictions(q, snap) == ByKey(q) # ByKey(snap)

Held(list, cp) == {i \in DOMAIN list : list[i].id = cp}

\* The list of checkpoints is part of the struct, and the snapshot's own was
\* cleared when it was captured.
KeepList(list) == list  \* mutant: only the beliefs are restored
RestoredList(list) == <<>>

\* rollback_to(cp) replaces the whole struct by the snapshot.
Rollback(q, list, cp) ==
    IF Held(list, cp) = {}
    THEN [quad |-> q, checkpoints |-> list, result |-> "CheckpointNotFound"]
    ELSE LET snap == list[CHOOSE i \in Held(list, cp) : TRUE].quad
         IN  IF HasContradictions(q, snap)
             THEN [quad |-> snap, checkpoints |-> RestoredList(list), result |-> "Ok"]
             ELSE [quad |-> q, checkpoints |-> list, result |-> "UnnecessaryContraction"]

-----------------------------------------------------------------------------
(* Well-formed quads *)

IsQuad(q) ==
    /\ q = [nodes |-> q.nodes, gens |-> q.gens, free |-> q.free,
            graphs |-> q.graphs, prospective |-> q.prospective,
            equivalent |-> q.equivalent, version |-> q.version]
    /\ Live(q) \subseteq BeliefId
    /\ q.nodes \in [Live(q) -> Node]
    /\ q.gens \in Seq(Nat)
    /\ q.free \in Seq(Nat)
    /\ q.graphs \in [Projection -> Graph]
    /\ DOMAIN q.prospective \subseteq BeliefId
    /\ q.prospective \in [DOMAIN q.prospective -> Value]
    /\ q.equivalent \in SUBSET (Value \X Value)
    /\ q.version \in Nat

\* Every projection indexes exactly the live beliefs and no edge has an
\* endpoint that is gone.
ProjectionsAgree(q) ==
    \A p \in Projection :
      /\ q.graphs[p].nodes = Live(q)
      /\ \A e \in q.graphs[p].edges : e.from \in Live(q) /\ e.to \in Live(q)

\* The arena's free list holds each freed slot once and no occupied one; an
\* occupied slot's generation is that of the belief in it.
ArenaSound(q) ==
    /\ \A id \in Live(q) : Slot(id) \in DOMAIN q.gens /\ id[2] = q.gens[Slot(id)]
    /\ \A i \in DOMAIN q.free :
         /\ q.free[i] \in DOMAIN q.gens
         /\ \A id \in Live(q) : Slot(id) # q.free[i]
         /\ \A j \in DOMAIN q.free : q.free[i] = q.free[j] => i = j

Finite(q) ==
    IsFiniteSet(Live(q)) /\ \A p \in Projection : IsFiniteSet(q.graphs[p].edges)

\* What every step preserves: the invariants above hold because the arena is
\* sound in the live quad and in every snapshot.
QuadInv(q) ==
    IsQuad(q) /\ Finite(q) /\ ArenaSound(q) /\ ProjectionsAgree(q)

=============================================================================

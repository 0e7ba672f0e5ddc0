----------------------------- MODULE BeliefQuad -----------------------------
(***************************************************************************)
(* epica-core's BeliefQuad as its callers drive it: one action per public  *)
(* method that changes it, called one at a time (every caller holds the    *)
(* quad exclusively, `&mut self`).  A caller may pass any BeliefId or      *)
(* CheckpointId it was ever given, whether or not it is still valid.       *)
(***************************************************************************)
EXTENDS QuadOps

CONSTANTS MaxSlots,        \* bound: slots the arena may grow to
          MaxVersion,      \* bound: version counter
          MaxEdges,        \* bound: edges of the four graphs together
          MaxIndexed,      \* bound: beliefs with indexed scenarios
          MaxSlow,         \* bound: beliefs with a slow confidence
          MaxPremises,     \* bound: length of a premise list
          MaxCheckpoints,  \* bound: checkpoints ever taken
          ConfIn,          \* confidences callers pass, in range or not
          Calls            \* the methods callers use

ASSUME BoundsAssumption ==
    /\ MaxSlots \in Nat /\ MaxVersion \in Nat /\ MaxEdges \in Nat
    /\ MaxIndexed \in Nat /\ MaxSlow \in Nat /\ MaxPremises \in Nat /\ MaxCheckpoints \in Nat
    /\ ConfIn \subseteq Int

VARIABLES quad,         \* the live BeliefQuad, without its checkpoints
          checkpoints,  \* its Vec of checkpoints: [id, quad]
          nextCp,       \* the next fresh CheckpointId (a random UUID)
          handles,      \* BeliefIds handed to callers, with the key they
                        \* were inserted under
          taken,        \* history: the handles there were at each checkpoint
          undone,       \* history: the handles a rollback went back behind
          reply         \* what the last call returned

callers == <<nextCp, handles, taken, undone>>
vars    == <<quad, checkpoints, callers, reply>>

Issued == {h[1] : h \in handles}

Reply(op, id, result, contracted) ==
    [op |-> op, id |-> id, result |-> result, contracted |-> contracted]

Done(op) == Reply(op, None, "Ok", {})

Init ==
    /\ quad = EmptyQuad
    /\ checkpoints = <<>>
    /\ nextCp = 1
    /\ handles = {}
    /\ taken = <<>>
    /\ undone = {}
    /\ reply = Done("new")

-----------------------------------------------------------------------------
InsertBelief(k, v, c) ==
    /\ quad.version < MaxVersion
    /\ Len(quad.gens) < MaxSlots \/ quad.free # <<>>
    /\ quad' = Insert(quad, [key |-> k, value |-> v, fast |-> c, slow |-> None])
    /\ handles' = handles \cup {<<NextId(quad), k>>}
    /\ reply' = Done("insert")
    /\ UNCHANGED <<checkpoints, nextCp, taken, undone>>

RemoveBelief(id) ==
    /\ quad.version < MaxVersion
    /\ quad' = RemoveOne(quad, id)
    /\ reply' = Done("remove")
    /\ UNCHANGED <<checkpoints, callers>>

ReviseBelief(id, v, c) ==
    /\ quad.version < MaxVersion
    /\ \E out \in Revise(quad, id, v, c) :
         /\ quad' = out.quad
         /\ reply' = Reply("revise", id, out.result, out.contracted)
    /\ UNCHANGED <<checkpoints, callers>>

EdgeCount == Cardinality(UNION {{p} \X quad.graphs[p].edges : p \in Projection})

LinkBeliefs(p, e) ==
    /\ EdgeCount < MaxEdges
    /\ quad' = [quad EXCEPT !.graphs[p] = AddEdge(@, e)]
    /\ reply' = Done("add_edge")
    /\ UNCHANGED <<checkpoints, callers>>

\* prospective_index_mut().insert: the caller stores scenarios it generated
\* from value v for any id it holds.  It generated them without the quad, so
\* the belief may have another value by now, or be gone: nothing is checked.
IndexBelief(id, v) ==
    /\ Cardinality(DOMAIN quad.prospective \cup {id}) <= MaxIndexed
    /\ quad' = [quad EXCEPT !.prospective =
                  [i \in DOMAIN @ \cup {id} |-> IF i = id THEN v ELSE @[i]]]
    /\ reply' = Reply("index", id, "Ok", {})
    /\ UNCHANGED <<checkpoints, callers>>

\* get_mut: System 2 writes its confidence through it.
SetSlow(id, c) ==
    /\ id \in Live(quad)
    /\ Cardinality({i \in Live(quad) : quad.nodes[i].slow # None} \cup {id}) <= MaxSlow
    /\ quad' = [quad EXCEPT !.nodes[id].slow = c]
    /\ reply' = Done("get_mut")
    /\ UNCHANGED <<checkpoints, callers>>

\* set_embedding_provider, clear_embedding_provider, set_semantic_equivalence.
SetProvider(relation) ==
    /\ quad' = [quad EXCEPT !.equivalent = relation]
    /\ reply' = Done("provider")
    /\ UNCHANGED <<checkpoints, callers>>

-----------------------------------------------------------------------------
TakeCheckpoint ==
    /\ nextCp <= MaxCheckpoints
    /\ checkpoints' = Append(checkpoints, [id |-> nextCp, quad |-> quad])
    /\ nextCp' = nextCp + 1
    /\ taken' = Append(taken, handles)
    /\ reply' = Done("checkpoint")
    /\ UNCHANGED <<quad, handles, undone>>

RollbackTo(cp) ==
    LET out == Rollback(quad, checkpoints, cp)
    IN  /\ quad' = out.quad
        /\ checkpoints' = out.checkpoints
        /\ reply' = Reply("rollback", None, out.result, {})
        /\ undone' = IF out.result = "Ok" THEN undone \cup (handles \ taken[cp]) ELSE undone
        /\ UNCHANGED <<nextCp, handles, taken>>

ClearCheckpoints ==
    /\ checkpoints' = <<>>
    /\ reply' = Done("clear_checkpoints")
    /\ UNCHANGED <<quad, callers>>

-----------------------------------------------------------------------------
PremiseLists ==
    UNION {{ps \in [1 .. n -> Issued] : IsInjective(ps)} : n \in 0 .. MaxPremises}

EdgeInputs(kinds, lists) ==
    [from : Issued, to : Issued, kind : kinds, premises : lists]

Next ==
    \/ /\ "insert" \in Calls
       /\ \E k \in Key, v \in Value, c \in ConfIn : InsertBelief(k, v, c)
    \/ /\ "remove" \in Calls
       /\ \E id \in Issued : RemoveBelief(id)
    \/ /\ "revise" \in Calls
       /\ \E id \in Issued, v \in Value, c \in ConfIn : ReviseBelief(id, v, c)
    \/ /\ "add_semantic_edge" \in Calls
       /\ \E e \in EdgeInputs({"Contradicts"}, {<<>>}) : LinkBeliefs("semantic", e)
    \/ /\ "add_causal_edge" \in Calls
       /\ \E e \in EdgeInputs({"InferredFrom"}, PremiseLists) : LinkBeliefs("causal", e)
    \/ /\ "add_other_edge" \in Calls
       /\ \E p \in {"causal", "temporal", "entity"}, e \in EdgeInputs({"Related"}, {<<>>}) :
            LinkBeliefs(p, e)
    \/ /\ "index" \in Calls
       /\ \E id \in Issued, v \in Value : IndexBelief(id, v)
    \/ /\ "get_mut" \in Calls
       /\ \E id \in Issued, c \in ConfIn : SetSlow(id, c)
    \/ /\ "provider" \in Calls
       /\ \E relation \in Equivalence \cup {{}} : SetProvider(relation)
    \/ /\ "checkpoint" \in Calls
       /\ TakeCheckpoint
    \/ /\ "rollback" \in Calls
       /\ \E cp \in 1 .. nextCp - 1 : RollbackTo(cp)
    \/ /\ "clear_checkpoints" \in Calls
       /\ ClearCheckpoints

Spec == Init /\ [][Next]_vars

-----------------------------------------------------------------------------
(* Properties *)

Snapshots == {checkpoints[i].quad : i \in DOMAIN checkpoints}
Worlds    == {quad} \cup Snapshots

\* Type invariant of the quad, its snapshots and what callers hold.
TypeOK ==
    /\ \A q \in Worlds : IsQuad(q)
    /\ nextCp \in Nat
    /\ checkpoints \in Seq([id : Nat, quad : Snapshots])
    /\ handles \subseteq BeliefId \X Key
    /\ taken \in Seq(SUBSET handles) /\ Len(taken) = nextCp - 1
    /\ undone \subseteq handles

\* Every projection indexes exactly the live beliefs, in the live quad and in
\* every checkpoint it can be rolled back to (BeliefQuad's invariants 1 and 2).
AllProjectionsAgree == \A q \in Worlds : ProjectionsAgree(q)

\* Beliefs indexed with scenarios of a value they do not have, or no longer
\* there.
Stale(q) ==
    {id \in DOMAIN q.prospective :
       id \in Live(q) => q.prospective[id] # q.nodes[id].value}

\* The quad lets scenarios go with the value they were generated from: what
\* remove() and both paths of revise() take away or replace leaves the index in
\* the same call, contracted premises included.  So stale scenarios, which do
\* occur, come from a store that arrives late (insert() looks at nothing) or
\* from a checkpoint that held them, never from a belief's own life; an id
\* issued again by the arena is no exception.
ScenariosGoWithTheValue ==
    [][LET lost == (Live(quad) \ Live(quad')) \cup
                     {id \in {reply'.id} : reply'.result \in {"Expanded", "Revised"}}
       IN  CASE reply'.op = "index"    -> Stale(quad') \subseteq Stale(quad) \cup {reply'.id}
             [] reply'.op = "rollback" -> Stale(quad') \subseteq UNION {Stale(q) : q \in Worlds}
             [] OTHER -> /\ Stale(quad') \subseteq Stale(quad)
                         /\ lost \cap DOMAIN quad'.prospective = {}]_vars

\* What a version number names: which beliefs exist, with which key and value.
Content(q) == [id \in Live(q) |-> <<q.nodes[id].key, q.nodes[id].value>>]

\* RecoveryPolicy::RollbackToVersion picks the last checkpoint at or below a
\* version.  That is well defined: checkpoints are in version order, none is
\* ahead of the live quad, and two states with one version have one content,
\* although rollback_to moves the version back.
VersionOrder ==
    /\ \A i \in DOMAIN checkpoints : checkpoints[i].quad.version <= quad.version
    /\ \A i, j \in DOMAIN checkpoints :
         i <= j => checkpoints[i].quad.version <= checkpoints[j].quad.version

VersionNamesContent ==
    /\ VersionOrder
    /\ \A a, b \in Worlds : a.version = b.version => Content(a) = Content(b)

\* The inductive invariant.
Inv == TypeOK /\ \A q \in Worlds : QuadInv(q)

\* belief/id.rs promises "no ABA hazard" of any BeliefId held across removals
\* and insertions.  The code keeps that up to rollbacks, which move the
\* generations back: a BeliefId names the belief it was returned for, or
\* nothing, unless a rollback went back behind the call that returned it.
\* Only such an id can be issued again, under whatever key comes next.
OnlyUndoneIdsAlias ==
    \A h \in handles \ undone : h[1] \in Live(quad) => quad.nodes[h[1]].key = h[2]

\* Why: every handle that is not undone was issued by the arena the quad has
\* now, and every handle taken with a checkpoint by the arena in its snapshot.
\* What an arena issued is live or lies behind its slot's generation, so the
\* arena does not issue it again.
IssuedBy(q, id) ==
    /\ Slot(id) \in DOMAIN q.gens
    /\ id \in Live(q) \/ id[2] < q.gens[Slot(id)]

Named(q, given) ==
    \A h \in given : /\ IssuedBy(q, h[1])
                     /\ h[1] \in Live(q) => q.nodes[h[1]].key = h[2]

HandlesInv ==
    /\ Named(quad, handles \ undone)
    /\ \A i \in DOMAIN checkpoints :
         /\ checkpoints[i].id \in DOMAIN taken
         /\ Named(checkpoints[i].quad, taken[checkpoints[i].id] \ undone)

\* Hansson's core-retainment, as the code promises it: a revision removes
\* premises of the target only, at most one per support path, and leaves
\* every other belief exactly as it was.
CoreRetainment ==
    [][reply'.op = "revise" =>
         LET id    == reply'.id
             paths == SupportPaths(quad, id)
             gone  == Live(quad) \ Live(quad')
         IN  /\ Live(quad') \subseteq Live(quad)
             /\ gone \subseteq UNION {Range(ps) : ps \in paths}
             /\ Cardinality(gone) <= Cardinality(paths)
             /\ \A o \in Live(quad') \ {id} : quad'.nodes[o] = quad.nodes[o]
             /\ reply'.result = "Expanded" => gone = {}]_vars

\* After a contradicting revision no support path into the belief is whole:
\* each has lost a premise, so nothing still entails the value given up.
SupportBroken ==
    [][(reply'.op = "revise" /\ reply'.result = "Revised") =>
         \A ps \in SupportPaths(quad, reply'.id) \ {<<>>} :
           \E i \in DOMAIN ps : ps[i] \notin Live(quad')]_vars

=============================================================================

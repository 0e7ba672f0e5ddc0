------------------------------ MODULE System1 ------------------------------
(***************************************************************************)
(* Callers build a causal graph over a few beliefs, change confidences,    *)
(* remove beliefs and run System 1.  The graph may be any graph: the API   *)
(* does not prevent cycles, nor premises that have no edge of their own.   *)
(***************************************************************************)
EXTENDS Propagation

CONSTANTS MaxBeliefs,   \* bound: beliefs in the quad
          MaxEdges,     \* bound: causal edges
          MaxPremises,  \* bound: length of a premise list
          MaxVersion,   \* bound: version counter
          ConfIn,       \* confidences beliefs start with or are revised to
          Decays        \* temporal decay factors, in units of Scale

ASSUME System1Assumption ==
    /\ Key # {} /\ Value # {}
    /\ MaxBeliefs \in Nat \ {0} /\ MaxEdges \in Nat /\ MaxPremises \in Nat
    /\ MaxVersion \in Nat
    /\ ConfIn \subseteq Conf /\ Decays \subseteq Conf

VARIABLES quad,    \* the BeliefQuad
          decay,   \* the decay factor of each belief, fixed while we watch
          root,    \* the belief System 1 last ran from
          rounds   \* how often in a row it ran from there

vars == <<quad, decay, root, rounds>>

Ids == {<<s, 1>> : s \in 1 .. MaxBeliefs}

AnyNode == [key |-> CHOOSE k \in Key : TRUE, value |-> CHOOSE v \in Value : TRUE,
            fast |-> 0, slow |-> None]

Built[n \in 0 .. MaxBeliefs] ==
    IF n = 0 THEN EmptyQuad ELSE Insert(Built[n - 1], AnyNode)

Init ==
    /\ \E fast \in [Ids -> ConfIn] : quad = WithFast(Built[MaxBeliefs], fast)
    /\ decay \in [Ids -> Decays]
    /\ root = None
    /\ rounds = 0

Settle == root' = None /\ rounds' = 0

LinkPremises(e) ==
    /\ Cardinality(quad.graphs["causal"].edges) < MaxEdges
    /\ quad' = [quad EXCEPT !.graphs["causal"] = AddEdge(@, e)]
    /\ Settle
    /\ UNCHANGED decay

\* revise() with a value that does not contradict the present one.
ChangeConfidence(id, c) ==
    /\ quad.version < MaxVersion
    /\ id \in Live(quad)
    /\ quad' = Expand(quad, id, quad.nodes[id].value, c, quad.nodes[id].slow)
    /\ Settle
    /\ UNCHANGED decay

DropBelief(id) ==
    /\ quad.version < MaxVersion
    /\ quad' = RemoveOne(quad, id)
    /\ Settle
    /\ UNCHANGED decay

PropagateSystem1(id) ==
    /\ rounds <= MaxBeliefs
    /\ quad' \in Propagate(quad, decay, id)
    /\ root' = id
    /\ rounds' = IF root = id THEN rounds + 1 ELSE 1
    /\ UNCHANGED decay

PremiseLists ==
    UNION {{ps \in [1 .. n -> Ids] : IsInjective(ps)} : n \in 1 .. MaxPremises}

InferenceEdges ==
    [from : Ids, to : Ids, kind : {"InferredFrom"}, premises : PremiseLists]

Next ==
    \/ \E e \in InferenceEdges : LinkPremises(e)
    \/ \E id \in Ids, c \in ConfIn : ChangeConfidence(id, c)
    \/ \E id \in Ids : DropBelief(id)
    \/ \E id \in Ids : PropagateSystem1(id)

Spec == Init /\ [][Next]_vars

-----------------------------------------------------------------------------
(* Properties *)

\* Confidences stay within [0, 1] under every mix of Noisy-OR and decay.
TypeOK ==
    /\ Live(quad) \subseteq Ids
    /\ \A id \in Live(quad) : quad.nodes[id].fast \in Conf
    /\ decay \in [Ids -> Decays]
    /\ root \in Ids \cup {None}
    /\ rounds \in 0 .. MaxBeliefs + 1

\* What every step preserves.
Inv == QuadInv(quad) /\ TypeOK

\* A graph as callers are meant to build it: acyclic, every premise of an
\* inference linked to its conclusion by an edge of its own.
Causal == quad.graphs["causal"].edges

WellFounded ==
    /\ \A id \in Live(quad) :
         \A e \in Causal : e.from \in {id} \cup Descendants(quad, id) => e.to # id
    /\ \A e \in Causal : \A p \in Range(e.premises) :
         p \in Live(quad) => \E x \in Causal : x.from = p /\ x.to = e.to

Settled(ids) ==
    \A id \in ids : quad.nodes[id].fast = Recomputed(quad, decay, Fast(quad), id)

\* System 1 converges: on a well-founded graph, running it as often as there
\* are beliefs downstream (and once for the root) settles all of them, whatever
\* order each run visits them in.
Converges ==
    LET ids == {root} \cup Descendants(quad, root)
    IN  (WellFounded /\ root \in Live(quad) /\ rounds >= Cardinality(ids)) => Settled(ids)

\* Losing a belief never makes another one more credible than it was or than
\* its full support makes it: removed premises drop out of the Noisy-OR.
SupportLossNeverStrengthens ==
    \A p, id \in Live(quad) :
      LET q == RemoveOne(quad, p)
      IN  p # id =>
            \/ Recomputed(q, decay, Fast(q), id) <= Recomputed(quad, decay, Fast(quad), id)
            \/ Recomputed(q, decay, Fast(q), id) = quad.nodes[id].fast

=============================================================================

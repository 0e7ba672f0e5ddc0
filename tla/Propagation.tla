---------------------------- MODULE Propagation ----------------------------
(***************************************************************************)
(* System 1: propagate_system1(changed) recomputes the fast confidence of  *)
(* the changed belief and of its causal descendants, each once, by         *)
(* Noisy-OR over premises, best evidence over edges, and temporal decay.   *)
(***************************************************************************)
EXTENDS QuadOps

Unscaled(cs) ==  \* mutant: the product is not brought back to one unit
    LET miss[i \in 0 .. Len(cs)] == IF i = 0 THEN 1 ELSE miss[i - 1] * (Scale - cs[i])
    IN  IF cs = <<>> THEN 0 ELSE Scale - miss[Len(cs)]
\* 1 - prod (1 - c), in units of Scale: the product of the doubts over the
\* product of as many units; the empty combination is 0.
NoisyOr(cs) ==
    LET miss[i \in 0 .. Len(cs)] == IF i = 0 THEN 1 ELSE miss[i - 1] * (Scale - cs[i])
        unit[i \in 0 .. Len(cs)] == IF i = 0 THEN 1 ELSE unit[i - 1] * Scale
    IN  Scale - (Scale * miss[Len(cs)]) \div unit[Len(cs)]

\* Premises that are no longer in the quad are skipped: nothing is added to the
\* combination, which is what 0, its neutral element, adds.
DeadCertain(q, fast, premises) ==  \* mutant: a dead premise counts as certain
    NoisyOr([i \in DOMAIN premises |->
               IF premises[i] \in Live(q) THEN fast[premises[i]] ELSE Scale])
EdgeConfidence(q, fast, premises) ==
    NoisyOr([i \in DOMAIN premises |->
               IF premises[i] \in Live(q) THEN fast[premises[i]] ELSE 0])

\* The best evidence over all InferredFrom edges, decayed; a belief with no
\* such edge keeps its confidence.
Recomputed(q, decay, fast, id) ==
    LET evidence == {EdgeConfidence(q, fast, ps) : ps \in SupportPaths(q, id)}
        best     == CHOOSE c \in evidence : \A d \in evidence : d <= c
    IN  IF evidence = {} THEN fast[id] ELSE (best * decay[id]) \div Scale

\* descendants_of follows causal edges of every kind and leaves the start out.
Descendants(q, id) ==
    LET succ(S)  == {e.to : e \in {x \in q.graphs["causal"].edges : x.from \in S}}
        reach[n \in 0 .. Cardinality(Live(q))] ==
            IF n = 0 THEN succ({id}) ELSE reach[n - 1] \cup succ(reach[n - 1])
    IN  reach[Cardinality(Live(q))] \ {id}

\* The orders in which the recursion visits its beliefs: each one is followed
\* at once by those of its descendants that were not visited before, in an
\* order a HashSet iteration chooses.
FollowedByDescendants(q, order, i) ==
    LET fresh == Descendants(q, order[i]) \ {order[j] : j \in 1 .. i}
    IN  {order[j] : j \in i + 1 .. i + Cardinality(fresh)} = fresh

VisitOrders(q, changed) ==
    {order \in SetToSeqs({changed} \cup Descendants(q, changed)) :
       /\ order[1] = changed
       /\ \A i \in DOMAIN order : FollowedByDescendants(q, order, i)}

Fast(q) == [id \in Live(q) |-> q.nodes[id].fast]

\* The confidences after recomputing the beliefs of order one after the other.
Visit(q, decay, order) ==
    LET after[i \in 0 .. Len(order)] ==
          IF i = 0 THEN Fast(q)
          ELSE [after[i - 1] EXCEPT ![order[i]] = Recomputed(q, decay, after[i - 1], order[i])]
    IN  after[Len(order)]

WithFast(q, fast) ==
    [q EXCEPT !.nodes = [id \in Live(q) |-> [q.nodes[id] EXCEPT !.fast = fast[id]]]]

DescendantsOnly(q, decay, changed) ==  \* mutant: the changed belief is skipped
    IF changed \notin Live(q) THEN {q}
    ELSE {WithFast(q, Visit(q, decay, Tail(order))) : order \in VisitOrders(q, changed)}
\* The possible quads after propagate_system1(changed).
Propagate(q, decay, changed) ==
    IF changed \notin Live(q) THEN {q}
    ELSE {WithFast(q, Visit(q, decay, order)) : order \in VisitOrders(q, changed)}

=============================================================================

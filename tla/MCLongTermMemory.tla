-------------------------- MODULE MCLongTermMemory --------------------------
(* Model-checking instance of LongTermMemory.                              *)
EXTENDS LongTermMemory, TLC

CONSTANTS k1, k2, v1, v2

NoEquivalence == {}

Belief(k, v, c, s) == [key |-> k, value |-> v, fast |-> c, slow |-> s]

\* A belief under k2 inferred from one under k1.
Inferred ==
    LET two == Insert(Insert(EmptyQuad, Belief(k1, v1, 2, None)), Belief(k2, v1, 1, 2))
        support == [from |-> <<1, 1>>, to |-> <<2, 1>>, kind |-> "InferredFrom",
                    premises |-> <<<<1, 1>>>>]
    IN  [two EXCEPT !.graphs["causal"] = AddEdge(@, support)]

MCQuads    == {Inferred}
MCInserted == {Belief(k1, v2, 1, None)}

Permanent    == [kind |-> "Permanent", ticks |-> 0]
Duration(n)  == [kind |-> "Duration", ticks |-> n]

\* Half a second, which Redis refuses, and one and a half.
MCPolicies   == {Permanent, Duration(1), Duration(3)}
MCLoadPolicy == Duration(1)
Flushers == Permutations(Flusher)
=============================================================================

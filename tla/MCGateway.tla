----------------------------- MODULE MCGateway ------------------------------
(* Model-checking instance of Gateway.                                     *)
EXTENDS Gateway, TLC

CONSTANTS k1, k2, k3, v1, v2, t1, t2, client, localhost

NoEquivalence == {}
NoContracts   == {<<>>}
NotGoverned   == {None}

Belief(k) == [key |-> k, value |-> v1, fast |-> 1, slow |-> None]
Support(a, b) == [from |-> a, to |-> b, kind |-> "InferredFrom", premises |-> <<a>>]

\* One belief, and keys left to insert.
One == Insert(EmptyQuad, Belief(k1))

\* Three beliefs, each inferred from the one before.
Chain ==
    LET three == Insert(Insert(One, Belief(k2)), Belief(k3))
    IN  [three EXCEPT !.graphs["causal"] =
           AddEdge(AddEdge(@, Support(<<1, 1>>, <<2, 1>>)), Support(<<2, 1>>, <<3, 1>>))]

Quads == {One, Chain}

Variables(noAuth, env, alg, pem, file, rps) ==
    [noAuth |-> noAuth, env |-> env, alg |-> alg, pem |-> pem,
     contracts |-> file, rps |-> rps, addr |-> "free",
     provider |-> "anthropic", apiKey |-> FALSE]

\* A contract file that gives gamma and nothing else.
File == [alpha |-> None, gamma |-> 4, maxTokens |-> None, preconditions |-> {}, invariants |-> <<>>]

Started ==
    {Variables(FALSE, "production", "rs256", "inline", [reads |-> TRUE, config |-> File], 3),
     Variables(FALSE, "production", "rs256", None, None, 2),
     Variables(TRUE, "production", "hs256", None, None, 0),
     Variables(TRUE, "dev", "hs256", None, None, 0)}

Token(ours, tick) == [alg |-> "rs256", ours |-> ours, expires |-> tick]

Traffic ==
    {[path |-> "api", token |-> Token(TRUE, MaxTicks), header |-> None],
     [path |-> "api", token |-> Token(FALSE, MaxTicks), header |-> None],
     [path |-> "probe", token |-> None, header |-> client]}

Set(k, v) == [key |-> k, value |-> v]

\* k2 is inserted or revised, with its value or another; k3 loses its support.
Asked == {Set(k2, v1), Set(k2, v2), Set(k3, v2)}

TaskSymmetry == Permutations({t1, t2})
=============================================================================

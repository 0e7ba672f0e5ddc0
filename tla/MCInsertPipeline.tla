-------------------------- MODULE MCInsertPipeline --------------------------
(* Model-checking instance of InsertPipeline.                              *)
EXTENDS InsertPipeline, TLC

CONSTANTS k1, k2, v1, v2, x, y

NoEquivalence == {}

Belief(k, v, c) == [key |-> k, value |-> v, fast |-> c, slow |-> None]

\* A belief under k2 inferred from one under k1, which a revision of k2 to
\* another value contracts.
Inferred ==
    LET two == Insert(Insert(EmptyQuad, Belief(k1, v1, 1)), Belief(k2, v1, 1))
        support == [from |-> <<1, 1>>, to |-> <<2, 1>>, kind |-> "InferredFrom",
                    premises |-> <<<<1, 1>>>>]
    IN  [two EXCEPT !.graphs["causal"] = AddEdge(@, support)]

\* Beliefs under k1 are prospected, those under k2 are not.
MCInserted == {Belief(k1, v1, 2), Belief(k2, v2, 0)}
MCQuads == {Inferred}

\* In thirds of a nat: ln 2 is 2; a certain belief against the opposite prior
\* is cut off by EPS.
MCDivergence ==
    [p \in Conf \X Conf |->
       IF p[1] = p[2] THEN 0
       ELSE IF p[1] # 1 /\ p[2] = 1 THEN 2
       ELSE IF p[1] = 1 THEN 27 ELSE 60]
MCSurprise == [c \in Conf |-> IF c = 1 THEN 2 ELSE 0]

MCSimilarity == [p \in Topic \X Topic |-> IF p[1] = p[2] THEN Scale ELSE -1]
MCGenerated  == {<<>>, <<x, y>>}
MCStandings  == {[s \in 1 .. 4 |-> IF s = 2 THEN 30 ELSE IF s = 4 THEN 1 ELSE 0]}
MCQuery      == {x, y, None}
=============================================================================

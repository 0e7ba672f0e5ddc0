--------------------------- MODULE MCSystem2Tasks ---------------------------
(* Model-checking instance of System2Tasks.                                *)
EXTENDS System2Tasks, TLC

CONSTANTS k1, v1, v2, c1, c2, s1

NoEquivalence == {}

OneBelief == Insert(EmptyQuad, [key |-> k1, value |-> v1, fast |-> 1, slow |-> None])
=============================================================================

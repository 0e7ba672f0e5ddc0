---------------------------- MODULE MCBeliefQuad ----------------------------
(* Model-checking instance of BeliefQuad.                                  *)
EXTENDS BeliefQuad, TLC

CONSTANTS k1, k2, v1, v2, v3

\* v1 and v2 paraphrase each other, whenever a provider is installed.
TwoEquivalent == {{<<v1, v2>>, <<v2, v1>>}}

NoEquivalence == {}

\* What a later step depends on: no call reads the last reply, and the handles
\* of a checkpoint that is gone are not looked up again.
Relevant ==
    <<quad, checkpoints, nextCp, handles, undone,
      [i \in DOMAIN checkpoints |-> taken[checkpoints[i].id]]>>

ValueSymmetry == Permutations({v1, v2})

KeyValueSymmetry == Permutations({k1, k2}) \cup Permutations({v1, v2})
=============================================================================

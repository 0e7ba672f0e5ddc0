------------------------- MODULE MCEvidenceReceipt -------------------------
(* Model-checking instance of EvidenceReceipt.                             *)
EXTENDS EvidenceReceipt, TLC

CONSTANTS p1, p2, e1, e2

Symmetry == Permutations({p1, p2}) \cup Permutations({e1, e2})
=============================================================================

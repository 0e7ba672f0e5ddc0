----------------------------- MODULE MCSystem1 -----------------------------
(* Model-checking instance of System1.                                     *)
EXTENDS System1, TLC

CONSTANTS k1, v1
=============================================================================

-------------------------- MODULE MCEmbeddingCache --------------------------
(* Model-checking instance of EmbeddingCache.                              *)
EXTENDS EmbeddingCache, TLC

CONSTANTS a, b, c, c1, c2

\* a and b paraphrase each other and so do b and c; a and c are opposed.
MCCosine ==
    [p \in Text \X Text |->
       IF p[1] = p[2] THEN 200
       ELSE IF p \in {<<a, b>>, <<b, a>>, <<b, c>>, <<c, b>>} THEN 195 ELSE 50]

\* b and c differ in case only: they agree literally, and are cached apart.
MCLiteral == [t \in Text |-> IF t = c THEN b ELSE t]

MCRequests == {<<a, b, c>>, <<c>>, <<>>}
MCContents == {<<a, c>>, <<c, b>>}
CallerSymmetry == Permutations({c1, c2})
=============================================================================

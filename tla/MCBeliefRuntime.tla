-------------------------- MODULE MCBeliefRuntime --------------------------
(* Model-checking instance of BeliefRuntime.                               *)
EXTENDS BeliefRuntime, TLC

CONSTANTS k1, k2, v1, v2, t1, t2

NoEquivalence == {}

\* A quad with a belief under k1 alone.
OneBelief ==
    Insert(EmptyQuad, [key |-> k1, value |-> v1, fast |-> 1, slow |-> None])

\* Beliefs under k1 and k2, the second inferred from the first and related
\* to it, with scenarios indexed for the first.
Inferred ==
    LET two     == Insert(OneBelief, [key |-> k2, value |-> v1, fast |-> 1, slow |-> None])
        support == [from |-> <<1, 1>>, to |-> <<2, 1>>, kind |-> "InferredFrom",
                    premises |-> <<<<1, 1>>>>]
        related == [from |-> <<2, 1>>, to |-> <<1, 1>>, kind |-> "Related", premises |-> <<>>]
    IN  [two EXCEPT !.graphs["causal"]   = AddEdge(@, support),
                    !.graphs["temporal"] = AddEdge(@, related),
                    !.prospective        = [id \in {<<1, 1>>} |-> v1]]

Both   == {OneBelief, Inferred}
Single == {OneBelief}

Confident(k, class) ==
    [pred |-> [kind |-> "MinConfidence", key |-> k, threshold |-> 1], class |-> class]
Present(k, class) ==
    [pred |-> [kind |-> "BeliefExists", key |-> k, threshold |-> 0], class |-> class]

Bare(policy, arg, invs) ==
    [preconditions |-> {}, invariants |-> invs, maxTokens |-> None,
     recovery |-> [policy |-> policy, arg |-> arg], alpha |-> 1, gamma |-> 10]

\* A contract file; k1 must be there and stay confident.
File(severity, limit) ==
    [alpha |-> None, gamma |-> None, maxTokens |-> limit,
     preconditions |-> {[type |-> "exists", key |-> k1, min_confidence |-> None]},
     invariants |-> <<[key |-> k2, min_confidence |-> 0, severity |-> "soft"],
                      [key |-> k1, min_confidence |-> None, severity |-> severity]>>]

\* Soft and Hard invariants under every recovery policy, a contract that
\* halts behind one that degrades, and a Critical one; the first and the last
\* are read from files.
Policies ==
    {<<FromConfig(File(None, 2))>>,
     <<Bare("RollbackToVersion", 2, <<Confident(k1, "Hard")>>)>>,
     <<Bare("RollbackToCheckpoint", 1, <<Confident(k1, "Hard"), Present(k2, "Hard")>>)>>,
     <<Bare("DegradeAndContinue", 1, <<Confident(k1, "Hard")>>),
       Bare("EmitCausalDiffAndHalt", None, <<Present(k1, "Hard")>>)>>,
     <<FromConfig(File("critical", None))>>}

LastCheckpoint == {<<Bare("RollbackToLastCheckpoint", None, <<Confident(k1, "Hard")>>)>>}

\* "system" may update, or nobody but a human may.
Governed == {[write_auth |-> [kind |-> "Denylist", agents |-> {"mallory"}]],
             [write_auth |-> [kind |-> "HumanApprovalRequired", agents |-> {}]]}
Open     == {Permissive}

TaskSymmetry == Permutations({t1, t2})
=============================================================================

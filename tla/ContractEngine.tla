--------------------------- MODULE ContractEngine ---------------------------
(***************************************************************************)
(* Behavioural contracts, as they are built in code or read from a file,   *)
(* and the engine that enforces them around an update: authorisation and   *)
(* preconditions before it, invariants and recovery after it.              *)
(***************************************************************************)
EXTENDS Propagation

Predicate == [kind : {"BeliefExists", "MinConfidence"}, key : Key, threshold : Conf]

\* The argument of a policy is the version, the checkpoint or the floor.  A
\* floor is a confidence: nothing in the code clamps one that is not.
RecoveryPolicy ==
    [policy : {"RollbackToLastCheckpoint", "EmitCausalDiffAndHalt"}, arg : {None}]
      \cup [policy : {"RollbackToVersion", "RollbackToCheckpoint"}, arg : Nat]
      \cup [policy : {"DegradeAndContinue"}, arg : Conf]

Invariant == [pred : Predicate, class : {"Soft", "Hard", "Critical"}]

Contract == [preconditions : SUBSET Predicate,
             invariants    : Seq(Invariant),
             maxTokens     : Nat \cup {None},
             recovery      : RecoveryPolicy,
             alpha         : Nat,   \* rates, in units of 1/20
             gamma         : Nat]

-----------------------------------------------------------------------------
(* A contract read from TOML: None is a field that is not given. *)

PreconditionConfig ==
    [type : {"min_confidence", "exists"}, key : Key, min_confidence : Conf \cup {None}]

InvariantConfig ==
    [key : Key, min_confidence : Conf \cup {None}, severity : STRING \cup {None}]

ContractConfig ==
    [alpha : Nat \cup {None}, gamma : Nat \cup {None}, maxTokens : Nat \cup {None},
     preconditions : SUBSET PreconditionConfig, invariants : Seq(InvariantConfig)]

OrElse(given, default) == IF given = None THEN default ELSE given

\* A severity that is missing or misspelt is taken as Hard.
ClassOf(severity) ==
    CASE severity = "soft"     -> "Soft"
      [] severity = "critical" -> "Critical"
      [] OTHER                 -> "Hard"

\* from_config: a file cannot name a recovery policy.
FromConfig(cfg) ==
    LET AtLeast(c) == [kind |-> "MinConfidence", key |-> c.key,
                       threshold |-> OrElse(c.min_confidence, Scale \div 2)]
        Exists(c)  == [kind |-> "BeliefExists", key |-> c.key, threshold |-> 0]
    IN  [preconditions |-> {IF c.type = "exists" THEN Exists(c) ELSE AtLeast(c) : c \in cfg.preconditions},
         invariants    |-> [i \in DOMAIN cfg.invariants |->
                              [pred  |-> AtLeast(cfg.invariants[i]),
                               class |-> ClassOf(cfg.invariants[i].severity)]],
         maxTokens     |-> cfg.maxTokens,
         recovery      |-> [policy |-> "RollbackToLastCheckpoint", arg |-> None],
         alpha         |-> OrElse(cfg.alpha, 1),
         gamma         |-> OrElse(cfg.gamma, 10)]

-----------------------------------------------------------------------------
(* Who may do what.  Of the nine primitives of a MnemonicSovereignty the    *)
(* runtime asks for the authorisation of updates, under the name write_auth.*)

AuthPolicy ==
    [kind : {"Any", "Allowlist", "Denylist", "HumanApprovalRequired"}, agents : SUBSET STRING]

Sovereignty == [write_auth : AuthPolicy]

Permissive == [write_auth |-> [kind |-> "Any", agents |-> {}]]

Allows(policy, agent) ==
    \/ policy.kind = "Any"
    \/ policy.kind = "Allowlist" /\ agent \in policy.agents
    \/ policy.kind = "Denylist" /\ agent \notin policy.agents

\* Without a sovereignty attached nothing is asked.
CheckWriteAuth(sovereignty, agent) ==
    sovereignty # None => Allows(sovereignty.write_auth, agent)

-----------------------------------------------------------------------------
\* Iteration is in slot order, so the first belief of a key decides.
FirstOf(q, k) ==
    CHOOSE i \in Holders(q, k) : \A j \in Holders(q, k) : Slot(i) <= Slot(j)

Evaluate(pred, q) ==
    /\ Holders(q, pred.key) # {}
    /\ pred.kind = "MinConfidence" => q.nodes[FirstOf(q, pred.key)].fast >= pred.threshold

CheckPreconditions(contracts, q) ==
    \A i \in DOMAIN contracts : \A pred \in contracts[i].preconditions : Evaluate(pred, q)

FirstViolation(contract, q) ==  \* mutant: stops at the first violation
    LET violated(i) == ~Evaluate(contract.invariants[i].pred, q)
    IN  {i \in DOMAIN contract.invariants :
           violated(i) /\ \A j \in 1 .. i - 1 : ~violated(j)}
\* The violated invariants, as positions in the contract's list.
CollectAllViolations(contract, q) ==
    {i \in DOMAIN contract.invariants : ~Evaluate(contract.invariants[i].pred, q)}

-----------------------------------------------------------------------------
(* A state of the engine at work: the quad with its checkpoints, the        *)
(* violation log, whether a recovery was executed, and the error that ended *)
(* the update, if one did.                                                  *)

EmptyLog == [soft |-> 0, hard |-> 0, critical |-> 0, recoveries |-> 0]

\* Among the checkpoints at or below a version, max_by_key takes the last of
\* those with the greatest version.
AtOrBelow(list, version) ==
    LET eligible == {i \in DOMAIN list : list[i].quad.version <= version}
        latest   == {i \in eligible : \A j \in eligible :
                                         list[j].quad.version <= list[i].quad.version}
    IN  IF eligible = {} THEN None
        ELSE list[CHOOSE i \in latest : \A j \in latest : j <= i].id

Floored(q, floor) ==
    [q EXCEPT !.nodes = [id \in Live(q) |->
       [q.nodes[id] EXCEPT !.fast = IF @ < floor THEN floor ELSE @]]]

RollbackTarget(recovery, list, cp) ==
    CASE recovery.policy = "RollbackToLastCheckpoint" -> cp
      [] recovery.policy = "RollbackToVersion"        -> AtOrBelow(list, recovery.arg)
      [] recovery.policy = "RollbackToCheckpoint"     -> recovery.arg

Count(s, field) == [s EXCEPT !.log[field] = @ + 1]

Recovered(s) == [Count(Count(s, "hard"), "recoveries") EXCEPT !.outcome = TRUE]

ExecuteRecovery(s, recovery, cp) ==
    CASE recovery.policy = "DegradeAndContinue" ->
           Recovered([s EXCEPT !.quad = Floored(@, recovery.arg)])
      [] recovery.policy = "EmitCausalDiffAndHalt" ->
           [s EXCEPT !.error = "ContractHalt"]
      [] OTHER ->
           LET out == Rollback(s.quad, s.checkpoints, RollbackTarget(recovery, s.checkpoints, cp))
           IN  IF out.result = "Ok"
               THEN Recovered([s EXCEPT !.quad = out.quad, !.checkpoints = out.checkpoints])
               ELSE [s EXCEPT !.error = "RecoveryFailed"]

\* Only the first Hard violation of the whole update is recovered from; an
\* error ends the update.
Handle(s, class, recovery, cp) ==
    CASE s.error = None /\ class = "Soft"     -> Count(s, "soft")
      [] s.error = None /\ class = "Hard"     -> IF s.outcome THEN Count(s, "hard")
                                                 ELSE ExecuteRecovery(s, recovery, cp)
      [] s.error = None /\ class = "Critical" -> [Count(s, "critical") EXCEPT !.error = "ContractHalt"]
      [] OTHER -> s

\* A contract's violations are collected before any of them is acted on; the
\* next contract sees the recovered quad.
Enforce(s, contract, cp) ==
    LET violated == CollectAllViolations(contract, s.quad)
        after[i \in 0 .. Len(contract.invariants)] ==
          IF i = 0 THEN s
          ELSE IF i \in violated
               THEN Handle(after[i - 1], contract.invariants[i].class, contract.recovery, cp)
               ELSE after[i - 1]
    IN  after[Len(contract.invariants)]

PostUpdate(contracts, q, list, log, cp) ==
    LET after[i \in 0 .. Len(contracts)] ==
          IF i = 0 THEN [quad |-> q, checkpoints |-> list, log |-> log,
                         outcome |-> FALSE, error |-> None]
          ELSE Enforce(after[i - 1], contracts[i], cp)
    IN  after[Len(contracts)]

=============================================================================

---------------------------- MODULE BeliefRuntime ----------------------------
(***************************************************************************)
(* BeliefRuntime: concurrent tasks share one quad, its key index and the   *)
(* confidence history, each behind a lock of its own.  A task holds a lock *)
(* for one step only, so an update is a sequence of steps between which    *)
(* other tasks run.  A client sets a belief by its key: it looks the key   *)
(* up and then inserts a new belief or updates the one it found.           *)
(***************************************************************************)
EXTENDS ContractEngine

CONSTANTS Task,          \* tokio tasks serving callers
          InitialQuads,  \* quads a runtime may be created around
          Attachable,    \* sequences of contracts that may be attached
          Sovereignties, \* what may be attached as MnemonicSovereignty, or None
          Baseline,      \* AUQ reliability baseline
          Tau,           \* reflection threshold
          LlmAttached,   \* an LlmClient is attached
          ConfIn,        \* confidences callers pass
          Decays,        \* temporal decay factors, in units of Scale
          MaxCalls,      \* bound: calls made in a session
          MaxSlots       \* bound: slots the arena may grow to

ASSUME RuntimeAssumption ==
    /\ IsFiniteSet(Task) /\ None \notin {"ContractHalt", "RecoveryFailed"}
    /\ None \notin BOOLEAN
    /\ Attachable \subseteq Seq(Contract)
    /\ Sovereignties \subseteq {None} \cup Sovereignty
    /\ LlmAttached \in BOOLEAN
    /\ Baseline \in Conf /\ Tau \in Conf
    /\ ConfIn \subseteq Int /\ Decays \subseteq Conf
    /\ MaxCalls \in Nat /\ MaxSlots \in Nat
    /\ \A q \in InitialQuads : QuadInv(q)

VARIABLES quad,         \* the BeliefQuad, without its checkpoints
          checkpoints,  \* its checkpoints: [id, quad]
          nextCp,       \* the next fresh CheckpointId
          keyIndex,     \* key -> BeliefId
          history,      \* confidence records: [id, conf, correct]
          engine,       \* what is attached at start: [contracts, sovereignty]
          log,          \* the violation log, as counts
          audits,       \* audit entries emitted
          tokensUsed,   \* governance tokens consumed
          calls,        \* calls begun so far
          task          \* what each task is doing

vars == <<quad, checkpoints, nextCp, keyIndex, history, engine, log, audits,
          tokensUsed, calls, task>>

contracts == engine.contracts

\* A task's program counter and its local variables: the request, the
\* checkpoint taken before the revision, and what the revision returned.
Frame(pc, k, id, v, c) ==
    [pc |-> pc, key |-> k, id |-> id, value |-> v, conf |-> c,
     cp |-> None, fast |-> 0, contradicted |-> FALSE, result |-> None]

Idle(result) == [Frame("idle", None, None, None, 0) EXCEPT !.result = result]

Goto(t, pc) == task' = [task EXCEPT ![t].pc = pc]
Return(t, result) == task' = [task EXCEPT ![t] = Idle(result)]

\* Collected in slot order: of two beliefs with one key the later one stays.
IndexOf(q) ==
    [k \in {q.nodes[id].key : id \in Live(q)} |->
       CHOOSE i \in Holders(q, k) : \A j \in Holders(q, k) : Slot(j) <= Slot(i)]

Init ==
    /\ quad \in InitialQuads
    /\ checkpoints = <<>>
    /\ nextCp = 1
    /\ keyIndex = IndexOf(quad)
    /\ history = <<>>
    /\ engine \in [contracts : Attachable, sovereignty : Sovereignties]
    /\ log = EmptyLog
    /\ audits = 0
    /\ tokensUsed = 0
    /\ calls = 0
    /\ task = [t \in Task |-> Idle(None)]

-----------------------------------------------------------------------------
Begin(t) ==
    /\ task[t].pc = "idle"
    /\ calls < MaxCalls
    /\ calls' = calls + 1

\* handle_belief_set: the key index decides between insert and update.
SetBelief(t, k, v, c) ==
    /\ Begin(t)
    /\ task' = [task EXCEPT ![t] = IF k \in DOMAIN keyIndex
                                   THEN Frame("admit", k, keyIndex[k], v, c)
                                   ELSE Frame("insert", k, None, v, c)]
    /\ UNCHANGED <<engine, quad, checkpoints, nextCp, keyIndex,
                   history, log, audits, tokensUsed>>

Checkpoint(t) ==
    /\ Begin(t)
    /\ checkpoints' = Append(checkpoints, [id |-> nextCp, quad |-> quad])
    /\ nextCp' = nextCp + 1
    /\ Return(t, "Ok")
    /\ UNCHANGED <<engine, quad, keyIndex, history, log, audits, tokensUsed>>

RollbackTo(t, cp) ==
    /\ Begin(t)
    /\ LET out == Rollback(quad, checkpoints, cp)
       IN  /\ quad' = out.quad
           /\ checkpoints' = out.checkpoints
           /\ Return(t, out.result)
    /\ UNCHANGED <<engine, nextCp, keyIndex, history, log, audits, tokensUsed>>

-----------------------------------------------------------------------------
(* insert_belief *)

InsertNode(t) ==
    /\ task[t].pc = "insert"
    /\ Len(quad.gens) < MaxSlots \/ quad.free # <<>>
    /\ quad' = Insert(quad, [key |-> task[t].key, value |-> task[t].value,
                             fast |-> task[t].conf, slow |-> None])
    /\ task' = [task EXCEPT ![t].pc = "index", ![t].id = NextId(quad)]
    /\ UNCHANGED <<engine, checkpoints, nextCp, keyIndex, history,
                   log, audits, tokensUsed, calls>>

Unindexed(t) ==  \* mutant: only the keys of the first quad are indexed
    /\ task[t].pc = "index"
    /\ Return(t, "Ok")
    /\ UNCHANGED <<engine, quad, checkpoints, nextCp, keyIndex, history,
                   log, audits, tokensUsed, calls>>
IndexKey(t) ==
    /\ task[t].pc = "index"
    /\ keyIndex' = [k \in DOMAIN keyIndex \cup {task[t].key} |->
                      IF k = task[t].key THEN task[t].id ELSE keyIndex[k]]
    /\ Return(t, "Ok")
    /\ UNCHANGED <<engine, quad, checkpoints, nextCp, history,
                   log, audits, tokensUsed, calls>>

-----------------------------------------------------------------------------
(* update_belief *)

\* pre_update: write authorisation, then the preconditions.
Admit(t) ==
    /\ task[t].pc = "admit"
    /\ IF ~CheckWriteAuth(engine.sovereignty, "system") THEN Return(t, "SovereigntyViolation")
       ELSE IF ~CheckPreconditions(contracts, quad) THEN Return(t, "PreconditionFailed")
       ELSE Goto(t, "meter")
    /\ UNCHANGED <<engine, quad, checkpoints, nextCp, keyIndex,
                   history, log, audits, tokensUsed, calls>>

\* track_token_usage: the token is spent even when the update is refused.
\* Only the first contract's limit counts.
TokenLimit == IF contracts = <<>> THEN None ELSE Head(contracts).maxTokens
LateLimit(used) == TokenLimit # None /\ used > TokenLimit  \* mutant: off by one
OverLimit(used) == TokenLimit # None /\ used >= TokenLimit

Meter(t) ==
    /\ task[t].pc = "meter"
    /\ tokensUsed' = tokensUsed + 1
    /\ IF OverLimit(tokensUsed)
       THEN Return(t, "GovernanceLimitExceeded")
       ELSE Goto(t, "checkpoint")
    /\ UNCHANGED <<engine, quad, checkpoints, nextCp, keyIndex,
                   history, log, audits, calls>>

PreRevisionCheckpoint(t) ==
    /\ task[t].pc = "checkpoint"
    /\ checkpoints' = Append(checkpoints, [id |-> nextCp, quad |-> quad])
    /\ nextCp' = nextCp + 1
    /\ task' = [task EXCEPT ![t].pc = "revise", ![t].cp = nextCp]
    /\ UNCHANGED <<engine, quad, keyIndex, history, log, audits, tokensUsed, calls>>

\* revise and propagate_system1 under one write lock.
ReviseAndPropagate(t) ==
    /\ task[t].pc = "revise"
    /\ LET id == task[t].id
       IN  \E out \in Revise(quad, id, task[t].value, task[t].conf) :
             IF out.result \in {"BeliefNotFound", "PostulateViolation"}
             THEN quad' = out.quad /\ Return(t, out.result)
             ELSE /\ \E decay \in [Live(out.quad) -> Decays] : quad' \in Propagate(out.quad, decay, id)
                  /\ task' = [task EXCEPT ![t].pc = "post",
                                          ![t].fast = quad'.nodes[id].fast,
                                          ![t].contradicted = out.contracted # {}]
    /\ UNCHANGED <<engine, checkpoints, nextCp, keyIndex, history,
                   log, audits, tokensUsed, calls>>

\* post_update: the engine's verdict; its error ends the update, and the audit
\* entry is emitted only when there is none.
EnforceContracts(t) ==
    /\ task[t].pc = "post"
    /\ LET s == PostUpdate(contracts, quad, checkpoints, log, task[t].cp)
       IN  /\ quad' = s.quad
           /\ checkpoints' = s.checkpoints
           /\ log' = s.log
           /\ audits' = IF engine.sovereignty # None /\ s.error = None THEN audits + 1 ELSE audits
           /\ IF s.error # None THEN Return(t, s.error)
              ELSE Goto(t, IF task[t].contradicted THEN "mark" ELSE "record")
    /\ UNCHANGED <<engine, nextCp, keyIndex, history, tokensUsed, calls>>

RecordsOf(id) == {i \in DOMAIN history : history[i].id = id}

MarkOwn(t) ==  \* mutant: the update's own record is pushed first and marked
    /\ task[t].pc = "mark"
    /\ history' = Append(history, [id |-> task[t].id, conf |-> task[t].fast, correct |-> FALSE])
    /\ Return(t, "System1Only")
    /\ UNCHANGED <<engine, quad, checkpoints, nextCp, keyIndex,
                   log, audits, tokensUsed, calls>>
\* mark_correct(id, false): the most recent record of the belief, if any.
MarkWrong(t) ==
    /\ task[t].pc = "mark"
    /\ LET mine == RecordsOf(task[t].id)
           last == CHOOSE i \in mine : \A j \in mine : j <= i
       IN  history' = IF mine = {} THEN history
                      ELSE [history EXCEPT ![last].correct = FALSE]
    /\ Goto(t, "record")
    /\ UNCHANGED <<engine, quad, checkpoints, nextCp, keyIndex,
                   log, audits, tokensUsed, calls>>

Diverges(fast) == LET d == fast - Baseline IN d > Tau \/ -d > Tau

RecordConfidence(t) ==
    /\ task[t].pc = "record"
    /\ history' = Append(history, [id |-> task[t].id, conf |-> task[t].fast, correct |-> None])
    /\ Return(t, IF Diverges(task[t].fast) /\ LlmAttached THEN "System2Pending" ELSE "System1Only")
    /\ UNCHANGED <<engine, quad, checkpoints, nextCp, keyIndex,
                   log, audits, tokensUsed, calls>>

-----------------------------------------------------------------------------
Request(t) ==
    \/ \E k \in Key, v \in Value, c \in ConfIn : SetBelief(t, k, v, c)
    \/ Checkpoint(t)
    \/ \E cp \in 1 .. nextCp - 1 : RollbackTo(t, cp)

Proceed(t) ==
    \/ InsertNode(t)
    \/ IndexKey(t)
    \/ Admit(t)
    \/ Meter(t)
    \/ PreRevisionCheckpoint(t)
    \/ ReviseAndPropagate(t)
    \/ EnforceContracts(t)
    \/ MarkWrong(t)
    \/ RecordConfidence(t)

Next == \E t \in Task : Request(t) \/ Proceed(t)

Spec == Init /\ [][Next]_vars

-----------------------------------------------------------------------------
(* Properties *)

Snapshots == {checkpoints[i].quad : i \in DOMAIN checkpoints}
Worlds    == {quad} \cup Snapshots
Results   == {"Ok", "System1Only", "System2Pending", "SovereigntyViolation",
              "PreconditionFailed", "GovernanceLimitExceeded", "BeliefNotFound",
              "PostulateViolation", "ContractHalt", "RecoveryFailed",
              "CheckpointNotFound", "UnnecessaryContraction"}
Committed == {"checkpoint", "revise", "post", "mark", "record"}

Frames ==
    [pc : {"idle", "insert", "index", "admit", "meter"} \cup Committed,
     key : Key \cup {None}, id : BeliefId \cup {None}, value : Value \cup {None},
     conf : Int, cp : Nat \cup {None}, fast : Conf, contradicted : BOOLEAN,
     result : Results \cup {None}]

\* A task at work knows its request, and the belief once there is one.
FrameOK(f) ==
    /\ f \in Frames
    /\ f.pc # "idle" => f.key \in Key /\ f.value \in Value
    /\ f.pc \notin {"idle", "insert"} => f.id \in BeliefId

Records == [id : BeliefId, conf : Conf, correct : {None, TRUE, FALSE}]
Logs    == [soft : Nat, hard : Nat, critical : Nat, recoveries : Nat]

\* What is shared beside the quad and its checkpoints.
SharedOK ==
    /\ keyIndex \in [DOMAIN keyIndex -> BeliefId] /\ DOMAIN keyIndex \subseteq Key
    /\ history \in Seq(Records)
    /\ engine \in [contracts : Attachable, sovereignty : Sovereignties]
    /\ log \in Logs
    /\ {nextCp, audits, tokensUsed, calls} \subseteq Nat

\* Type invariant of the shared state and of the tasks' frames.
TypeOK ==
    /\ \A q \in Worlds : IsQuad(q)
    /\ checkpoints \in Seq([id : Nat, quad : Snapshots])
    /\ SharedOK
    /\ task \in [Task -> Frames] /\ \A t \in Task : FrameOK(task[t])

\* Whatever order tasks run in and whatever the contracts' recoveries undo or
\* degrade, no reader of the quad or of a checkpoint ever sees a projection
\* that disagrees with the beliefs.
QuadStaysSound == \A q \in Worlds : ProjectionsAgree(q)

AllEnforced(q) ==
    \A i \in DOMAIN contracts : \A inv \in Range(contracts[i].invariants) :
      inv.class # "Soft" => Evaluate(inv.pred, q)

\* An update that post_update lets through leaves every Hard and Critical
\* invariant of every contract true, or its one recovery was executed: the
\* quad is then a checkpoint, no newer than the quad it replaces (as old, when
\* another task's recovery put a floor under it since), or has a floor.
UpdateEnforced ==
    [][\A t \in Task :
         (task[t].pc = "post" /\ task'[t].pc \in {"mark", "record"}) =>
           \/ AllEnforced(quad')
           \/ /\ log'.recoveries = log.recoveries + 1
              /\ \/ quad' \in Snapshots /\ quad'.version <= quad.version
                 \/ \E i \in DOMAIN contracts :
                      /\ contracts[i].recovery.policy = "DegradeAndContinue"
                      /\ quad' = Floored(quad, contracts[i].recovery.arg)]_vars

\* max_tokens_per_session bounds the updates that reach the quad, those in
\* flight included, although the token is taken before the limit is checked.
WithinTokenLimit ==
    TokenLimit # None =>
      Len(history) + Cardinality({t \in Task : task[t].pc \in Committed}) <= TokenLimit

\* "concurrent writes are serialised" (docs/architecture.md): enforcing the
\* contracts after one's own update does not undo the answered update of
\* another task.
NoLostUpdate ==
    [][\A t \in Task :
         (task[t].pc = "post" /\ task'[t].pc # "post") =>
           \A o \in Live(quad) \ {task[t].id} :
             o \in Live(quad') /\ quad'.nodes[o].value = quad.nodes[o].value]_vars

=============================================================================

------------------------- MODULE BeliefRuntime_proofs -------------------------
(***************************************************************************)
(* What no schedule of tasks and no recovery of a contract can break: the  *)
(* quad and its checkpoints stay well-formed, and the token limit holds.   *)
(* Then the server around the runtime, whose tasks take the same steps and *)
(* a few more: the limiter's shares, counterfactual worlds, what a diff    *)
(* foretells, the belief of a key, and what the confidence trace tells of  *)
(* the session's revisions.  Only these use GatewayAssumption.             *)
(***************************************************************************)
EXTENDS Gateway, QuadOps_proofs

-----------------------------------------------------------------------------
(* Recoveries *)

\* DegradeAndContinue raises confidences to the floor and changes nothing else.
LEMMA FlooredInv ==
    ASSUME NEW q, QuadInv(q), NEW floor \in Conf
    PROVE  /\ QuadInv(Floored(q, floor)) /\ Live(Floored(q, floor)) = Live(q)
           /\ Floored(q, floor).version = q.version
<1> DEFINE fast == [id \in Live(q) |-> IF q.nodes[id].fast < floor THEN floor
                                       ELSE q.nodes[id].fast]
           N == [id \in Live(q) |->
                   [q.nodes[id] EXCEPT !.fast = IF @ < floor THEN floor ELSE @]]
           M == [id \in Live(q) |-> [q.nodes[id] EXCEPT !.fast = fast[id]]]
<1>1. \A id \in Live(q) : q.nodes[id] \in Node
    BY DEF QuadInv, IsQuad
<1>2. fast \in FastMaps(q)
    BY <1>1 DEF FastMaps, Node
<1>3. \A id \in Live(q) :
        [q.nodes[id] EXCEPT !.fast = IF @ < floor THEN floor ELSE @]
          = [q.nodes[id] EXCEPT !.fast = fast[id]]
    BY <1>1 DEF Node
<1>4. N = M
    BY <1>3
<1>5. Floored(q, floor) = [q EXCEPT !.nodes = N] /\ WithFast(q, fast) = [q EXCEPT !.nodes = M]
    BY Zenon DEF Floored, WithFast
<1> HIDE DEF fast, N, M
<1>6. Floored(q, floor) = WithFast(q, fast)
    BY <1>4, <1>5
<1> QED
    BY <1>2, <1>6, WithFastInv

Errors == {"ContractHalt", "RecoveryFailed"}

\* The states of the engine at work.
EngineStates ==
    [quad : Sound, checkpoints : Seq(Marks), log : Logs, outcome : BOOLEAN,
     error : Errors \cup {None}]

\* Counting a violation or a recovery changes the log alone.
LEMMA CountType ==
    ASSUME NEW s \in EngineStates, NEW field \in {"soft", "hard", "critical", "recoveries"}
    PROVE  /\ Count(s, field) \in EngineStates
           /\ Count(s, field).quad = s.quad /\ Count(s, field).checkpoints = s.checkpoints
           /\ Count(s, field).outcome = s.outcome /\ Count(s, field).error = s.error
           /\ Count(s, field).log = [s.log EXCEPT ![field] = @ + 1]
<1>1. s.log \in Logs /\ s.log[field] \in Nat
    BY DEF EngineStates, Logs
<1> DEFINE l == [s.log EXCEPT ![field] = @ + 1]
<1>2. l \in Logs
    BY <1>1 DEF Logs
<1>3. Count(s, field) = [s EXCEPT !.log = l]
    BY DEF Count
<1> HIDE DEF l
<1>4. [s EXCEPT !.log = l] = [quad |-> s.quad, checkpoints |-> s.checkpoints, log |-> l,
                              outcome |-> s.outcome, error |-> s.error]
    BY DEF EngineStates
<1> QED
    BY <1>2, <1>3, <1>4 DEF EngineStates, l

LEMMA RecoveredType ==
    ASSUME NEW s \in EngineStates
    PROVE  /\ Recovered(s) \in EngineStates
           /\ Recovered(s).quad = s.quad /\ Recovered(s).outcome = TRUE
           /\ Recovered(s).checkpoints = s.checkpoints /\ Recovered(s).error = s.error
           /\ Recovered(s).log.recoveries = s.log.recoveries + 1
<1> DEFINE a == Count(s, "hard")
           b == Count(a, "recoveries")
<1>1. /\ a \in EngineStates /\ a.quad = s.quad /\ a.checkpoints = s.checkpoints
      /\ a.error = s.error /\ a.log = [s.log EXCEPT !["hard"] = @ + 1]
    BY CountType
<1>2. a.log.recoveries = s.log.recoveries
    BY <1>1 DEF EngineStates, Logs
<1> HIDE DEF a
<1>3. /\ b \in EngineStates /\ b.quad = a.quad /\ b.checkpoints = a.checkpoints
      /\ b.error = a.error /\ b.log = [a.log EXCEPT !["recoveries"] = @ + 1]
    BY <1>1, CountType
<1>4. b.log.recoveries = a.log.recoveries + 1
    BY <1>1, <1>3 DEF EngineStates, Logs
<1>5. Recovered(s) = [b EXCEPT !.outcome = TRUE]
    BY DEF Recovered, a
<1> HIDE DEF b
<1> QED
    BY <1>1, <1>2, <1>3, <1>4, <1>5 DEF EngineStates

\* A recovery restores a well-formed quad or ends the update.
LEMMA RecoveryType ==
    ASSUME NEW s \in EngineStates, NEW recovery \in RecoveryPolicy, NEW cp
    PROVE  ExecuteRecovery(s, recovery, cp) \in EngineStates
<1>1. QuadInv(s.quad) /\ s.checkpoints \in Seq(Marks)
    BY DEF EngineStates, Sound
<1>2. ASSUME NEW q, QuadInv(q), NEW list \in Seq(Marks)
      PROVE  [s EXCEPT !.quad = q, !.checkpoints = list] \in EngineStates
    BY <1>2, SoundQuads DEF EngineStates
<1>3. ASSUME NEW e \in Errors PROVE [s EXCEPT !.error = e] \in EngineStates
    BY <1>3 DEF EngineStates
<1>4. CASE recovery.policy = "DegradeAndContinue"
  <2> DEFINE q == Floored(s.quad, recovery.arg)
             t == [s EXCEPT !.quad = q]
  <2>1. recovery.arg \in Conf
      BY <1>4 DEF RecoveryPolicy
  <2>2. QuadInv(q)
      BY <1>1, <2>1, FlooredInv
  <2>3. ExecuteRecovery(s, recovery, cp) = Recovered(t)
      BY <1>4 DEF ExecuteRecovery
  <2> HIDE DEF q
  <2>4. t \in EngineStates
      BY <2>2, SoundQuads DEF EngineStates
  <2> HIDE DEF t
  <2> QED
      BY <2>3, <2>4, RecoveredType
<1>5. CASE recovery.policy = "EmitCausalDiffAndHalt"
    BY <1>3, <1>5 DEF ExecuteRecovery, Errors
<1>6. CASE recovery.policy \notin {"DegradeAndContinue", "EmitCausalDiffAndHalt"}
  <2> DEFINE out == Rollback(s.quad, s.checkpoints, RollbackTarget(recovery, s.checkpoints, cp))
             t   == [s EXCEPT !.quad = out.quad, !.checkpoints = out.checkpoints]
  <2>1. QuadInv(out.quad) /\ out.checkpoints \in Seq(Marks)
      BY <1>1, RollbackType
  <2>2. ExecuteRecovery(s, recovery, cp) =
          IF out.result = "Ok" THEN Recovered(t) ELSE [s EXCEPT !.error = "RecoveryFailed"]
      BY <1>6 DEF ExecuteRecovery
  <2> HIDE DEF out
  <2>3. t \in EngineStates
      BY <1>2, <2>1
  <2> HIDE DEF t
  <2> QED
      BY <1>3, <2>2, <2>3, RecoveredType DEF Errors
<1> QED
    BY <1>4, <1>5, <1>6

\* So does every violation, of whatever class.
LEMMA HandleType ==
    ASSUME NEW s \in EngineStates, NEW class, NEW recovery \in RecoveryPolicy, NEW cp
    PROVE  Handle(s, class, recovery, cp) \in EngineStates
<1>1. /\ Count(s, "soft") \in EngineStates /\ Count(s, "hard") \in EngineStates
      /\ Count(s, "critical") \in EngineStates
      /\ ExecuteRecovery(s, recovery, cp) \in EngineStates
    BY RecoveryType, CountType
<1>2. ASSUME NEW t \in EngineStates PROVE [t EXCEPT !.error = "ContractHalt"] \in EngineStates
    BY DEF EngineStates, Errors
<1> QED
    BY <1>1, <1>2 DEF Handle

-----------------------------------------------------------------------------
(* post_update as a run: over a contract's invariants, over the contracts *)

Handled(t, contract, violated, i, cp) ==
    IF i \in violated
    THEN Handle(t, contract.invariants[i].class, contract.recovery, cp) ELSE t

EnforceRun(f, s, contract, cp) ==
    LET n == Len(contract.invariants)
    IN  /\ f \in [0 .. n -> EngineStates] /\ f[0] = s
        /\ \A i \in 1 .. n :
             f[i] = Handled(f[i - 1], contract, CollectAllViolations(contract, s.quad), i, cp)
        /\ Enforce(s, contract, cp) = f[n]

\* Enforcing a contract acts on its violations one after the other.
LEMMA EnforceRuns ==
    ASSUME NEW s \in EngineStates, NEW contract \in Contract, NEW cp
    PROVE  \E f : EnforceRun(f, s, contract, cp)
<1> DEFINE n == Len(contract.invariants)
           violated == CollectAllViolations(contract, s.quad)
           step == [x \in (1 .. n) \X EngineStates |-> Handled(x[2], contract, violated, x[1], cp)]
           Runs(m) == m = [i \in 0 .. n |->
                             IF i = 0 THEN s
                             ELSE IF i \in violated
                                  THEN Handle(m[i - 1], contract.invariants[i].class,
                                              contract.recovery, cp)
                                  ELSE m[i - 1]]
<1>1. n \in Nat /\ contract.recovery \in RecoveryPolicy
    BY DEF Contract
<1>2. \A i : \A t \in EngineStates :
        Handled(t, contract, violated, i, cp) \in EngineStates
    BY <1>1, HandleType DEF Handled
<1>3. step \in Steps(n, EngineStates)
    BY <1>2 DEF Steps
<1>4. \A i \in 1 .. n, t \in EngineStates :
        step[<<i, t>>] = Handled(t, contract, violated, i, cp)
    OBVIOUS
<1>5. Enforce(s, contract, cp) = (CHOOSE m : Runs(m))[n]
    BY Zenon DEF Enforce
<1> HIDE DEF step, n, violated
<1>6. PICK f : Iterates(f, n, EngineStates, s, step)
    BY <1>1, <1>3, SegmentRecursion
<1>7. Runs(f)
  <2>1. \A i \in 0 .. n :
          f[i] = IF i = 0 THEN s
                 ELSE IF i \in violated
                      THEN Handle(f[i - 1], contract.invariants[i].class, contract.recovery, cp)
                      ELSE f[i - 1]
    <3> SUFFICES ASSUME NEW i \in 0 .. n
                 PROVE  f[i] = IF i = 0 THEN s
                               ELSE IF i \in violated
                                    THEN Handle(f[i - 1], contract.invariants[i].class,
                                                contract.recovery, cp)
                                    ELSE f[i - 1]
        OBVIOUS
    <3>1. CASE i = 0
        BY <1>6, <3>1 DEF Iterates
    <3>2. CASE i # 0
      <4>1. i \in 1 .. n /\ i - 1 \in 0 .. n
          BY <1>1, <3>2
      <4>2. f[i - 1] \in EngineStates /\ f[i] = step[<<i, f[i - 1]>>]
          BY <1>6, <4>1 DEF Iterates
      <4> QED
          BY <1>4, <3>2, <4>1, <4>2 DEF Handled
    <3> QED
        BY <3>1, <3>2
  <2> QED
      BY <1>6, <2>1 DEF Iterates
<1> DEFINE m == CHOOSE r : Runs(r)
<1>8. Runs(m)
  <2> HIDE DEF Runs
  <2> QED
      BY <1>7, Zenon
<1>9. ASSUME NEW r, Runs(r)
      PROVE  /\ r \in [0 .. n -> EngineStates] /\ r[0] = s
             /\ \A i \in 1 .. n : r[i] = Handled(r[i - 1], contract, violated, i, cp)
  <2>1. DOMAIN r = 0 .. n /\ r = [i \in 0 .. n |-> r[i]]
      BY <1>9
  <2>2. \A i \in 0 .. n :
          r[i] = IF i = 0 THEN s
                 ELSE IF i \in violated
                      THEN Handle(r[i - 1], contract.invariants[i].class, contract.recovery, cp)
                      ELSE r[i - 1]
      BY <1>9
  <2> HIDE DEF Runs
  <2>3. r[0] = s
      BY <1>1, <2>2
  <2>4. \A i \in 1 .. n : r[i] = Handled(r[i - 1], contract, violated, i, cp)
    <3> SUFFICES ASSUME NEW i \in 1 .. n
                 PROVE  r[i] = Handled(r[i - 1], contract, violated, i, cp)
        OBVIOUS
    <3>1. i \in 0 .. n /\ i # 0
        BY <1>1
    <3> QED
        BY <2>2, <3>1 DEF Handled
  <2> DEFINE T == {i \in 0 .. n : r[i] \in EngineStates}
  <2>5. 0 \in T
      BY <1>1, <2>3
  <2>6. ASSUME NEW i \in 0 .. n - 1, i \in T PROVE i + 1 \in T
    <3>1. i + 1 \in 1 .. n /\ (i + 1) - 1 = i
        BY <1>1
    <3>2. r[i + 1] = Handled(r[i], contract, violated, i + 1, cp)
        BY <2>4, <3>1
    <3> QED
        BY <1>2, <2>6, <3>1, <3>2
  <2> HIDE DEF T
  <2>7. 0 .. n \subseteq T
      BY <1>1, <2>5, <2>6, SegmentInduction
  <2> QED
      BY <2>1, <2>3, <2>4, <2>7 DEF T
<1>10. EnforceRun(m, s, contract, cp)
  <2> HIDE DEF Runs
  <2>1. Enforce(s, contract, cp) = m[n]
      BY <1>5
  <2> HIDE DEF m
  <2> QED
      BY <1>8, <1>9, <2>1 DEF EnforceRun, n, violated
<1> QED
    BY <1>10

\* A contract leaves the engine in a state of its type.
LEMMA EnforceType ==
    ASSUME NEW s \in EngineStates, NEW contract \in Contract, NEW cp
    PROVE  Enforce(s, contract, cp) \in EngineStates
<1>1. PICK f : EnforceRun(f, s, contract, cp)
    BY EnforceRuns
<1>2. Len(contract.invariants) \in Nat
    BY DEF Contract
<1> QED
    BY <1>1, <1>2 DEF EnforceRun

EngineStart(q, list, counts) ==
    [quad |-> q, checkpoints |-> list, log |-> counts, outcome |-> FALSE, error |-> None]

PostUpdateRun(f, attached, q, list, counts, cp) ==
    LET n == Len(attached)
    IN  /\ f \in [0 .. n -> EngineStates] /\ f[0] = EngineStart(q, list, counts)
        /\ \A i \in 1 .. n : f[i] = Enforce(f[i - 1], attached[i], cp)
        /\ PostUpdate(attached, q, list, counts, cp) = f[n]

\* post_update enforces the attached contracts one after the other.
LEMMA PostUpdateRuns ==
    ASSUME NEW attached \in Seq(Contract), NEW q, QuadInv(q), NEW list \in Seq(Marks),
           NEW counts \in Logs, NEW cp
    PROVE  \E f : PostUpdateRun(f, attached, q, list, counts, cp)
<1> DEFINE n == Len(attached)
           s == EngineStart(q, list, counts)
           step == [x \in (1 .. n) \X EngineStates |-> Enforce(x[2], attached[x[1]], cp)]
           Runs(m) == m = [i \in 0 .. n |-> IF i = 0 THEN s ELSE Enforce(m[i - 1], attached[i], cp)]
<1>1. n \in Nat /\ \A i \in 1 .. n : attached[i] \in Contract
    OBVIOUS
<1>2. s \in EngineStates
    BY SoundQuads DEF EngineStart, EngineStates
<1>3. \A t \in EngineStates, i \in 1 .. n : Enforce(t, attached[i], cp) \in EngineStates
    BY <1>1, EnforceType
<1>4. step \in Steps(n, EngineStates)
    BY <1>3 DEF Steps
<1>5. \A i \in 1 .. n, t \in EngineStates : step[<<i, t>>] = Enforce(t, attached[i], cp)
    OBVIOUS
<1>6. PostUpdate(attached, q, list, counts, cp) = (CHOOSE m : Runs(m))[n]
    BY Zenon DEF PostUpdate, EngineStart
<1> HIDE DEF step, n, s
<1>7. PICK f : Iterates(f, n, EngineStates, s, step)
    BY <1>1, <1>2, <1>4, SegmentRecursion
<1>8. Runs(f)
  <2>1. \A i \in 0 .. n : f[i] = IF i = 0 THEN s ELSE Enforce(f[i - 1], attached[i], cp)
    <3> SUFFICES ASSUME NEW i \in 0 .. n
                 PROVE  f[i] = IF i = 0 THEN s ELSE Enforce(f[i - 1], attached[i], cp)
        OBVIOUS
    <3>1. CASE i = 0
        BY <1>7, <3>1 DEF Iterates
    <3>2. CASE i # 0
      <4>1. i \in 1 .. n /\ i - 1 \in 0 .. n
          BY <1>1, <3>2
      <4>2. f[i - 1] \in EngineStates /\ f[i] = step[<<i, f[i - 1]>>]
          BY <1>7, <4>1 DEF Iterates
      <4> QED
          BY <1>5, <3>2, <4>1, <4>2
    <3> QED
        BY <3>1, <3>2
  <2> QED
      BY <1>7, <2>1 DEF Iterates
<1> DEFINE m == CHOOSE r : Runs(r)
<1>9. Runs(m)
  <2> HIDE DEF Runs
  <2> QED
      BY <1>8, Zenon
<1>10. ASSUME NEW r, Runs(r)
       PROVE  /\ r \in [0 .. n -> EngineStates] /\ r[0] = s
              /\ \A i \in 1 .. n : r[i] = Enforce(r[i - 1], attached[i], cp)
  <2>1. DOMAIN r = 0 .. n /\ r = [i \in 0 .. n |-> r[i]]
      BY <1>10
  <2>2. \A i \in 0 .. n : r[i] = IF i = 0 THEN s ELSE Enforce(r[i - 1], attached[i], cp)
      BY <1>10
  <2> HIDE DEF Runs
  <2>3. r[0] = s
      BY <1>1, <2>2
  <2>4. \A i \in 1 .. n : r[i] = Enforce(r[i - 1], attached[i], cp)
      BY <1>1, <2>2
  <2> DEFINE T == {i \in 0 .. n : r[i] \in EngineStates}
  <2>5. 0 \in T
      BY <1>1, <1>2, <2>3
  <2>6. ASSUME NEW i \in 0 .. n - 1, i \in T PROVE i + 1 \in T
    <3>1. i + 1 \in 1 .. n /\ (i + 1) - 1 = i
        BY <1>1
    <3>2. r[i + 1] = Enforce(r[i], attached[i + 1], cp)
        BY <2>4, <3>1
    <3> QED
        BY <1>3, <2>6, <3>1, <3>2
  <2> HIDE DEF T
  <2>7. 0 .. n \subseteq T
      BY <1>1, <2>5, <2>6, SegmentInduction
  <2> QED
      BY <2>1, <2>3, <2>4, <2>7 DEF T
<1>11. PostUpdateRun(m, attached, q, list, counts, cp)
  <2> HIDE DEF Runs
  <2>1. PostUpdate(attached, q, list, counts, cp) = m[n]
      BY <1>6
  <2> HIDE DEF m
  <2> QED
      BY <1>9, <1>10, <2>1 DEF PostUpdateRun, n, s
<1> QED
    BY <1>11

LEMMA PostUpdateType ==
    ASSUME NEW attached \in Seq(Contract), NEW q, QuadInv(q), NEW list \in Seq(Marks),
           NEW counts \in Logs, NEW cp
    PROVE  PostUpdate(attached, q, list, counts, cp) \in EngineStates
<1>1. PICK f : PostUpdateRun(f, attached, q, list, counts, cp)
    BY PostUpdateRuns
<1>2. Len(attached) \in Nat
    OBVIOUS
<1> QED
    BY <1>1, <1>2 DEF PostUpdateRun

-----------------------------------------------------------------------------
(* The key index and the revision *)

\* The index the runtime starts with maps each key to a belief that holds it.
LEMMA IndexType ==
    ASSUME NEW q, QuadInv(q)
    PROVE  /\ IndexOf(q) \in [DOMAIN IndexOf(q) -> BeliefId] /\ DOMAIN IndexOf(q) \subseteq Key
           /\ DOMAIN IndexOf(q) = {q.nodes[id].key : id \in Live(q)}
           /\ \A k \in DOMAIN IndexOf(q) : IndexOf(q)[k] \in Holders(q, k)
<1> DEFINE keys == {q.nodes[id].key : id \in Live(q)}
           Latest(i, k) == i \in Holders(q, k) /\ \A j \in Holders(q, k) : Slot(j) <= Slot(i)
<1>1. Live(q) \subseteq BeliefId /\ keys \subseteq Key /\ IsFiniteSet(Live(q))
    BY DEF QuadInv, IsQuad, Node, Finite
<1>2. ASSUME NEW k \in keys
      PROVE  \E i : Latest(i, k)
  <2> DEFINE H == Holders(q, k)
             S == {Slot(i) : i \in H}
  <2>1. H # {} /\ H \subseteq Live(q) /\ IsFiniteSet(H)
      BY <1>1, FS_Subset DEF Holders
  <2>2. S \in SUBSET Nat /\ S # {}
      BY <1>1, <2>1 DEF BeliefId, Slot
  <2>3. IsFiniteSet(S)
    <3> DEFINE f == [i \in H |-> Slot(i)]
    <3> HIDE DEF H
    <3>1. f \in Surjection(H, S)
        BY DEF Surjection
    <3> QED
        BY <2>1, <3>1, FS_Surjection
  <2> HIDE DEF S
  <2>4. PICK s \in S : \A t \in S : t <= s
      BY <2>2, <2>3, GreatestNat
  <2> QED
      BY <2>4 DEF S
<1> DEFINE chosen == [k \in keys |-> CHOOSE i \in Holders(q, k) :
                                        \A j \in Holders(q, k) : Slot(j) <= Slot(i)]
<1>3. IndexOf(q) = chosen
    BY Zenon DEF IndexOf
<1>4. \A k \in keys : chosen[k] \in BeliefId /\ chosen[k] \in Holders(q, k)
  <2> SUFFICES ASSUME NEW k \in keys PROVE chosen[k] \in BeliefId /\ chosen[k] \in Holders(q, k)
      OBVIOUS
  <2> DEFINE i == CHOOSE x \in Holders(q, k) : \A j \in Holders(q, k) : Slot(j) <= Slot(x)
  <2>1. \E x \in Holders(q, k) : \A j \in Holders(q, k) : Slot(j) <= Slot(x)
      BY <1>2
  <2>2. i \in Holders(q, k)
      BY <2>1, Zenon
  <2>3. chosen[k] = i
      OBVIOUS
  <2> QED
      BY <1>1, <2>2, <2>3 DEF Holders
<1>5. DOMAIN chosen = keys /\ chosen \in [keys -> BeliefId]
    BY <1>4
<1> HIDE DEF chosen
<1> QED
    BY <1>1, <1>3, <1>4, <1>5

LEMMA IndexHolds ==
    ASSUME NEW q, QuadInv(q), NEW k, NEW id \in Holders(q, k)
    PROVE  k \in DOMAIN IndexOf(q) /\ IndexOf(q)[k] \in Holders(q, k)
<1>1. id \in Live(q) /\ q.nodes[id].key = k
    BY DEF Holders
<1>2. k \in DOMAIN IndexOf(q)
    BY <1>1, IndexType
<1> QED
    BY <1>2, IndexType

\* A revision that is carried out leaves its target in the quad.
LEMMA ReviseKeepsTarget ==
    ASSUME NEW q, QuadInv(q), NEW id \in BeliefId, NEW v \in Value, NEW c \in Int,
           NEW out \in Revise(q, id, v, c),
           out.result \notin {"BeliefNotFound", "PostulateViolation"}
    PROVE  id \in Live(out.quad)
<1> DEFINE cut == ContractionSet(q, id)
<1>1. /\ id \in Live(q)
      /\ \/ out.result = "Expanded"
         \/ out.result = "Revised" /\ id \notin cut
    BY DEF Revise, Outcome, cut
<1> HIDE DEF cut
<1>2. /\ Live(q) \ Live(out.quad) \subseteq cut
      /\ out.result = "Expanded" => Live(out.quad) = Live(q)
    BY ReviseRetains DEF cut
<1> QED
    BY <1>1, <1>2

-----------------------------------------------------------------------------
(* The invariant *)

\* The runtime's tasks, and the tasks of a server around it, which have program
\* counters pcs and results answers of their own beside the runtime's.
RuntimePcs == {"idle", "insert", "index", "admit", "meter"} \cup Committed

FramesIn(pcs, answers) ==
    [pc : pcs, key : Key \cup {None}, id : BeliefId \cup {None}, value : Value \cup {None},
     conf : Int, cp : Nat \cup {None}, fast : Conf, contradicted : BOOLEAN,
     result : answers \cup {None}]

\* A task at an insert or an update knows its request, and its belief.
Working(f) ==
    f.pc \in RuntimePcs \ {"idle"} =>
      /\ f.key \in Key /\ f.value \in Value
      /\ f.pc # "insert" => f.id \in BeliefId

TasksIn(pcs, answers) ==
    /\ RuntimePcs \subseteq pcs /\ Results \subseteq answers
    /\ task \in [Task -> FramesIn(pcs, answers)]
    /\ \A t \in Task : Working(task[t])

InvIn(pcs, answers) ==
    /\ QuadInv(quad)
    /\ checkpoints \in Seq(Marks)
    /\ SharedOK
    /\ TasksIn(pcs, answers)

\* Frames: what a task's step leaves in its own frame, the others' unchanged.
LEMMA TaskStep ==
    ASSUME NEW pcs, NEW answers, TasksIn(pcs, answers), NEW t \in Task,
           NEW f \in FramesIn(pcs, answers), Working(f), task' = [task EXCEPT ![t] = f]
    PROVE  TasksIn(pcs, answers)'
<1>1. \A u \in Task : task'[u] = IF u = t THEN f ELSE task[u]
    BY DEF TasksIn
<1>2. task' \in [Task -> FramesIn(pcs, answers)]
    BY DEF TasksIn
<1>3. \A u \in Task : Working(task'[u])
  <2> HIDE DEF Working
  <2> QED
      BY <1>1 DEF TasksIn
<1> QED
    BY <1>2, <1>3 DEF TasksIn

LEMMA IdleOK ==
    ASSUME NEW pcs, NEW answers, "idle" \in pcs, NEW r \in answers \cup {None}
    PROVE  Idle(r) \in FramesIn(pcs, answers) /\ Working(Idle(r))
<1> DEFINE f == Frame("idle", None, None, None, 0)
<1>1. 0 \in Conf
    BY QuadAssumption DEF Conf
<1>2. f \in FramesIn(pcs, answers) /\ f.pc = "idle"
    BY <1>1 DEF Frame, FramesIn
<1>3. Idle(r) = [f EXCEPT !.result = r]
    BY DEF Idle
<1> HIDE DEF f
<1>4. Idle(r) \in FramesIn(pcs, answers) /\ Idle(r).pc = "idle"
    BY <1>2, <1>3 DEF FramesIn
<1> QED
    BY <1>4 DEF Working

LEMMA ReturnOK ==
    ASSUME NEW pcs, NEW answers, TasksIn(pcs, answers), NEW t \in Task,
           NEW r \in Results \cup answers, Return(t, r)
    PROVE  TasksIn(pcs, answers)'
<1>1. "idle" \in pcs /\ r \in answers
    BY DEF TasksIn, RuntimePcs
<1> QED
    BY <1>1, IdleOK, TaskStep DEF Return

LEMMA GotoOK ==
    ASSUME NEW pcs, NEW answers, TasksIn(pcs, answers), NEW t \in Task,
           NEW pc \in Committed \cup {"meter"},
           task[t].pc \in Committed \cup {"admit", "meter"}, Goto(t, pc)
    PROVE  TasksIn(pcs, answers)'
<1> DEFINE f == [task[t] EXCEPT !.pc = pc]
<1>1. task' = [task EXCEPT ![t] = f]
    BY DEF Goto
<1>2. Working(task[t]) /\ task[t] \in FramesIn(pcs, answers) /\ pc \in pcs
    BY DEF TasksIn, RuntimePcs
<1>3. f \in FramesIn(pcs, answers) /\ f.key = task[t].key /\ f.value = task[t].value
      /\ f.id = task[t].id /\ f.pc = pc
    BY <1>2 DEF FramesIn
<1> HIDE DEF f
<1>4. Working(f)
    BY <1>2, <1>3 DEF Working, RuntimePcs, Committed
<1> QED
    BY <1>1, <1>3, <1>4, TaskStep

\* A request's frame.
LEMMA NewFrameOK ==
    ASSUME NEW pcs, NEW answers, RuntimePcs \subseteq pcs,
           NEW pc \in {"insert", "admit"}, NEW k \in Key, NEW id \in BeliefId \cup {None},
           NEW v \in Value, NEW c \in Int, pc = "admit" => id \in BeliefId
    PROVE  /\ Frame(pc, k, id, v, c) \in FramesIn(pcs, answers)
           /\ Working(Frame(pc, k, id, v, c))
<1>1. 0 \in Conf /\ pc \in pcs
    BY QuadAssumption DEF Conf, RuntimePcs
<1> QED
    BY <1>1 DEF Working, FramesIn, Frame

LEMMA InitInv ==
    ASSUME NEW pcs, NEW answers, RuntimePcs \subseteq pcs, Results \subseteq answers, Init
    PROVE  InvIn(pcs, answers)
<1>1. QuadInv(quad)
    BY RuntimeAssumption DEF Init
<1>2. checkpoints \in Seq(Marks)
    BY DEF Init
<1>3. keyIndex \in [DOMAIN keyIndex -> BeliefId] /\ DOMAIN keyIndex \subseteq Key
    BY <1>1, IndexType DEF Init
<1>4. SharedOK
    BY <1>3 DEF Init, SharedOK, EmptyLog, Logs
<1>5. TasksIn(pcs, answers)
  <2>1. "idle" \in pcs
      BY DEF RuntimePcs
  <2>2. Idle(None) \in FramesIn(pcs, answers) /\ Working(Idle(None))
      BY <2>1, IdleOK
  <2> HIDE DEF Working, Idle
  <2> QED
      BY <2>2 DEF Init, TasksIn
<1> QED
    BY <1>1, <1>2, <1>4, <1>5 DEF InvIn

\* A checkpoint is a copy of the quad.
LEMMA MarkOK ==
    ASSUME QuadInv(quad), checkpoints \in Seq(Marks), SharedOK,
           checkpoints' = Append(checkpoints, [id |-> nextCp, quad |-> quad])
    PROVE  checkpoints' \in Seq(Marks)
<1>1. [id |-> nextCp, quad |-> quad] \in Marks
    BY SoundQuads DEF SharedOK, Marks
<1> QED
    BY <1>1

\* Requests.
LEMMA SetBeliefInv ==
    ASSUME NEW pcs, NEW answers, InvIn(pcs, answers), NEW t \in Task,
           NEW k \in Key, NEW v \in Value, NEW c \in ConfIn, SetBelief(t, k, v, c)
    PROVE  InvIn(pcs, answers)'
<1> DEFINE f == IF k \in DOMAIN keyIndex THEN Frame("admit", k, keyIndex[k], v, c)
                ELSE Frame("insert", k, None, v, c)
<1>1. k \in DOMAIN keyIndex => keyIndex[k] \in BeliefId
    BY DEF InvIn, SharedOK
<1>2. c \in Int /\ RuntimePcs \subseteq pcs
    BY RuntimeAssumption DEF InvIn, TasksIn
<1>3. f \in FramesIn(pcs, answers) /\ Working(f)
    BY <1>1, <1>2, NewFrameOK
<1>4. task' = [task EXCEPT ![t] = f]
    BY DEF SetBelief
<1> HIDE DEF f
<1>5. TasksIn(pcs, answers)'
    BY <1>3, <1>4, TaskStep DEF InvIn
<1>6. SharedOK'
    BY DEF SetBelief, Begin, SharedOK, InvIn
<1> QED
    BY <1>5, <1>6 DEF SetBelief, InvIn

LEMMA CheckpointInv ==
    ASSUME NEW pcs, NEW answers, InvIn(pcs, answers), NEW t \in Task, Checkpoint(t)
    PROVE  InvIn(pcs, answers)'
<1> USE DEF InvIn
<1>1. checkpoints' \in Seq(Marks)
    BY MarkOK DEF Checkpoint
<1>2. SharedOK'
    BY DEF Checkpoint, Begin, SharedOK
<1>3. TasksIn(pcs, answers)'
  <2>1. "Ok" \in answers
      BY DEF TasksIn, Results
  <2> QED
      BY <2>1, ReturnOK DEF Checkpoint
<1> QED
    BY <1>1, <1>2, <1>3 DEF Checkpoint

LEMMA RollbackInv ==
    ASSUME NEW pcs, NEW answers, InvIn(pcs, answers), NEW t \in Task, NEW cp, RollbackTo(t, cp)
    PROVE  InvIn(pcs, answers)'
<1> USE DEF InvIn
<1> DEFINE out == Rollback(quad, checkpoints, cp)
<1>1. QuadInv(out.quad) /\ out.checkpoints \in Seq(Marks)
    BY RollbackType
<1>2. out.result \in answers
    BY RollbackOutcome DEF Results, TasksIn
<1>3. quad' = out.quad /\ checkpoints' = out.checkpoints /\ Return(t, out.result)
    BY DEF RollbackTo
<1> HIDE DEF out
<1>4. TasksIn(pcs, answers)'
    BY <1>2, <1>3, ReturnOK
<1>5. SharedOK'
    BY DEF RollbackTo, Begin, SharedOK
<1> QED
    BY <1>1, <1>3, <1>4, <1>5

\* What the engine is given is of its type.
LEMMA ContractsType ==
    ASSUME SharedOK
    PROVE  contracts \in Seq(Contract)
BY RuntimeAssumption DEF SharedOK, contracts

\* revise and propagate_system1: a well-formed quad, and the confidence the
\* task keeps of it.
LEMMA ReviseInvStep ==
    ASSUME NEW pcs, NEW answers, InvIn(pcs, answers), NEW t \in Task, ReviseAndPropagate(t)
    PROVE  InvIn(pcs, answers)'
<1> USE DEF InvIn
<1> DEFINE id == task[t].id
           v  == task[t].value
           c  == task[t].conf
<1>1. Working(task[t]) /\ task[t] \in FramesIn(pcs, answers) /\ task[t].pc = "revise"
      /\ "post" \in pcs
    BY DEF TasksIn, ReviseAndPropagate, RuntimePcs, Committed
<1>2. id \in BeliefId /\ v \in Value /\ c \in Int /\ task[t] \in FramesIn(pcs, answers)
    BY <1>1 DEF Working, FramesIn, RuntimePcs, Committed
<1>3. SharedOK'
    BY DEF ReviseAndPropagate, SharedOK
<1>4. PICK out \in Revise(quad, id, v, c) :
        \/ /\ out.result \in {"BeliefNotFound", "PostulateViolation"}
           /\ quad' = out.quad /\ Return(t, out.result)
        \/ /\ out.result \notin {"BeliefNotFound", "PostulateViolation"}
           /\ \E decay \in [Live(out.quad) -> Decays] : quad' \in Propagate(out.quad, decay, id)
           /\ task' = [task EXCEPT ![t].pc = "post",
                                   ![t].fast = quad'.nodes[id].fast,
                                   ![t].contradicted = out.contracted # {}]
    BY DEF ReviseAndPropagate
<1> HIDE DEF id, v, c
<1>5. QuadInv(out.quad)
    BY <1>2, ReviseInv
<1>6. CASE out.result \in {"BeliefNotFound", "PostulateViolation"}
  <2>1. TasksIn(pcs, answers)'
      BY <1>4, <1>6, ReturnOK DEF Results
  <2> QED
      BY <1>3, <1>4, <1>5, <1>6, <2>1 DEF ReviseAndPropagate
<1>7. CASE out.result \notin {"BeliefNotFound", "PostulateViolation"}
  <2>1. PICK decay \in [Live(out.quad) -> Decays] : quad' \in Propagate(out.quad, decay, id)
      BY <1>4, <1>7
  <2>2. Decaying(out.quad, decay)
      BY RuntimeAssumption DEF Decaying
  <2>3. QuadInv(quad') /\ Live(quad') = Live(out.quad)
      BY <1>2, <1>5, <2>1, <2>2, PropagateInv
  <2>4. id \in Live(quad')
      BY <1>2, <1>7, <2>3, ReviseKeepsTarget
  <2> DEFINE fast == quad'.nodes[id].fast
             f    == [task[t] EXCEPT !.pc = "post", !.fast = fast,
                                     !.contradicted = out.contracted # {}]
  <2>5. fast \in Conf
      BY <2>3, <2>4 DEF QuadInv, IsQuad, Node
  <2>6. task' = [task EXCEPT ![t] = f]
      BY <1>4, <1>7
  <2> HIDE DEF fast
  <2>7. f \in FramesIn(pcs, answers) /\ Working(f)
    <3>1. f \in FramesIn(pcs, answers)
        BY <1>1, <1>2, <2>5 DEF FramesIn
    <3>2. /\ f.pc = "post" /\ f.key = task[t].key /\ f.value = task[t].value
          /\ f.id = task[t].id
        BY <1>2 DEF FramesIn
    <3> QED
        BY <1>1, <3>1, <3>2 DEF Working, RuntimePcs, Committed
  <2> HIDE DEF f
  <2>8. TasksIn(pcs, answers)'
      BY <2>6, <2>7, TaskStep
  <2> QED
      BY <1>3, <2>3, <2>8 DEF ReviseAndPropagate
<1> QED
    BY <1>6, <1>7

\* Contract enforcement ends in a well-formed quad or leaves it alone.
LEMMA EnforceInvStep ==
    ASSUME NEW pcs, NEW answers, InvIn(pcs, answers), NEW t \in Task, EnforceContracts(t)
    PROVE  InvIn(pcs, answers)'
<1> USE DEF InvIn
<1> DEFINE s == PostUpdate(contracts, quad, checkpoints, log, task[t].cp)
<1>1. s \in EngineStates
    BY ContractsType, PostUpdateType DEF SharedOK
<1>2. /\ task[t].pc = "post" /\ quad' = s.quad /\ checkpoints' = s.checkpoints /\ log' = s.log
      /\ audits' = IF engine.sovereignty # None /\ s.error = None THEN audits + 1 ELSE audits
      /\ IF s.error # None THEN Return(t, s.error)
         ELSE Goto(t, IF task[t].contradicted THEN "mark" ELSE "record")
      /\ UNCHANGED <<engine, nextCp, keyIndex, history, tokensUsed, calls>>
    BY DEF EnforceContracts
<1> HIDE DEF s
<1>3. QuadInv(quad') /\ checkpoints' \in Seq(Marks)
    BY <1>1, <1>2 DEF EngineStates, Sound
<1>4. SharedOK'
    BY <1>1, <1>2 DEF SharedOK, EngineStates
<1>5. TasksIn(pcs, answers)'
  <2>1. CASE s.error # None
    <3>1. s.error \in Results
        BY <1>1, <2>1 DEF EngineStates, Errors, Results
    <3> QED
        BY <1>2, <2>1, <3>1, ReturnOK
  <2>2. CASE s.error = None
    <3>1. /\ task[t].pc \in Committed \cup {"admit", "meter"}
          /\ (IF task[t].contradicted THEN "mark" ELSE "record") \in Committed \cup {"meter"}
        BY <1>2 DEF Committed
    <3> QED
        BY <1>2, <2>2, <3>1, GotoOK
  <2> QED
      BY <2>1, <2>2
<1> QED
    BY <1>3, <1>4, <1>5

\* The other steps of insert_belief and update_belief.
LEMMA StepInv ==
    ASSUME NEW pcs, NEW answers, InvIn(pcs, answers), NEW t \in Task, Proceed(t)
    PROVE  InvIn(pcs, answers)'
<1> USE DEF InvIn
<1>1. Working(task[t]) /\ task[t] \in FramesIn(pcs, answers)
      /\ {"index", "revise"} \subseteq pcs
    BY DEF TasksIn, RuntimePcs, Committed
<1>2. ASSUME InsertNode(t) PROVE InvIn(pcs, answers)'
  <2> DEFINE k == task[t].key
             v == task[t].value
             c == task[t].conf
             f == [task[t] EXCEPT !.pc = "index", !.id = NextId(quad)]
  <2>1. k \in Key /\ v \in Value /\ c \in Int
      BY <1>1, <1>2 DEF InsertNode, Working, FramesIn, RuntimePcs
  <2>2. quad' = Insert(quad, [key |-> k, value |-> v, fast |-> c, slow |-> None])
      BY <1>2 DEF InsertNode
  <2> HIDE DEF k, v, c
  <2>3. QuadInv(quad')
      BY <2>1, <2>2, InsertInv
  <2>4. NextId(quad) \in BeliefId
      BY NextIdFresh
  <2>5. f \in FramesIn(pcs, answers) /\ Working(f)
    <3>1. f \in FramesIn(pcs, answers) /\ f.pc = "index" /\ f.key = k /\ f.value = v /\ f.id = NextId(quad)
        BY <1>1, <2>4 DEF FramesIn, k, v
    <3> QED
        BY <2>1, <2>4, <3>1 DEF Working
  <2>6. task' = [task EXCEPT ![t] = f]
      BY <1>2 DEF InsertNode
  <2> HIDE DEF f
  <2>7. TasksIn(pcs, answers)'
      BY <2>5, <2>6, TaskStep
  <2>8. SharedOK'
      BY <1>2 DEF InsertNode, SharedOK
  <2> QED
      BY <1>2, <2>3, <2>7, <2>8 DEF InsertNode
<1>3. ASSUME IndexKey(t) PROVE InvIn(pcs, answers)'
  <2>1. task[t].key \in Key /\ task[t].id \in BeliefId
      BY <1>1, <1>3 DEF IndexKey, Working, RuntimePcs
  <2>2. keyIndex' \in [DOMAIN keyIndex' -> BeliefId] /\ DOMAIN keyIndex' \subseteq Key
      BY <1>3, <2>1 DEF IndexKey, SharedOK
  <2>3. SharedOK'
      BY <1>3, <2>2 DEF IndexKey, SharedOK
  <2>4. TasksIn(pcs, answers)'
      BY <1>3, ReturnOK DEF IndexKey, Results
  <2> QED
      BY <1>3, <2>3, <2>4 DEF IndexKey
<1>4. ASSUME Admit(t) PROVE InvIn(pcs, answers)'
  <2>1. TasksIn(pcs, answers)'
      BY <1>4, ReturnOK, GotoOK DEF Admit, Results
  <2>2. SharedOK'
      BY <1>4 DEF Admit, SharedOK
  <2> QED
      BY <1>4, <2>1, <2>2 DEF Admit
<1>5. ASSUME Meter(t) PROVE InvIn(pcs, answers)'
  <2>1. TasksIn(pcs, answers)'
      BY <1>5, ReturnOK, GotoOK DEF Meter, Results, Committed
  <2>2. SharedOK'
      BY <1>5 DEF Meter, SharedOK
  <2> QED
      BY <1>5, <2>1, <2>2 DEF Meter
<1>6. ASSUME PreRevisionCheckpoint(t) PROVE InvIn(pcs, answers)'
  <2> DEFINE f == [task[t] EXCEPT !.pc = "revise", !.cp = nextCp]
  <2>1. checkpoints' \in Seq(Marks)
      BY <1>6, MarkOK DEF PreRevisionCheckpoint
  <2>2. f \in FramesIn(pcs, answers) /\ Working(f)
    <3>1. /\ f \in FramesIn(pcs, answers) /\ f.pc = "revise" /\ f.key = task[t].key
          /\ f.value = task[t].value /\ f.id = task[t].id
        BY <1>1 DEF FramesIn, SharedOK
    <3> QED
        BY <1>1, <1>6, <3>1 DEF Working, RuntimePcs, Committed, PreRevisionCheckpoint
  <2>3. task' = [task EXCEPT ![t] = f]
      BY <1>6 DEF PreRevisionCheckpoint
  <2> HIDE DEF f
  <2>4. TasksIn(pcs, answers)'
      BY <2>2, <2>3, TaskStep
  <2>5. SharedOK'
      BY <1>6 DEF PreRevisionCheckpoint, SharedOK
  <2> QED
      BY <1>6, <2>1, <2>4, <2>5 DEF PreRevisionCheckpoint
<1>7. ASSUME MarkWrong(t) PROVE InvIn(pcs, answers)'
  <2>1. TasksIn(pcs, answers)'
      BY <1>7, GotoOK DEF MarkWrong, Committed
  <2>2. history' \in Seq(Records)
    <3> DEFINE mine == RecordsOf(task[t].id)
               recent == CHOOSE i \in mine : \A j \in mine : j <= i
    <3>1. history' = IF mine = {} THEN history ELSE [history EXCEPT ![recent].correct = FALSE]
        BY <1>7 DEF MarkWrong
    <3>2. history \in Seq(Records) /\ Len(history) \in Nat /\ history \in [1 .. Len(history) -> Records]
        BY DEF SharedOK
    <3> HIDE DEF mine, recent
    <3>3. \A r \in Records : [r EXCEPT !.correct = FALSE] \in Records
        BY DEF Records
    <3>4. [history EXCEPT ![recent].correct = FALSE] \in [1 .. Len(history) -> Records]
        BY <3>2, <3>3
    <3> QED
        BY <3>1, <3>2, <3>4, FunctionIsSeq
  <2>3. SharedOK'
      BY <1>7, <2>2 DEF MarkWrong, SharedOK
  <2> QED
      BY <1>7, <2>1, <2>3 DEF MarkWrong
<1>8. ASSUME RecordConfidence(t) PROVE InvIn(pcs, answers)'
  <2>1. TasksIn(pcs, answers)'
      BY <1>8, ReturnOK DEF RecordConfidence, Results
  <2>2. [id |-> task[t].id, conf |-> task[t].fast, correct |-> None] \in Records
      BY <1>1, <1>8 DEF RecordConfidence, Working, FramesIn, Records, RuntimePcs, Committed
  <2>3. SharedOK'
      BY <1>8, <2>2 DEF RecordConfidence, SharedOK
  <2> QED
      BY <1>8, <2>1, <2>3 DEF RecordConfidence
<1> QED
    BY <1>2, <1>3, <1>4, <1>5, <1>6, <1>7, <1>8, ReviseInvStep, EnforceInvStep DEF Proceed

-----------------------------------------------------------------------------
(* The runtime by itself *)

TasksOK == task \in [Task -> Frames] /\ \A t \in Task : FrameOK(task[t])

Inv ==
    /\ QuadInv(quad)
    /\ checkpoints \in Seq(Marks)
    /\ SharedOK
    /\ TasksOK

LEMMA InvIsIn == Inv <=> InvIn(RuntimePcs, Results)
<1>1. Frames = FramesIn(RuntimePcs, Results)
    BY DEF Frames, FramesIn, RuntimePcs
<1>2. \A f \in Frames : FrameOK(f) <=> Working(f)
    BY DEF Frames, FrameOK, Working, RuntimePcs
<1>3. TasksOK <=> TasksIn(RuntimePcs, Results)
    BY <1>1, <1>2 DEF TasksOK, TasksIn
<1> QED
    BY <1>3 DEF Inv, InvIn

LEMMA RequestInv ==
    ASSUME Inv, NEW t \in Task, Request(t)
    PROVE  Inv'
<1>1. InvIn(RuntimePcs, Results)
    BY InvIsIn
<1>2. InvIn(RuntimePcs, Results)'
    BY <1>1, SetBeliefInv, CheckpointInv, RollbackInv DEF Request
<1> QED
    BY <1>2, InvIsIn, PTL

LEMMA ProceedInv ==
    ASSUME Inv, NEW t \in Task, Proceed(t)
    PROVE  Inv'
<1>1. InvIn(RuntimePcs, Results)
    BY InvIsIn
<1>2. InvIn(RuntimePcs, Results)'
    BY <1>1, StepInv
<1> QED
    BY <1>2, InvIsIn, PTL

LEMMA NextInv == Inv /\ [Next]_vars => Inv'
<1>1. CASE UNCHANGED vars
    BY <1>1 DEF vars, Inv, SharedOK, TasksOK
<1>2. ASSUME Inv, Next PROVE Inv'
    BY <1>2, RequestInv, ProceedInv DEF Next
<1> QED
    BY <1>1, <1>2

THEOREM Invariance == Spec => []Inv
<1>1. Init => Inv
    BY InitInv, InvIsIn
<1> QED
    BY <1>1, NextInv, PTL DEF Spec

\* The quad and every checkpoint in it are sound.
LEMMA WorldsSound ==
    ASSUME Inv
    PROVE  \A q \in Worlds : QuadInv(q)
<1>1. \A m \in Marks : QuadInv(m.quad)
    BY DEF Marks, Sound
<1>2. \A i \in DOMAIN checkpoints : checkpoints[i] \in Marks
    BY DEF Inv
<1> QED
    BY <1>1, <1>2 DEF Inv, Worlds, Snapshots

\* The shared state and the tasks' frames keep their types.
THEOREM TypeCorrect == Spec => []TypeOK
<1>1. Inv => TypeOK
  <2> SUFFICES ASSUME Inv PROVE TypeOK
      OBVIOUS
  <2>1. \A q \in Worlds : IsQuad(q)
      BY WorldsSound DEF QuadInv
  <2>2. checkpoints \in Seq([id : Nat, quad : Snapshots])
    <3>1. checkpoints \in Seq(Marks) /\ Len(checkpoints) \in Nat
        BY DEF Inv
    <3>2. ASSUME NEW i \in 1 .. Len(checkpoints)
          PROVE  checkpoints[i] \in [id : Nat, quad : Snapshots]
      <4>1. checkpoints[i] \in Marks /\ i \in DOMAIN checkpoints
          BY <3>1
      <4>2. checkpoints[i].quad \in Snapshots
          BY <4>1 DEF Snapshots
      <4> QED
          BY <4>1, <4>2 DEF Marks
    <3>3. checkpoints \in [1 .. Len(checkpoints) -> [id : Nat, quad : Snapshots]]
        BY <3>1, <3>2
    <3> QED
        BY <3>1, <3>3, FunctionIsSeq
  <2> QED
      BY <2>1, <2>2 DEF Inv, TasksOK, TypeOK
<1> QED
    BY Invariance, <1>1, PTL

\* Whatever order tasks run in and whatever recoveries do, no reader ever sees
\* a projection that disagrees with the beliefs or scenarios of another value.
THEOREM SoundUnderConcurrency == Spec => []QuadStaysSound
<1>1. Inv => QuadStaysSound
    BY WorldsSound DEF QuadStaysSound, QuadInv
<1> QED
    BY Invariance, <1>1, PTL

-----------------------------------------------------------------------------
(* The token limit *)

InFlight == {t \in Task : task[t].pc \in Committed}

\* Every update that reached the quad or is on its way there paid a token.
Paid == Len(history) + Cardinality(InFlight) <= tokensUsed

LEMMA InFlightFinite ==
    /\ IsFiniteSet(InFlight) /\ Cardinality(InFlight) \in Nat
    /\ IsFiniteSet(InFlight') /\ Cardinality(InFlight') \in Nat
<1>1. InFlight \subseteq Task /\ InFlight' \subseteq Task
    BY DEF InFlight
<1> QED
    BY <1>1, RuntimeAssumption, FS_Subset, FS_CardinalityType

\* How many tasks are in flight after one of them moves.
LEMMA InFlightStep ==
    ASSUME TasksOK, NEW t \in Task, NEW f, task' = [task EXCEPT ![t] = f]
    PROVE  /\ f.pc \notin Committed => Cardinality(InFlight') <= Cardinality(InFlight)
           /\ f.pc \in Committed /\ task[t].pc \in Committed => InFlight' = InFlight
           /\ f.pc \notin Committed /\ task[t].pc \in Committed =>
                Cardinality(InFlight') = Cardinality(InFlight) - 1
           /\ f.pc \in Committed /\ task[t].pc \notin Committed =>
                Cardinality(InFlight') = Cardinality(InFlight) + 1
<1>1. \A u \in Task : task'[u] = IF u = t THEN f ELSE task[u]
    BY DEF TasksOK
<1>2. CASE f.pc \in Committed /\ task[t].pc \in Committed
    BY <1>1, <1>2 DEF InFlight
<1>3. CASE f.pc \notin Committed /\ task[t].pc \notin Committed
  <2>1. InFlight' = InFlight
      BY <1>1, <1>3 DEF InFlight
  <2> QED
      BY <1>3, <2>1, InFlightFinite
<1>4. CASE f.pc \notin Committed /\ task[t].pc \in Committed
  <2>1. InFlight' = InFlight \ {t} /\ t \in InFlight
      BY <1>1, <1>4 DEF InFlight
  <2>2. Cardinality(InFlight') = Cardinality(InFlight) - 1
      BY <2>1, InFlightFinite, FS_RemoveElement
  <2> QED
      BY <1>4, <2>2, InFlightFinite
<1>5. CASE f.pc \in Committed /\ task[t].pc \notin Committed
  <2>1. InFlight' = InFlight \cup {t} /\ t \notin InFlight
      BY <1>1, <1>5 DEF InFlight
  <2>2. Cardinality(InFlight') = Cardinality(InFlight) + 1
      BY <2>1, InFlightFinite, FS_AddElement
  <2> QED
      BY <1>5, <2>2
<1> QED
    BY <1>2, <1>3, <1>4, <1>5

LEMMA HeadLimit ==
    ASSUME NEW s \in Seq(Contract), s # <<>>
    PROVE  Head(s).maxTokens \in Nat \cup {None}
<1>1. \A c \in Contract : c.maxTokens \in Nat \cup {None}
    BY DEF Contract
<1>2. Head(s) \in Contract
    OBVIOUS
<1> QED
    BY <1>1, <1>2

LEMMA TokenTypes ==
    ASSUME Inv
    PROVE  Len(history) \in Nat /\ tokensUsed \in Nat /\ TokenLimit \in Nat \cup {None}
<1>1. Len(history) \in Nat /\ tokensUsed \in Nat
    BY DEF Inv, SharedOK
<1>2. contracts \in Seq(Contract)
    BY ContractsType DEF Inv
<1>3. contracts # <<>> => Head(contracts).maxTokens \in Nat \cup {None}
    BY <1>2, HeadLimit
<1> QED
    BY <1>1, <1>3 DEF TokenLimit

\* A step that pays nothing, records nothing and brings nobody in.
LEMMA QuietStep ==
    ASSUME Inv, Paid, WithinTokenLimit, UNCHANGED <<engine, tokensUsed>>,
           Len(history') = Len(history), Cardinality(InFlight') <= Cardinality(InFlight)
    PROVE  Paid' /\ WithinTokenLimit'
<1> DEFINE c == Cardinality(InFlight)
           d == Cardinality(InFlight')
           h == Len(history)
<1>1. c \in Nat /\ d \in Nat /\ h \in Nat /\ tokensUsed \in Nat /\ TokenLimit \in Nat \cup {None}
    BY InFlightFinite, TokenTypes
<1>2. TokenLimit' = TokenLimit
    BY DEF TokenLimit, contracts
<1>3. h + c <= tokensUsed /\ (TokenLimit # None => h + c <= TokenLimit)
    BY DEF Paid, WithinTokenLimit, InFlight
<1>4. d <= c /\ Len(history') = h /\ tokensUsed' = tokensUsed
    OBVIOUS
<1> HIDE DEF c, d, h
<1>5. h + d <= tokensUsed /\ (TokenLimit # None => h + d <= TokenLimit)
    BY <1>1, <1>3, <1>4
<1>6. Paid'
    BY <1>4, <1>5 DEF Paid, d
<1>7. WithinTokenLimit'
    BY <1>2, <1>4, <1>5 DEF WithinTokenLimit, InFlight, d
<1> QED
    BY <1>6, <1>7

\* The token is taken before the limit is looked at, and the update goes on
\* only when there was one left.
LEMMA MeterStep ==
    ASSUME Inv, Paid, WithinTokenLimit, NEW t \in Task, Meter(t)
    PROVE  Paid' /\ WithinTokenLimit'
<1> DEFINE c == Cardinality(InFlight)
           d == Cardinality(InFlight')
           h == Len(history)
<1>1. c \in Nat /\ d \in Nat /\ h \in Nat /\ tokensUsed \in Nat /\ TokenLimit \in Nat \cup {None}
    BY InFlightFinite, TokenTypes
<1>2. TokenLimit' = TokenLimit /\ tokensUsed' = tokensUsed + 1 /\ history' = history
      /\ task[t].pc = "meter"
    BY DEF Meter, TokenLimit, contracts
<1>3. h + c <= tokensUsed /\ (TokenLimit # None => h + c <= TokenLimit)
    BY DEF Paid, WithinTokenLimit, InFlight
<1>4. \/ d <= c
      \/ d = c + 1 /\ ~OverLimit(tokensUsed)
  <2>1. CASE OverLimit(tokensUsed)
    <3> DEFINE f == Idle("GovernanceLimitExceeded")
    <3>1. task' = [task EXCEPT ![t] = f]
        BY <2>1 DEF Meter, Return
    <3>2. f.pc = "idle"
        BY DEF Idle, Frame
    <3> HIDE DEF f
    <3>3. f.pc \notin Committed
        BY <3>2 DEF Committed
    <3> QED
        BY <3>1, <3>3, InFlightStep DEF Inv
  <2>2. CASE ~OverLimit(tokensUsed)
    <3> DEFINE f == [task[t] EXCEPT !.pc = "checkpoint"]
    <3>1. task' = [task EXCEPT ![t] = f]
        BY <2>2 DEF Meter, Goto
    <3>2. f.pc = "checkpoint"
        BY DEF Inv, TasksOK, Frames
    <3> HIDE DEF f
    <3>3. f.pc \in Committed /\ task[t].pc \notin Committed
        BY <1>2, <3>2 DEF Committed
    <3> QED
        BY <2>2, <3>1, <3>3, InFlightStep DEF Inv
  <2> QED
      BY <2>1, <2>2
<1> HIDE DEF c, d, h
<1>5. h + d <= tokensUsed + 1
    BY <1>1, <1>3, <1>4
<1>6. TokenLimit # None => h + d <= TokenLimit
    BY <1>1, <1>3, <1>4, QuadAssumption DEF OverLimit
<1>7. Paid'
    BY <1>2, <1>5 DEF Paid, d, h
<1>8. WithinTokenLimit'
    BY <1>2, <1>6 DEF WithinTokenLimit, InFlight, d, h
<1> QED
    BY <1>7, <1>8

\* A record takes the place of the task that leaves.
LEMMA RecordStep ==
    ASSUME Inv, Paid, WithinTokenLimit, NEW t \in Task, RecordConfidence(t)
    PROVE  Paid' /\ WithinTokenLimit'
<1> DEFINE c == Cardinality(InFlight)
           d == Cardinality(InFlight')
           h == Len(history)
<1>1. c \in Nat /\ d \in Nat /\ h \in Nat /\ tokensUsed \in Nat /\ TokenLimit \in Nat \cup {None}
    BY InFlightFinite, TokenTypes
<1>2. TokenLimit' = TokenLimit /\ tokensUsed' = tokensUsed
      /\ task[t].pc = "record"
    BY DEF RecordConfidence, TokenLimit, contracts
<1>3. Len(history') = h + 1
    BY DEF RecordConfidence, Inv, SharedOK
<1>4. h + c <= tokensUsed /\ (TokenLimit # None => h + c <= TokenLimit)
    BY DEF Paid, WithinTokenLimit, InFlight
<1>5. d = c - 1
  <2> DEFINE f == Idle(IF Diverges(task[t].fast) /\ LlmAttached THEN "System2Pending"
                       ELSE "System1Only")
  <2>1. task' = [task EXCEPT ![t] = f]
      BY DEF RecordConfidence, Return
  <2>2. f.pc = "idle"
      BY DEF Idle, Frame
  <2> HIDE DEF f
  <2>3. f.pc \notin Committed /\ task[t].pc \in Committed
      BY <1>2, <2>2 DEF Committed
  <2> QED
      BY <2>1, <2>3, InFlightStep DEF Inv
<1> HIDE DEF c, d, h
<1>6. h + 1 + d <= tokensUsed /\ (TokenLimit # None => h + 1 + d <= TokenLimit)
    BY <1>1, <1>4, <1>5
<1>7. Paid'
    BY <1>2, <1>3, <1>6 DEF Paid, d
<1>8. WithinTokenLimit'
    BY <1>2, <1>3, <1>6 DEF WithinTokenLimit, InFlight, d
<1> QED
    BY <1>7, <1>8

\* Every other step is quiet: it leaves its task outside, or in flight as it was.
LEMMA OtherSteps ==
    ASSUME Inv, NEW t \in Task, Request(t) \/ Proceed(t), ~Meter(t), ~RecordConfidence(t)
    PROVE  /\ UNCHANGED <<engine, tokensUsed>> /\ Len(history') = Len(history)
           /\ Cardinality(InFlight') <= Cardinality(InFlight)
<1>1. UNCHANGED <<engine, tokensUsed>>
    BY DEF Request, Proceed, SetBelief, Checkpoint, RollbackTo, InsertNode, IndexKey, Admit,
           PreRevisionCheckpoint, ReviseAndPropagate, EnforceContracts, MarkWrong
<1>2. Len(history') = Len(history)
  <2>1. CASE MarkWrong(t)
    <3> DEFINE mine == RecordsOf(task[t].id)
               recent == CHOOSE i \in mine : \A j \in mine : j <= i
    <3>1. history' = IF mine = {} THEN history ELSE [history EXCEPT ![recent].correct = FALSE]
        BY <2>1 DEF MarkWrong
    <3> HIDE DEF mine, recent
    <3>2. history \in Seq(Records) /\ history' \in Seq(Records)
        BY ProceedInv, <2>1 DEF Inv, SharedOK, Proceed
    <3>3. DOMAIN history' = DOMAIN history
        BY <3>1
    <3> QED
        BY <3>2, <3>3
  <2>2. CASE ~MarkWrong(t)
    <3>1. history' = history
        BY <2>2 DEF Request, Proceed, SetBelief, Checkpoint, RollbackTo, InsertNode, IndexKey,
               Admit, PreRevisionCheckpoint, ReviseAndPropagate, EnforceContracts
    <3> QED
        BY <3>1
  <2> QED
      BY <2>1, <2>2
<1> DEFINE Keeps == \E f : /\ task' = [task EXCEPT ![t] = f]
                           /\ f.pc \notin Committed \/ task[t].pc \in Committed
<1>3. Keeps
  <2> USE DEF Committed
  <2>1. task[t] \in Frames
      BY DEF Inv, TasksOK
  <2>2. ASSUME NEW r, Return(t, r) PROVE Keeps
    <3>1. Idle(r).pc = "idle"
        BY DEF Idle, Frame
    <3> QED
        BY <2>2, <3>1 DEF Return
  <2>3. ASSUME NEW pc, Goto(t, pc), pc = "meter" \/ task[t].pc \in Committed PROVE Keeps
    <3> DEFINE f == [task[t] EXCEPT !.pc = pc]
    <3>1. task' = [task EXCEPT ![t] = f]
        BY <2>3 DEF Goto
    <3>2. f.pc = pc
        BY <2>1 DEF Frames
    <3> QED
        BY <2>3, <3>1, <3>2
  <2>4. ASSUME NEW k, NEW v, NEW c, SetBelief(t, k, v, c) PROVE Keeps
    <3> DEFINE f == IF k \in DOMAIN keyIndex THEN Frame("admit", k, keyIndex[k], v, c)
                    ELSE Frame("insert", k, None, v, c)
    <3>1. task' = [task EXCEPT ![t] = f]
        BY <2>4 DEF SetBelief
    <3>2. f.pc \in {"admit", "insert"}
        BY DEF Frame
    <3> HIDE DEF f
    <3> QED
        BY <3>1, <3>2
  <2>5. CASE Checkpoint(t)
      BY <2>2, <2>5 DEF Checkpoint
  <2>6. ASSUME NEW cp, RollbackTo(t, cp) PROVE Keeps
      BY <2>2, <2>6 DEF RollbackTo
  <2>7. CASE InsertNode(t)
    <3> DEFINE f == [[task[t] EXCEPT !.pc = "index"] EXCEPT !.id = NextId(quad)]
    <3>1. task' = [task EXCEPT ![t] = f]
        BY <2>7 DEF InsertNode
    <3>2. f.pc = "index"
        BY <2>1 DEF Frames
    <3> HIDE DEF f
    <3> QED
        BY <3>1, <3>2
  <2>8. CASE IndexKey(t)
      BY <2>2, <2>8 DEF IndexKey
  <2>9. CASE Admit(t)
      BY <2>2, <2>3, <2>9 DEF Admit
  <2>10. CASE PreRevisionCheckpoint(t)
    <3> DEFINE f == [[task[t] EXCEPT !.pc = "revise"] EXCEPT !.cp = nextCp]
    <3>1. task' = [task EXCEPT ![t] = f] /\ task[t].pc = "checkpoint"
        BY <2>10 DEF PreRevisionCheckpoint
    <3> HIDE DEF f
    <3> QED
        BY <3>1
  <2>11. CASE ReviseAndPropagate(t)
    <3>1. task[t].pc = "revise"
        BY <2>11 DEF ReviseAndPropagate
    <3>2. CASE \E r : Return(t, r)
        BY <2>2, <3>2
    <3>3. CASE ~\E r : Return(t, r)
      <4>1. PICK out \in Revise(quad, task[t].id, task[t].value, task[t].conf) :
              task' = [task EXCEPT ![t].pc = "post",
                                   ![t].fast = quad'.nodes[task[t].id].fast,
                                   ![t].contradicted = out.contracted # {}]
          BY <2>11, <3>3, Zenon DEF ReviseAndPropagate
      <4> DEFINE f == [[[task[t] EXCEPT !.pc = "post"]
                          EXCEPT !.fast = quad'.nodes[task[t].id].fast]
                          EXCEPT !.contradicted = out.contracted # {}]
      <4>2. task' = [task EXCEPT ![t] = f]
          BY <4>1
      <4> HIDE DEF f
      <4> QED
          BY <3>1, <4>2
    <3> QED
        BY <3>2, <3>3
  <2>12. CASE EnforceContracts(t)
    <3>1. task[t].pc = "post"
        BY <2>12 DEF EnforceContracts
    <3>2. \/ \E r : Return(t, r)
          \/ \E pc : Goto(t, pc)
        BY <2>12, Zenon DEF EnforceContracts
    <3> QED
        BY <2>2, <2>3, <3>1, <3>2
  <2>13. CASE MarkWrong(t)
      BY <2>3, <2>13 DEF MarkWrong
  <2> HIDE DEF Keeps
  <2> QED
      BY <2>4, <2>5, <2>6, <2>7, <2>8, <2>9, <2>10, <2>11, <2>12, <2>13 DEF Request, Proceed
<1>4. PICK f : /\ task' = [task EXCEPT ![t] = f]
               /\ f.pc \notin Committed \/ task[t].pc \in Committed
    BY <1>3
<1>5. Cardinality(InFlight') <= Cardinality(InFlight)
  <2>1. TasksOK
      BY DEF Inv
  <2>2. CASE f.pc \notin Committed
      BY <1>4, <2>1, <2>2, InFlightStep
  <2>3. CASE f.pc \in Committed
    <3>1. InFlight' = InFlight
        BY <1>4, <2>1, <2>3, InFlightStep
    <3> QED
        BY <3>1, InFlightFinite
  <2> QED
      BY <2>2, <2>3
<1> QED
    BY <1>1, <1>2, <1>5

LEMMA TokenInit ==
    ASSUME Init
    PROVE  Paid /\ WithinTokenLimit
<1>1. InFlight = {}
    BY DEF Init, InFlight, Committed, Idle, Frame
<1>2. Cardinality(InFlight) = 0
    BY <1>1, FS_EmptySet
<1>3. Len(history) = 0 /\ tokensUsed = 0
    BY DEF Init
<1>4. engine \in [contracts : Attachable, sovereignty : Sovereignties]
    BY DEF Init
<1>5. TokenLimit # None => TokenLimit \in Nat
  <2>1. contracts \in Seq(Contract)
      BY <1>4, RuntimeAssumption DEF contracts
  <2> QED
      BY <2>1, HeadLimit DEF TokenLimit
<1> DEFINE c == Cardinality(InFlight)
<1>6. Paid
    BY <1>2, <1>3 DEF Paid
<1>7. WithinTokenLimit
  <2>1. Len(history) + c <= 0
      BY <1>2, <1>3
  <2>2. WithinTokenLimit <=> (TokenLimit # None => Len(history) + c <= TokenLimit)
      BY DEF WithinTokenLimit, InFlight
  <2> HIDE DEF c
  <2> QED
      BY <1>2, <1>3, <1>5, <2>1, <2>2 DEF c
<1> QED
    BY <1>6, <1>7

LEMMA TokenNext ==
    ASSUME Inv, Paid, WithinTokenLimit, [Next]_vars
    PROVE  Paid' /\ WithinTokenLimit'
<1>1. CASE UNCHANGED vars
  <2>1. InFlight' = InFlight
      BY <1>1 DEF vars, InFlight
  <2>2. UNCHANGED <<engine, tokensUsed, history>>
      BY <1>1 DEF vars
  <2>3. Cardinality(InFlight') <= Cardinality(InFlight) /\ Len(history') = Len(history)
      BY <2>1, <2>2, InFlightFinite
  <2> QED
      BY <2>2, <2>3, QuietStep
<1>2. ASSUME NEW t \in Task, Request(t) \/ Proceed(t) PROVE Paid' /\ WithinTokenLimit'
  <2>1. CASE Meter(t)
      BY <2>1, MeterStep
  <2>2. CASE RecordConfidence(t)
      BY <2>2, RecordStep
  <2>3. CASE ~Meter(t) /\ ~RecordConfidence(t)
      BY <1>2, <2>3, OtherSteps, QuietStep
  <2> QED
      BY <2>1, <2>2, <2>3
<1> QED
    BY <1>1, <1>2 DEF Next

\* However the tasks interleave between taking a token, checking the limit and
\* recording the update, max_tokens_per_session of the first contract bounds
\* the updates recorded and in flight together.
THEOREM TokensBoundUpdates == Spec => []WithinTokenLimit
<1>1. Init => Paid /\ WithinTokenLimit
    BY TokenInit
<1>2. Inv /\ (Paid /\ WithinTokenLimit) /\ [Next]_vars => (Paid /\ WithinTokenLimit)'
    BY TokenNext
<1> QED
    BY <1>1, <1>2, Invariance, PTL DEF Spec

-----------------------------------------------------------------------------
(* What an update that post_update lets through has done *)

\* Nothing but the counts of violations differs.
Same(s, t) ==
    /\ t.quad = s.quad /\ t.checkpoints = s.checkpoints /\ t.outcome = s.outcome
    /\ t.log.recoveries = s.log.recoveries

\* The quad is one of the checkpoints, or has the contract's floor.
Redone(s, t, recovery) ==
    \/ \E j \in DOMAIN s.checkpoints : t.quad = s.checkpoints[j].quad
    \/ recovery.policy = "DegradeAndContinue" /\ t.quad = Floored(s.quad, recovery.arg)

\* The first recovery of an update.
FirstRecovery(s, t, recovery) ==
    /\ ~s.outcome /\ t.outcome /\ t.log.recoveries = s.log.recoveries + 1
    /\ Redone(s, t, recovery)

\* The checkpoints are gone, or they and the quad's version stay.
Lineage(s, t) ==
    \/ t.checkpoints = <<>>
    \/ t.checkpoints = s.checkpoints /\ t.quad.version = s.quad.version

LEMMA ErrorsApart == None \notin Errors
BY RuntimeAssumption DEF Errors

LEMMA RecoveryOutcome ==
    ASSUME NEW s \in EngineStates, NEW recovery \in RecoveryPolicy, NEW cp,
           ~s.outcome, s.error = None
    PROVE  LET t == ExecuteRecovery(s, recovery, cp)
           IN  Lineage(s, t) /\ (t.error = None => FirstRecovery(s, t, recovery))
<1> DEFINE t == ExecuteRecovery(s, recovery, cp)
<1>1. QuadInv(s.quad) /\ s.checkpoints \in Seq(Marks)
    BY DEF EngineStates, Sound
<1>2. CASE recovery.policy = "DegradeAndContinue"
  <2> DEFINE q == Floored(s.quad, recovery.arg)
             u == [s EXCEPT !.quad = q]
  <2>1. recovery.arg \in Conf
      BY <1>2 DEF RecoveryPolicy
  <2>2. QuadInv(q) /\ q.version = s.quad.version
      BY <1>1, <2>1, FlooredInv
  <2>3. t = Recovered(u)
      BY <1>2 DEF ExecuteRecovery
  <2> HIDE DEF q, t
  <2>4. /\ u \in EngineStates /\ u.quad = q /\ u.checkpoints = s.checkpoints
        /\ u.log = s.log
      BY <2>2, SoundQuads DEF EngineStates
  <2> HIDE DEF u
  <2>5. /\ t.quad = q /\ t.outcome = TRUE /\ t.checkpoints = s.checkpoints
        /\ t.log.recoveries = s.log.recoveries + 1
      BY <2>3, <2>4, RecoveredType
  <2>6. Redone(s, t, recovery)
      BY <1>2, <2>5 DEF Redone, q
  <2> QED
      BY <2>2, <2>5, <2>6 DEF Lineage, FirstRecovery, t
<1>3. CASE recovery.policy = "EmitCausalDiffAndHalt"
  <2>1. t = [s EXCEPT !.error = "ContractHalt"]
      BY <1>3 DEF ExecuteRecovery
  <2>2. t.error # None /\ t.checkpoints = s.checkpoints /\ t.quad = s.quad
      BY <2>1, ErrorsApart DEF EngineStates, Errors
  <2> HIDE DEF t
  <2> QED
      BY <2>2 DEF Lineage, t
<1>4. CASE recovery.policy \notin {"DegradeAndContinue", "EmitCausalDiffAndHalt"}
  <2> DEFINE out == Rollback(s.quad, s.checkpoints, RollbackTarget(recovery, s.checkpoints, cp))
             u   == [s EXCEPT !.quad = out.quad, !.checkpoints = out.checkpoints]
             e   == [s EXCEPT !.error = "RecoveryFailed"]
  <2>1. QuadInv(out.quad) /\ out.checkpoints \in Seq(Marks)
      BY <1>1, RollbackType
  <2>2. /\ \/ out.quad = s.quad /\ out.checkpoints = s.checkpoints
           \/ out.checkpoints = <<>>
        /\ out.result = "Ok" => \E j \in DOMAIN s.checkpoints : out.quad = s.checkpoints[j].quad
      BY RollbackOutcome
  <2>3. t = IF out.result = "Ok" THEN Recovered(u) ELSE e
      BY <1>4 DEF ExecuteRecovery
  <2> HIDE DEF out, t
  <2>4. /\ u \in EngineStates /\ u.quad = out.quad /\ u.checkpoints = out.checkpoints
        /\ u.log = s.log
      BY <2>1, SoundQuads DEF EngineStates
  <2>5. e.error # None /\ e.checkpoints = s.checkpoints /\ e.quad = s.quad
      BY ErrorsApart DEF EngineStates, Errors
  <2> HIDE DEF u, e
  <2>6. CASE out.result = "Ok"
    <3>1. /\ t.quad = out.quad /\ t.outcome = TRUE /\ t.checkpoints = out.checkpoints
          /\ t.log.recoveries = s.log.recoveries + 1
        BY <2>3, <2>4, <2>6, RecoveredType
    <3>2. Redone(s, t, recovery)
        BY <2>2, <2>6, <3>1 DEF Redone
    <3> QED
        BY <2>2, <3>1, <3>2 DEF Lineage, FirstRecovery, t
  <2>7. CASE out.result # "Ok"
      BY <2>3, <2>5, <2>7 DEF Lineage, t
  <2> QED
      BY <2>6, <2>7
<1> QED
    BY <1>2, <1>3, <1>4

\* One violation: nothing but a count, or the update's first recovery, which
\* no Hard violation goes without, or an error.
LEMMA HandleOutcome ==
    ASSUME NEW s \in EngineStates, NEW class \in {"Soft", "Hard", "Critical"},
           NEW recovery \in RecoveryPolicy, NEW cp
    PROVE  LET t == Handle(s, class, recovery, cp)
           IN  /\ Lineage(s, t)
               /\ t.error = None =>
                    /\ s.error = None
                    /\ \/ Same(s, t) /\ (class = "Soft" \/ s.outcome)
                       \/ FirstRecovery(s, t, recovery)
<1> DEFINE t == Handle(s, class, recovery, cp)
<1>1. ASSUME NEW field \in {"soft", "hard", "critical"}
      PROVE  /\ Count(s, field) \in EngineStates /\ Same(s, Count(s, field))
             /\ Lineage(s, Count(s, field))
  <2> DEFINE u == Count(s, field)
  <2>1. /\ u \in EngineStates /\ u.quad = s.quad /\ u.checkpoints = s.checkpoints
        /\ u.outcome = s.outcome /\ u.log = [s.log EXCEPT ![field] = @ + 1]
    <3>1. field \in {"soft", "hard", "critical", "recoveries"}
        OBVIOUS
    <3> QED
        BY <3>1, CountType, Zenon
  <2> HIDE DEF u
  <2>2. u.log.recoveries = s.log.recoveries
      BY <2>1 DEF EngineStates, Logs
  <2> QED
      BY <2>1, <2>2 DEF Same, Lineage, u
<1>2. CASE s.error # None
  <2>1. t = s
      BY <1>2 DEF Handle
  <2> QED
      BY <1>2, <2>1 DEF Lineage
<1>3. CASE s.error = None /\ class = "Soft"
  <2>1. t = Count(s, "soft")
      BY <1>3 DEF Handle
  <2> QED
      BY <1>1, <1>3, <2>1
<1>4. CASE s.error = None /\ class = "Hard" /\ s.outcome
  <2>1. t = Count(s, "hard")
      BY <1>4 DEF Handle
  <2> QED
      BY <1>1, <1>4, <2>1
<1>5. CASE s.error = None /\ class = "Hard" /\ ~s.outcome
  <2>1. t = ExecuteRecovery(s, recovery, cp)
      BY <1>5 DEF Handle
  <2> HIDE DEF t
  <2>2. Lineage(s, t) /\ (t.error = None => FirstRecovery(s, t, recovery))
      BY <1>5, <2>1, RecoveryOutcome
  <2> QED
      BY <1>5, <2>2 DEF t
<1>6. CASE s.error = None /\ class = "Critical"
  <2> DEFINE u == Count(s, "critical")
  <2>1. t = [u EXCEPT !.error = "ContractHalt"]
      BY <1>6 DEF Handle
  <2>2. u \in EngineStates /\ Lineage(s, u)
      BY <1>1
  <2> HIDE DEF t, u
  <2>3. t.error = "ContractHalt" /\ t.quad = u.quad /\ t.checkpoints = u.checkpoints
      BY <2>1, <2>2 DEF EngineStates
  <2>4. t.error # None
      BY <2>3, ErrorsApart DEF Errors
  <2>5. Lineage(s, t)
      BY <2>2, <2>3 DEF Lineage
  <2> QED
      BY <2>4, <2>5 DEF t
<1> QED
    BY <1>2, <1>3, <1>4, <1>5, <1>6

LEMMA LineageTrans ==
    ASSUME NEW s, NEW t, NEW u, Lineage(s, t), Lineage(t, u)
    PROVE  Lineage(s, u)
BY DEF Lineage

\* Of a contract, what is violated in a quad is Soft.
Satisfied(contract, q) ==
    \A k \in CollectAllViolations(contract, q) : contract.invariants[k].class = "Soft"

\* One contract: when nothing ends the update and no recovery is executed, no
\* Hard and no Critical invariant of it was violated.
LEMMA EnforceOutcome ==
    ASSUME NEW s \in EngineStates, NEW contract \in Contract, NEW cp
    PROVE  LET t == Enforce(s, contract, cp)
           IN  /\ Lineage(s, t)
               /\ t.error = None =>
                    /\ s.error = None
                    /\ \/ Same(s, t) /\ (Satisfied(contract, s.quad) \/ s.outcome)
                       \/ FirstRecovery(s, t, contract.recovery)
<1> DEFINE n == Len(contract.invariants)
           violated == CollectAllViolations(contract, s.quad)
           recovery == contract.recovery
           Soft(i) == \A k \in violated : k <= i => contract.invariants[k].class = "Soft"
           SoFar(t, i) ==
             /\ Lineage(s, t)
             /\ t.error = None =>
                  /\ s.error = None
                  /\ \/ Same(s, t) /\ (Soft(i) \/ s.outcome)
                     \/ FirstRecovery(s, t, recovery)
<1>1. PICK f : EnforceRun(f, s, contract, cp)
    BY EnforceRuns
<1>2. /\ n \in Nat /\ recovery \in RecoveryPolicy /\ violated \subseteq 1 .. n
      /\ \A i \in 1 .. n : contract.invariants[i].class \in {"Soft", "Hard", "Critical"}
  <2>1. contract.invariants \in Seq(Invariant) /\ recovery \in RecoveryPolicy
      BY DEF Contract
  <2>2. \A inv \in Invariant : inv.class \in {"Soft", "Hard", "Critical"}
      BY DEF Invariant
  <2>3. \A i \in 1 .. n : contract.invariants[i] \in Invariant
      BY <2>1
  <2> QED
      BY <2>1, <2>2, <2>3 DEF CollectAllViolations
<1>3. /\ f[0] = s /\ \A i \in 0 .. n : f[i] \in EngineStates
      /\ \A i \in 1 .. n : f[i] = Handled(f[i - 1], contract, violated, i, cp)
      /\ Enforce(s, contract, cp) = f[n]
    BY <1>1 DEF EnforceRun
<1> HIDE DEF n, violated, recovery
<1> DEFINE T == {i \in 0 .. n : SoFar(f[i], i)}
<1>4. 0 \in T
  <2>1. Soft(0)
    <3>1. \A k \in violated : k \in 1 .. n /\ ~(k <= 0)
        BY <1>2
    <3> QED
        BY <3>1
  <2>2. Lineage(s, s) /\ Same(s, s)
      BY DEF Lineage, Same
  <2> QED
      BY <1>2, <1>3, <2>1, <2>2
<1>5. ASSUME NEW i \in 0 .. n - 1, i \in T PROVE i + 1 \in T
  <2> DEFINE j == i + 1
             t == f[i]
             u == f[j]
             class == contract.invariants[j].class
  <2>1. j \in 1 .. n /\ j \in 0 .. n /\ i \in 0 .. n /\ j - 1 = i
      BY <1>2
  <2>2. u = Handled(t, contract, violated, j, cp) /\ t \in EngineStates
      BY <1>3, <2>1
  <2>3. class \in {"Soft", "Hard", "Critical"}
      BY <1>2, <2>1
  <2>4. SoFar(t, i)
      BY <1>5
  <2>5. Soft(i) /\ (j \in violated => class = "Soft") => Soft(j)
    <3>1. \A k \in violated : k <= j => k <= i \/ k = j
        BY <1>2, <2>1
    <3> QED
        BY <3>1
  <2> HIDE DEF Soft, j, t, u, class
  <2>6. CASE j \notin violated
    <3>1. u = t
        BY <2>2, <2>6 DEF Handled
    <3> QED
        BY <2>1, <2>4, <2>5, <2>6, <3>1 DEF j, u
  <2>7. CASE j \in violated
    <3>1. u = Handle(t, class, recovery, cp)
        BY <2>2, <2>7 DEF Handled, class, recovery
    <3>2. /\ Lineage(t, u)
          /\ u.error = None =>
               /\ t.error = None
               /\ \/ Same(t, u) /\ (class = "Soft" \/ t.outcome)
                  \/ FirstRecovery(t, u, recovery)
        BY <1>2, <2>2, <2>3, <3>1, HandleOutcome
    <3>3. Lineage(s, u)
        BY <2>4, <3>2, LineageTrans
    <3>4. ASSUME u.error = None
          PROVE  /\ s.error = None
                 /\ \/ Same(s, u) /\ (Soft(j) \/ s.outcome)
                    \/ FirstRecovery(s, u, recovery)
      <4>1. CASE Same(s, t) /\ (Soft(i) \/ s.outcome) /\ Same(t, u)
        <5>1. Same(s, u)
            BY <4>1 DEF Same
        <5>2. class = "Soft" \/ t.outcome \/ FirstRecovery(t, u, recovery)
            BY <3>2, <3>4
        <5>3. FirstRecovery(t, u, recovery) => ~t.outcome /\ u.outcome
            BY DEF FirstRecovery
        <5>4. class = "Soft" \/ s.outcome
            BY <4>1, <5>2, <5>3 DEF Same
        <5> QED
            BY <2>4, <2>5, <3>2, <3>4, <4>1, <5>1, <5>4
      <4>2. CASE Same(s, t) /\ FirstRecovery(t, u, recovery)
        <5>1. FirstRecovery(s, u, recovery)
            BY <4>2 DEF Same, FirstRecovery, Redone
        <5> QED
            BY <2>4, <3>2, <3>4, <5>1
      <4>3. CASE FirstRecovery(s, t, recovery)
        <5>1. Same(t, u)
            BY <3>2, <3>4, <4>3 DEF FirstRecovery
        <5>2. FirstRecovery(s, u, recovery)
            BY <4>3, <5>1 DEF Same, FirstRecovery, Redone
        <5> QED
            BY <2>4, <3>2, <3>4, <5>2
      <4> QED
          BY <2>4, <3>2, <3>4, <4>1, <4>2, <4>3
    <3> QED
        BY <2>1, <3>3, <3>4 DEF j, u
  <2> QED
      BY <2>6, <2>7 DEF j
<1> HIDE DEF T, SoFar
<1>6. 0 .. n \subseteq T
    BY <1>2, <1>4, <1>5, SegmentInduction
<1>7. SoFar(f[n], n)
    BY <1>2, <1>6 DEF T
<1>8. Soft(n) => Satisfied(contract, s.quad)
    BY <1>2 DEF Satisfied, violated
<1> HIDE DEF Soft
<1> QED
    BY <1>3, <1>7, <1>8 DEF SoFar, recovery

\* All contracts: an update that is let through satisfies them as it is, or has
\* had its one recovery.
LEMMA PostUpdateOutcome ==
    ASSUME NEW attached \in Seq(Contract), NEW q, QuadInv(q), NEW list \in Seq(Marks),
           NEW counts \in Logs, NEW cp
    PROVE  LET s == EngineStart(q, list, counts)
               t == PostUpdate(attached, q, list, counts, cp)
           IN  /\ Lineage(s, t)
               /\ t.error = None =>
                    \/ Same(s, t) /\ \A k \in DOMAIN attached : Satisfied(attached[k], q)
                    \/ \E k \in DOMAIN attached : FirstRecovery(s, t, attached[k].recovery)
<1> DEFINE n == Len(attached)
           s == EngineStart(q, list, counts)
           All(i) == \A k \in 1 .. n : k <= i => Satisfied(attached[k], q)
           Once(t) == \E k \in 1 .. n : FirstRecovery(s, t, attached[k].recovery)
           SoFar(t, i) ==
             /\ Lineage(s, t)
             /\ t.error = None => \/ Same(s, t) /\ All(i)
                                 \/ Once(t)
<1>1. PICK f : PostUpdateRun(f, attached, q, list, counts, cp)
    BY PostUpdateRuns
<1>2. n \in Nat /\ DOMAIN attached = 1 .. n /\ \A i \in 1 .. n : attached[i] \in Contract
    OBVIOUS
<1>3. /\ f[0] = s /\ \A i \in 0 .. n : f[i] \in EngineStates
      /\ \A i \in 1 .. n : f[i] = Enforce(f[i - 1], attached[i], cp)
      /\ PostUpdate(attached, q, list, counts, cp) = f[n]
    BY <1>1 DEF PostUpdateRun
<1>4. s.quad = q /\ ~s.outcome
    BY DEF EngineStart
<1> HIDE DEF n, s
<1> DEFINE T == {i \in 0 .. n : SoFar(f[i], i)}
<1>5. 0 \in T
  <2>1. All(0)
    <3>1. \A k \in 1 .. n : ~(k <= 0)
        BY <1>2
    <3> QED
        BY <3>1
  <2>2. Lineage(s, s) /\ Same(s, s)
      BY DEF Lineage, Same
  <2> QED
      BY <1>2, <1>3, <2>1, <2>2
<1>6. ASSUME NEW i \in 0 .. n - 1, i \in T PROVE i + 1 \in T
  <2> DEFINE j == i + 1
             t == f[i]
             u == f[j]
             contract == attached[j]
  <2>1. j \in 1 .. n /\ j \in 0 .. n /\ i \in 0 .. n /\ j - 1 = i
      BY <1>2
  <2>2. u = Enforce(t, contract, cp) /\ t \in EngineStates /\ contract \in Contract
      BY <1>2, <1>3, <2>1
  <2>3. SoFar(t, i)
      BY <1>6
  <2>4. All(i) /\ Satisfied(contract, q) => All(j)
    <3>1. \A k \in 1 .. n : k <= j => k <= i \/ k = j
        BY <1>2, <2>1
    <3> QED
        BY <3>1
  <2> HIDE DEF All, t, u
  <2>5. /\ Lineage(t, u)
        /\ u.error = None =>
             /\ t.error = None
             /\ \/ Same(t, u) /\ (Satisfied(contract, t.quad) \/ t.outcome)
                \/ FirstRecovery(t, u, contract.recovery)
    <3> HIDE DEF contract
    <3> QED
        BY <2>2, EnforceOutcome
  <2>6. Lineage(s, u)
      BY <2>3, <2>5, LineageTrans
  <2>7. ASSUME u.error = None
        PROVE  \/ Same(s, u) /\ All(j)
               \/ Once(u)
    <3>1. CASE Same(s, t) /\ All(i) /\ Same(t, u) /\ (Satisfied(contract, t.quad) \/ t.outcome)
      <4>1. Same(s, u)
          BY <3>1 DEF Same
      <4>2. Satisfied(contract, q)
          BY <1>4, <3>1 DEF Same
      <4> QED
          BY <2>4, <3>1, <4>1, <4>2
    <3>2. CASE Same(s, t) /\ FirstRecovery(t, u, contract.recovery)
      <4>1. FirstRecovery(s, u, contract.recovery)
          BY <3>2 DEF Same, FirstRecovery, Redone
      <4> QED
          BY <2>1, <4>1
    <3>3. CASE Once(t)
      <4>1. PICK k \in 1 .. n : FirstRecovery(s, t, attached[k].recovery)
          BY <3>3
      <4>2. Same(t, u)
          BY <2>5, <2>7, <4>1 DEF FirstRecovery
      <4>3. FirstRecovery(s, u, attached[k].recovery)
          BY <4>1, <4>2 DEF Same, FirstRecovery, Redone
      <4> QED
          BY <4>3
    <3> HIDE DEF Once
    <3> QED
        BY <2>3, <2>5, <2>7, <3>1, <3>2, <3>3
  <2> HIDE DEF Once
  <2> QED
      BY <2>1, <2>6, <2>7 DEF j, u
<1> HIDE DEF T, SoFar
<1>7. 0 .. n \subseteq T
    BY <1>2, <1>5, <1>6, SegmentInduction
<1>8. SoFar(f[n], n)
    BY <1>2, <1>7 DEF T
<1>9. All(n) => \A k \in DOMAIN attached : Satisfied(attached[k], q)
    BY <1>2
<1> HIDE DEF All
<1>10. /\ Lineage(s, f[n])
       /\ f[n].error = None =>
            \/ Same(s, f[n]) /\ \A k \in DOMAIN attached : Satisfied(attached[k], q)
            \/ \E k \in DOMAIN attached : FirstRecovery(s, f[n], attached[k].recovery)
    BY <1>2, <1>8, <1>9 DEF SoFar
<1> QED
    BY <1>3, <1>10 DEF s

\* No checkpoint is newer than the quad: rolling back drops them all, and
\* nothing else takes the version back.
NoneNewer == \A i \in DOMAIN checkpoints : checkpoints[i].quad.version <= quad.version

\* What a step does to the checkpoints and the version.
LEMMA CheckpointSteps ==
    ASSUME Inv, NEW t \in Task, Request(t) \/ Proceed(t)
    PROVE  \/ checkpoints' = <<>>
           \/ checkpoints' = checkpoints /\ quad.version <= quad'.version
           \/ quad' = quad /\ checkpoints' = Append(checkpoints, [id |-> nextCp, quad |-> quad])
<1> DEFINE Goal == \/ checkpoints' = <<>>
                   \/ checkpoints' = checkpoints /\ quad.version <= quad'.version
                   \/ /\ quad' = quad
                      /\ checkpoints' = Append(checkpoints, [id |-> nextCp, quad |-> quad])
<1> USE DEF Inv
<1>1. quad.version \in Nat
    BY DEF QuadInv, IsQuad
<1>2. ASSUME UNCHANGED <<quad, checkpoints>> PROVE Goal
    BY <1>1, <1>2
<1>3. ASSUME NEW cp, RollbackTo(t, cp) PROVE Goal
  <2> DEFINE out == Rollback(quad, checkpoints, cp)
  <2>1. \/ out.quad = quad /\ out.checkpoints = checkpoints
        \/ out.checkpoints = <<>>
      BY RollbackOutcome
  <2>2. quad' = out.quad /\ checkpoints' = out.checkpoints
      BY <1>3 DEF RollbackTo
  <2> HIDE DEF out
  <2> QED
      BY <1>1, <2>1, <2>2
<1>4. CASE Request(t)
  <2>1. ASSUME NEW k, NEW v, NEW c, SetBelief(t, k, v, c) PROVE Goal
      BY <1>2, <2>1 DEF SetBelief
  <2>2. CASE Checkpoint(t)
      BY <2>2 DEF Checkpoint
  <2> QED
      BY <1>3, <1>4, <2>1, <2>2 DEF Request
<1>5. CASE InsertNode(t)
  <2> DEFINE node == [key |-> task[t].key, value |-> task[t].value,
                      fast |-> task[t].conf, slow |-> None]
  <2>1. quad' = Insert(quad, node) /\ checkpoints' = checkpoints
      BY <1>5 DEF InsertNode
  <2> HIDE DEF node
  <2>2. quad'.version = quad.version + 1
      BY <2>1 DEF Insert
  <2> QED
      BY <1>1, <2>1, <2>2
<1>6. CASE ReviseAndPropagate(t)
  <2> DEFINE id == task[t].id
             v  == task[t].value
             c  == task[t].conf
  <2>1. id \in BeliefId /\ v \in Value /\ c \in Int
    <3>1. FrameOK(task[t]) /\ task[t].pc = "revise"
        BY <1>6 DEF TasksOK, ReviseAndPropagate
    <3> QED
        BY <3>1 DEF FrameOK, Frames
  <2>2. PICK out \in Revise(quad, id, v, c) :
          \/ quad' = out.quad
          \/ \E decay \in [Live(out.quad) -> Decays] : quad' \in Propagate(out.quad, decay, id)
      BY <1>6 DEF ReviseAndPropagate
  <2>3. checkpoints' = checkpoints
      BY <1>6 DEF ReviseAndPropagate
  <2> HIDE DEF id, v, c
  <2>4. QuadInv(out.quad) /\ quad.version <= out.quad.version
      BY <2>1, ReviseInv, ReviseLater DEF Later
  <2>5. CASE \E decay \in [Live(out.quad) -> Decays] : quad' \in Propagate(out.quad, decay, id)
    <3>1. PICK decay \in [Live(out.quad) -> Decays] : quad' \in Propagate(out.quad, decay, id)
        BY <2>5
    <3>2. Decaying(out.quad, decay)
        BY RuntimeAssumption DEF Decaying
    <3>3. quad'.version = out.quad.version
        BY <2>1, <2>4, <3>1, <3>2, PropagateInv
    <3> QED
        BY <2>3, <2>4, <3>3
  <2> QED
      BY <2>2, <2>3, <2>4, <2>5
<1>7. CASE EnforceContracts(t)
  <2> DEFINE s == EngineStart(quad, checkpoints, log)
             r == PostUpdate(contracts, quad, checkpoints, log, task[t].cp)
  <2>1. Lineage(s, r)
      BY ContractsType, PostUpdateOutcome DEF SharedOK
  <2>2. quad' = r.quad /\ checkpoints' = r.checkpoints
      BY <1>7 DEF EnforceContracts
  <2>3. s.quad = quad /\ s.checkpoints = checkpoints
      BY DEF EngineStart
  <2> HIDE DEF s, r
  <2> QED
      BY <1>1, <2>1, <2>2, <2>3 DEF Lineage
<1>8. CASE PreRevisionCheckpoint(t)
    BY <1>8 DEF PreRevisionCheckpoint
<1>9. CASE IndexKey(t) \/ Admit(t) \/ Meter(t) \/ MarkWrong(t) \/ RecordConfidence(t)
    BY <1>2, <1>9 DEF IndexKey, Admit, Meter, MarkWrong, RecordConfidence
<1>10. CASE Proceed(t)
    BY <1>5, <1>6, <1>7, <1>8, <1>9, <1>10, Zenon DEF Proceed
<1> QED
    BY <1>4, <1>10, Zenon

LEMMA NoneNewerKept == Inv /\ NoneNewer /\ [Next]_vars => NoneNewer'
<1>1. ASSUME Inv, NoneNewer, NEW t \in Task, Request(t) \/ Proceed(t) PROVE NoneNewer'
  <2>1. CASE checkpoints' = <<>>
      BY <2>1 DEF NoneNewer
  <2>2. \A i \in DOMAIN checkpoints : checkpoints[i].quad.version \in Nat
    <3>1. \A m \in Marks : m.quad.version \in Nat
        BY DEF Marks, Sound, QuadInv, IsQuad
    <3>2. \A i \in DOMAIN checkpoints : checkpoints[i] \in Marks
        BY <1>1 DEF Inv
    <3> QED
        BY <3>1, <3>2
  <2>3. QuadInv(quad) /\ QuadInv(quad') /\ quad.version \in Nat /\ quad'.version \in Nat
      BY <1>1, RequestInv, ProceedInv DEF Inv, QuadInv, IsQuad
  <2>4. CASE checkpoints' = checkpoints /\ quad.version <= quad'.version
      BY <1>1, <2>2, <2>3, <2>4 DEF NoneNewer
  <2>5. CASE quad' = quad /\ checkpoints' = Append(checkpoints, [id |-> nextCp, quad |-> quad])
    <3> DEFINE mark == [id |-> nextCp, quad |-> quad]
               n == Len(checkpoints)
    <3>1. checkpoints \in Seq(Marks) /\ mark.quad = quad
        BY <1>1 DEF Inv
    <3> HIDE DEF mark
    <3>2. /\ DOMAIN Append(checkpoints, mark) = 1 .. n + 1 /\ DOMAIN checkpoints = 1 .. n
          /\ \A i \in 1 .. n + 1 :
               Append(checkpoints, mark)[i] = IF i = n + 1 THEN mark ELSE checkpoints[i]
          /\ n \in Nat
        BY <3>1
    <3>3. checkpoints' = Append(checkpoints, mark)
        BY <2>5 DEF mark
    <3> HIDE DEF n
    <3> SUFFICES ASSUME NEW i \in 1 .. n + 1
                 PROVE  checkpoints'[i].quad.version <= quad'.version
        BY <3>2, <3>3 DEF NoneNewer
    <3>4. CASE i = n + 1
        BY <2>3, <2>5, <3>1, <3>2, <3>3, <3>4
    <3>5. CASE i # n + 1
      <4>1. i \in DOMAIN checkpoints /\ checkpoints'[i] = checkpoints[i]
          BY <3>2, <3>3, <3>5
      <4> QED
          BY <1>1, <2>5, <4>1 DEF NoneNewer
    <3> QED
        BY <3>4, <3>5
  <2> QED
      BY <1>1, <2>1, <2>4, <2>5, CheckpointSteps
<1>2. ASSUME NoneNewer, UNCHANGED vars PROVE NoneNewer'
    BY <1>2 DEF NoneNewer, vars
<1> QED
    BY <1>1, <1>2 DEF Next

\* A task whose update is past its revision moves by the engine's verdict alone.
LEMMA OwnStep ==
    ASSUME Inv, Next, NEW t \in Task, task[t].pc = "post", task'[t].pc # "post"
    PROVE  EnforceContracts(t)
<1>1. PICK u \in Task : Request(u) \/ Proceed(u)
    BY DEF Next
<1>2. u = t
  <2>1. \E f : task' = [task EXCEPT ![u] = f]
    <3> DEFINE Moves == \E f : task' = [task EXCEPT ![u] = f]
    <3>1. ASSUME NEW r, Return(u, r) PROVE Moves
        BY <3>1 DEF Return
    <3>2. ASSUME NEW pc, Goto(u, pc) PROVE Moves
        BY <3>2 DEF Goto
    <3>3. ASSUME NEW k, NEW v, NEW c, SetBelief(u, k, v, c) PROVE Moves
        BY <3>3 DEF SetBelief
    <3>4. ASSUME InsertNode(u) PROVE Moves
        BY <3>4 DEF InsertNode
    <3>5. ASSUME PreRevisionCheckpoint(u) PROVE Moves
        BY <3>5 DEF PreRevisionCheckpoint
    <3>6. ASSUME ReviseAndPropagate(u) PROVE Moves
        BY <3>1, <3>6 DEF ReviseAndPropagate
    <3>7. ASSUME EnforceContracts(u) PROVE Moves
      <4>1. \/ \E r : Return(u, r)
            \/ \E pc : Goto(u, pc)
          BY <3>7, Zenon DEF EnforceContracts
      <4> QED
          BY <3>1, <3>2, <4>1
    <3> HIDE DEF Moves
    <3>8. ASSUME Request(u) PROVE Moves
        BY <3>1, <3>3, <3>8 DEF Request, Checkpoint, RollbackTo
    <3>9. ASSUME IndexKey(u) \/ Admit(u) \/ Meter(u) \/ MarkWrong(u) \/ RecordConfidence(u)
          PROVE  Moves
        BY <3>1, <3>2, <3>9 DEF IndexKey, Admit, Meter, MarkWrong, RecordConfidence
    <3>10. ASSUME Proceed(u) PROVE Moves
        BY <3>4, <3>5, <3>6, <3>7, <3>9, <3>10, Zenon DEF Proceed
    <3>11. Moves
        BY <1>1, <3>8, <3>10
    <3> QED
        BY <3>11 DEF Moves
  <2> QED
      BY <2>1 DEF Inv, TasksOK
<1>3. ~Request(t)
    BY DEF Request, SetBelief, Checkpoint, RollbackTo, Begin
<1> QED
    BY <1>1, <1>2, <1>3 DEF Proceed, InsertNode, IndexKey, Admit, Meter,
       PreRevisionCheckpoint, ReviseAndPropagate, MarkWrong, RecordConfidence

\* An update that post_update lets through has its Hard and Critical invariants
\* true, or one recovery behind it, whatever contracts are attached and
\* whatever other tasks did since the revision.
THEOREM UpdatesEnforced == Spec => UpdateEnforced
<1> DEFINE Enforced(t) ==
             (task[t].pc = "post" /\ task'[t].pc \in {"mark", "record"}) =>
               \/ AllEnforced(quad')
               \/ /\ log'.recoveries = log.recoveries + 1
                  /\ \/ quad' \in Snapshots /\ quad'.version <= quad.version
                     \/ \E i \in DOMAIN contracts :
                          /\ contracts[i].recovery.policy = "DegradeAndContinue"
                          /\ quad' = Floored(quad, contracts[i].recovery.arg)
<1>1. ASSUME Inv, NoneNewer, Next, NEW t \in Task PROVE Enforced(t)
  <2> SUFFICES ASSUME task[t].pc = "post", task'[t].pc \in {"mark", "record"}
               PROVE  Enforced(t)
      OBVIOUS
  <2>1. EnforceContracts(t)
      BY <1>1, OwnStep
  <2> DEFINE s == EngineStart(quad, checkpoints, log)
             r == PostUpdate(contracts, quad, checkpoints, log, task[t].cp)
  <2>2. /\ quad' = r.quad /\ log' = r.log /\ contracts' = contracts
        /\ IF r.error # None THEN Return(t, r.error)
           ELSE Goto(t, IF task[t].contradicted THEN "mark" ELSE "record")
      BY <2>1 DEF EnforceContracts, contracts
  <2>3. r.error = None
    <3>1. ASSUME r.error # None PROVE FALSE
      <4>1. task' = [task EXCEPT ![t] = Idle(r.error)]
          BY <2>2, <3>1 DEF Return
      <4>2. task'[t].pc = "idle"
          BY <1>1, <4>1 DEF Idle, Frame, Inv, TasksOK
      <4> QED
          BY <4>2
    <3> QED
        BY <3>1
  <2>4. /\ Lineage(s, r)
        /\ \/ Same(s, r) /\ \A k \in DOMAIN contracts : Satisfied(contracts[k], quad)
           \/ \E k \in DOMAIN contracts : FirstRecovery(s, r, contracts[k].recovery)
      BY <1>1, <2>3, ContractsType, PostUpdateOutcome DEF Inv, SharedOK
  <2>5. s.quad = quad /\ s.checkpoints = checkpoints /\ s.log = log
      BY DEF EngineStart
  <2> HIDE DEF s, r
  <2>6. CASE Same(s, r) /\ \A k \in DOMAIN contracts : Satisfied(contracts[k], quad)
    <3>1. quad' = quad
        BY <2>2, <2>5, <2>6 DEF Same
    <3>2. AllEnforced(quad')
      <4> SUFFICES ASSUME NEW k \in DOMAIN contracts, NEW inv \in Range(contracts[k].invariants),
                          inv.class # "Soft"
                   PROVE  Evaluate(inv.pred, quad)
          BY <2>2, <3>1 DEF AllEnforced
      <4>1. PICK j \in DOMAIN contracts[k].invariants : inv = contracts[k].invariants[j]
          BY DEF Range
      <4>2. j \notin CollectAllViolations(contracts[k], quad)
          BY <2>6, <4>1 DEF Satisfied
      <4> QED
          BY <4>1, <4>2 DEF CollectAllViolations
    <3> QED
        BY <3>2
  <2>7. CASE \E k \in DOMAIN contracts : FirstRecovery(s, r, contracts[k].recovery)
    <3>1. PICK k \in DOMAIN contracts : FirstRecovery(s, r, contracts[k].recovery)
        BY <2>7
    <3>2. log'.recoveries = log.recoveries + 1
        BY <2>2, <2>5, <3>1 DEF FirstRecovery
    <3>3. CASE \E j \in DOMAIN checkpoints : quad' = checkpoints[j].quad
      <4>1. quad' \in Snapshots /\ quad'.version <= quad.version
          BY <1>1, <3>3 DEF Snapshots, NoneNewer
      <4> QED
          BY <3>2, <4>1
    <3>4. CASE /\ contracts[k].recovery.policy = "DegradeAndContinue"
               /\ quad' = Floored(quad, contracts[k].recovery.arg)
        BY <3>2, <3>4
    <3> QED
        BY <2>2, <2>5, <3>1, <3>3, <3>4 DEF FirstRecovery, Redone
  <2> QED
      BY <2>4, <2>6, <2>7
<1>3. Inv /\ NoneNewer /\ [Next]_vars => [\A t \in Task : Enforced(t)]_vars
    BY <1>1
<1>4. Init => NoneNewer
    BY DEF Init, NoneNewer
<1> HIDE DEF Enforced
<1>5. Spec => [][\A t \in Task : Enforced(t)]_vars
    BY <1>3, <1>4, Invariance, NoneNewerKept, PTL DEF Spec
<1> QED
    BY <1>5 DEF UpdateEnforced, Enforced

-----------------------------------------------------------------------------
(* The server: what its limiter lets through *)

Addresses == {r.header : r \in Requests} \cup {Localhost}

\* An address has what is left of the burst and of the ticks, in whole.
Metering ==
    /\ server.burst \in Nat /\ clock \in Nat
    /\ bucket \in [Addresses -> 0 .. server.burst]
    /\ passed \in [Addresses -> Nat]
    /\ \A a \in Addresses : passed[a] + bucket[a] <= server.burst + clock

LEMMA MeteringInit == GatewayInit => Metering
<1> SUFFICES ASSUME GatewayInit PROVE Metering
    OBVIOUS
<1>1. PICK e \in Environments : server = Boot(e)
    BY DEF GatewayInit
<1>2. server.burst = Burst(e)
    BY <1>1 DEF Boot
<1>3. e.rps \in Nat \cup {None}
    BY GatewayAssumption
<1>4. server.burst \in Nat
    BY <1>2, <1>3 DEF Burst
<1>5. bucket = [a \in Addresses |-> server.burst]
    BY DEF GatewayInit, Addresses
<1>6. passed = [a \in Addresses |-> 0] /\ clock = 0
    BY <1>5 DEF GatewayInit
<1> QED
    BY <1>4, <1>5, <1>6 DEF Metering

LEMMA MeteredKeeps ==
    ASSUME Metering, NEW req \in Requests, Metered(req)
    PROVE  Metering'
<1>1. CASE Exempt(req) \/ Refused(req)
    BY <1>1 DEF Metered, Metering
<1>2. CASE ~Exempt(req) /\ ~Refused(req)
  <2> DEFINE ip == ClientIp(req)
  <2>1. ip \in Addresses
      BY DEF ClientIp, Addresses
  <2>2. bucket[ip] # 0
      BY <1>2 DEF Refused
  <2>3. /\ bucket' = [bucket EXCEPT ![ip] = @ - 1]
        /\ passed' = [passed EXCEPT ![ip] = @ + 1]
        /\ server' = server /\ clock' = clock
      BY <1>2 DEF Metered
  <2> HIDE DEF ip
  <2>4. bucket[ip] - 1 \in 0 .. server.burst /\ passed[ip] + 1 \in Nat
    <3>1. bucket[ip] \in 0 .. server.burst /\ passed[ip] \in Nat /\ server.burst \in Nat
        BY <2>1 DEF Metering
    <3> QED
        BY <2>2, <3>1
  <2>5. bucket' \in [Addresses -> 0 .. server.burst] /\ passed' \in [Addresses -> Nat]
      BY <2>3, <2>4 DEF Metering
  <2>6. ASSUME NEW a \in Addresses
        PROVE  passed'[a] + bucket'[a] <= server.burst + clock
    <3>1. CASE a = ip
      <4>1. bucket'[a] = bucket[a] - 1 /\ passed'[a] = passed[a] + 1
          BY <2>1, <2>3, <3>1 DEF Metering
      <4>2. bucket[a] \in Nat /\ passed[a] \in Nat
          BY DEF Metering
      <4> QED
          BY <4>1, <4>2 DEF Metering
    <3>2. CASE a # ip
      <4>1. bucket'[a] = bucket[a] /\ passed'[a] = passed[a]
          BY <2>1, <2>3, <3>2 DEF Metering
      <4> QED
          BY <4>1 DEF Metering
    <3> QED
        BY <3>1, <3>2
  <2> QED
      BY <2>3, <2>5, <2>6 DEF Metering
<1> QED
    BY <1>1, <1>2

LEMMA TickKeeps ==
    ASSUME Metering, Tick
    PROVE  Metering'
<1> DEFINE b(a) == IF bucket[a] < server.burst THEN bucket[a] + 1 ELSE bucket[a]
<1>1. DOMAIN bucket = Addresses /\ \A a \in Addresses : bucket[a] \in 0 .. server.burst
    BY DEF Metering
<1>2. /\ bucket' = [a \in Addresses |-> b(a)]
      /\ clock' = clock + 1 /\ server' = server /\ passed' = passed
    BY <1>1 DEF Tick
<1>3. \A a \in Addresses : b(a) \in 0 .. server.burst
    BY <1>1 DEF Metering
<1>4. \A a \in Addresses : bucket[a] <= b(a) /\ b(a) <= bucket[a] + 1
    BY <1>1 DEF Metering
<1> HIDE DEF b
<1>5. bucket' \in [Addresses -> 0 .. server.burst]
    BY <1>2, <1>3
<1>6. ASSUME NEW a \in Addresses
      PROVE  passed[a] + bucket'[a] <= server.burst + (clock + 1)
  <2>1. bucket[a] \in Int /\ b(a) \in Int /\ passed[a] \in Int /\ bucket'[a] = b(a)
      BY <1>1, <1>2, <1>3 DEF Metering
  <2> QED
      BY <1>4, <2>1 DEF Metering
<1> QED
    BY <1>2, <1>5, <1>6 DEF Metering

\* Every step meters its request, is the clock's, or leaves the limiter alone.
LEMMA MeteringNext == Metering /\ [GatewayNext]_gatewayVars => Metering'
<1> SUFFICES ASSUME Metering, [GatewayNext]_gatewayVars PROVE Metering'
    OBVIOUS
<1>1. ASSUME UNCHANGED served PROVE Metering'
    BY <1>1 DEF served, Metering
<1>2. ASSUME NEW t \in Task, NEW req \in Requests, Dispatch(t, req) PROVE Metering'
  <2>1. Metered(req)
      BY <1>2 DEF Dispatch, Turned, HandleBeliefSet, HandleCheckpoint, HandleDiff,
             HandleRollback, HandleRead, HandleContractStatus, Api
  <2> QED
      BY <2>1, MeteredKeeps
<1>3. ASSUME NEW t \in Task, Continue(t) \/ AnswerVersion(t) PROVE Metering'
    BY <1>1, <1>3 DEF Continue, AnswerVersion
<1>4. CASE FinalizeSession
    BY <1>1, <1>4 DEF FinalizeSession
<1>5. CASE UNCHANGED gatewayVars
    BY <1>1, <1>5 DEF gatewayVars
<1> QED
    BY <1>2, <1>3, <1>4, <1>5, TickKeeps DEF GatewayNext

\* However requests, refusals and ticks follow each other, no address gets
\* more than the burst and one request per tick.
THEOREM RateLimited == GatewaySpec => []AddressGetsItsShare
<1>1. Metering => AddressGetsItsShare
  <2> SUFFICES ASSUME Metering, NEW a \in DOMAIN bucket
               PROVE  passed[a] <= server.burst + clock
      BY DEF AddressGetsItsShare
  <2>1. a \in Addresses /\ bucket[a] \in Nat /\ passed[a] \in Nat
        /\ passed[a] + bucket[a] <= server.burst + clock
      BY DEF Metering
  <2> QED
      BY <2>1 DEF Metering
<1> QED
    BY <1>1, MeteringInit, MeteringNext, PTL DEF GatewaySpec

-----------------------------------------------------------------------------
(* The server: its handlers keep the runtime's invariant *)

ServerPcs == RuntimePcs \cup {"version"}

Answers == Results \cup
    {"200", "400", "401", "404", "429", "500",
     "no contract configured", "unbounded", "satisfied", "drifting"}

ServerInv == InvIn(ServerPcs, Answers)

\* A request that is answered without a change.
LEMMA AnsweredInv ==
    ASSUME ServerInv, NEW t \in Task, NEW r \in Answers, Return(t, r), Untouched, calls' \in Nat
    PROVE  ServerInv'
<1>1. TasksIn(ServerPcs, Answers)'
    BY ReturnOK DEF ServerInv, InvIn
<1>2. SharedOK'
    BY DEF ServerInv, InvIn, SharedOK, Untouched
<1> QED
    BY <1>1, <1>2 DEF ServerInv, InvIn, Untouched

LEMMA BegunCalls ==
    ASSUME ServerInv, NEW t, Begin(t)
    PROVE  calls' \in Nat
BY DEF ServerInv, InvIn, SharedOK, Begin

LEMMA HandleCheckpointInv ==
    ASSUME ServerInv, NEW t \in Task, NEW req, HandleCheckpoint(t, req)
    PROVE  ServerInv'
<1> USE DEF ServerInv, InvIn
<1> DEFINE f == [Frame("version", None, None, None, 0) EXCEPT !.cp = nextCp]
<1>1. /\ Begin(t) /\ checkpoints' = Append(checkpoints, [id |-> nextCp, quad |-> quad])
      /\ nextCp' = nextCp + 1 /\ task' = [task EXCEPT ![t] = f]
      /\ UNCHANGED <<engine, quad, keyIndex, history, log, audits, tokensUsed>>
    BY DEF HandleCheckpoint
<1>2. checkpoints' \in Seq(Marks)
    BY <1>1, MarkOK
<1>3. SharedOK'
    BY <1>1 DEF SharedOK, Begin
<1>4. f \in FramesIn(ServerPcs, Answers) /\ Working(f)
  <2>1. 0 \in Conf /\ nextCp \in Nat
      BY QuadAssumption DEF Conf, SharedOK
  <2> DEFINE g == Frame("version", None, None, None, 0)
  <2>2. g \in FramesIn(ServerPcs, Answers) /\ g.pc = "version"
      BY <2>1 DEF Frame, FramesIn, ServerPcs
  <2>3. f = [g EXCEPT !.cp = nextCp]
      OBVIOUS
  <2> HIDE DEF f, g
  <2>4. f \in FramesIn(ServerPcs, Answers) /\ f.pc = "version"
      BY <2>1, <2>2, <2>3 DEF FramesIn
  <2> QED
      BY <2>4 DEF Working, RuntimePcs, Committed
<1> HIDE DEF f
<1>5. TasksIn(ServerPcs, Answers)'
    BY <1>1, <1>4, TaskStep
<1> QED
    BY <1>1, <1>2, <1>3, <1>5

\* Finalizing fills in outcomes and adds no record.
LEMMA FinalizeInv ==
    ASSUME ServerInv, FinalizeSession
    PROVE  ServerInv'
<1> USE DEF ServerInv, InvIn
<1> DEFINE fin(i) == [history[i] EXCEPT !.correct = IF @ = None THEN TRUE ELSE @]
<1>1. history' = [i \in DOMAIN history |-> fin(i)]
      /\ UNCHANGED <<quad, checkpoints, nextCp, keyIndex, engine, log, audits,
                     tokensUsed, calls, task>>
    BY DEF FinalizeSession
<1>2. history \in Seq(Records) /\ Len(history) \in Nat /\ DOMAIN history = 1 .. Len(history)
    BY DEF SharedOK
<1>3. \A i \in 1 .. Len(history) : fin(i) \in Records
  <2>1. ASSUME NEW r \in Records
        PROVE  [r EXCEPT !.correct = IF @ = None THEN TRUE ELSE @] \in Records
    <3>1. CASE r.correct = None
        BY <3>1 DEF Records
    <3>2. CASE r.correct # None
      <4>1. r.correct \in {None, TRUE, FALSE}
          BY DEF Records
      <4> QED
          BY <3>2, <4>1 DEF Records
    <3> QED
        BY <3>1, <3>2
  <2>2. \A i \in 1 .. Len(history) : history[i] \in Records
      BY <1>2
  <2> QED
      BY <2>1, <2>2
<1> HIDE DEF fin
<1>4. history' \in [1 .. Len(history) -> Records]
    BY <1>1, <1>2, <1>3
<1>5. history' \in Seq(Records)
    BY <1>2, <1>4, FunctionIsSeq
<1>6. SharedOK'
    BY <1>1, <1>5 DEF SharedOK
<1> QED
    BY <1>1, <1>6 DEF TasksIn

LEMMA ServerInit == GatewayInit => ServerInv
<1>1. RuntimePcs \subseteq ServerPcs /\ Results \subseteq Answers
    BY DEF ServerPcs, Answers
<1> QED
    BY <1>1, InitInv DEF GatewayInit, ServerInv

\* What the answers about a checkpoint and the status can be.
LEMMA AnswersTyped ==
    ASSUME NEW cp
    PROVE  /\ DiffAnswer(cp).status \in Answers
           /\ cp = None => RollbackAnswer(cp).status \in Answers
           /\ \A k : Lookup(k) \in Answers
           /\ ContractStatus \in Answers
<1>1. DiffAnswer(cp).status \in Answers
    BY DEF DiffAnswer, Answer, StatusOf, Answers
<1>2. cp = None => RollbackAnswer(cp).status \in Answers
    BY DEF RollbackAnswer, Answer, StatusOf, Answers
<1>3. \A k : Lookup(k) \in Answers
    BY DEF Lookup, StatusOf, Answers
<1>4. ContractStatus \in Answers
    BY DEF ContractStatus, Answers
<1> QED
    BY <1>1, <1>2, <1>3, <1>4

LEMMA DispatchInv ==
    ASSUME ServerInv, NEW t \in Task, NEW req \in Requests, Dispatch(t, req)
    PROVE  ServerInv'
<1>1. ASSUME Turned(t, req) PROVE ServerInv'
  <2>1. \A r \in {"200", "401", "429"} : r \in Answers
      BY DEF Answers
  <2> QED
      BY <1>1, <2>1, AnsweredInv, BegunCalls DEF Turned
<1>2. ASSUME NEW a \in Assignments, NEW c \in ConfIn, HandleBeliefSet(t, req, a.key, a.value, c)
      PROVE  ServerInv'
  <2>1. a.key \in Key /\ a.value \in Value
      BY GatewayAssumption
  <2> QED
      BY <1>2, <2>1, SetBeliefInv DEF HandleBeliefSet, ServerInv
<1>3. ASSUME NEW cp, HandleDiff(t, req, cp) PROVE ServerInv'
    BY <1>3, AnswersTyped, AnsweredInv, BegunCalls DEF HandleDiff
<1>4. ASSUME NEW cp, HandleRollback(t, req, cp) PROVE ServerInv'
  <2>1. CASE cp = None
      BY <1>4, <2>1, AnswersTyped, AnsweredInv, BegunCalls DEF HandleRollback
  <2>2. CASE cp # None
      BY <1>4, <2>2, RollbackInv DEF HandleRollback, ServerInv
  <2> QED
      BY <2>1, <2>2
<1>5. ASSUME NEW k, HandleRead(t, req, k) PROVE ServerInv'
    BY <1>5, AnswersTyped, AnsweredInv, BegunCalls DEF HandleRead
<1>6. ASSUME HandleContractStatus(t, req) PROVE ServerInv'
    BY <1>6, AnswersTyped, AnsweredInv, BegunCalls DEF HandleContractStatus
<1> QED
    BY <1>1, <1>2, <1>3, <1>4, <1>5, <1>6, HandleCheckpointInv DEF Dispatch

LEMMA ServerNext == ServerInv /\ [GatewayNext]_gatewayVars => ServerInv'
<1> SUFFICES ASSUME ServerInv, [GatewayNext]_gatewayVars PROVE ServerInv'
    OBVIOUS
<1>1. ASSUME NEW t \in Task, Continue(t) PROVE ServerInv'
    BY <1>1, StepInv DEF Continue, ServerInv
<1>2. ASSUME NEW t \in Task, AnswerVersion(t) PROVE ServerInv'
  <2>1. calls' \in Nat /\ "200" \in Answers
      BY <1>2 DEF AnswerVersion, ServerInv, InvIn, SharedOK, Answers
  <2> QED
      BY <1>2, <2>1, AnsweredInv DEF AnswerVersion
<1>3. ASSUME UNCHANGED vars PROVE ServerInv'
    BY <1>3 DEF vars, ServerInv, InvIn, SharedOK, TasksIn
<1>4. CASE Tick
    BY <1>3, <1>4 DEF Tick
<1>5. CASE UNCHANGED gatewayVars
    BY <1>3, <1>5 DEF gatewayVars
<1> QED
    BY <1>1, <1>2, <1>4, <1>5, DispatchInv, FinalizeInv DEF GatewayNext

LEMMA ServerInvariance == GatewaySpec => []ServerInv
BY ServerInit, ServerNext, PTL DEF GatewaySpec

\* Asking what would hold without a belief leaves out that belief and what it
\* causes and nothing else, in every quad the requests and rollbacks lead to.
THEOREM WorldsClosed == GatewaySpec => []CounterfactualClosed
<1>1. ServerInv => CounterfactualClosed
  <2> SUFFICES ASSUME ServerInv, NEW id \in Live(quad)
               PROVE  LET world  == CounterfactualQuery(quad, id)
                          causal == quad.graphs["causal"].edges
                      IN  /\ \A e \in causal : e.to \in world.surviving => e.from \in world.surviving
                          /\ \A keep \in SUBSET world.excluded :
                               keep # {} /\ id \notin keep =>
                                 \E e \in causal : e.to \in keep
                                                     /\ e.from \notin keep \cup world.surviving
                          /\ world.excluded \subseteq Live(quad)
      BY DEF CounterfactualClosed
  <2> DEFINE causal   == quad.graphs["causal"].edges
             excluded == Descendants(quad, id) \cup {id}
             world    == CounterfactualQuery(quad, id)
  <2>1. QuadInv(quad)
      BY DEF ServerInv, InvIn
  <2>2. world.excluded = excluded /\ world.surviving = Live(quad) \ excluded
      BY DEF CounterfactualQuery
  <2>3. Descendants(quad, id) \subseteq Live(quad)
      BY <2>1, DescendantsLive
  <2>4. \A e \in causal : e.from \in Live(quad) /\ e.to \in Live(quad)
      BY <2>1 DEF QuadInv, ProjectionsAgree, Projection
  <2>5. \A e \in causal : e.from \in excluded => e.to \in excluded
      BY <2>1, DescendantsClosed
  <2> HIDE DEF causal, excluded, world
  <2>6. ASSUME NEW keep \in SUBSET excluded, id \notin keep,
               \A e \in causal : e.to \in keep => e.from \in keep \cup (Live(quad) \ excluded)
        PROVE  keep = {}
    <3> DEFINE S == excluded \ keep
    <3>1. \A e \in causal : e.from \in S => e.to \in S
        BY <2>5, <2>6
    <3>2. id \in S
        BY <2>6 DEF excluded
    <3> HIDE DEF S
    <3>3. Heads(quad, {id}) \subseteq S /\ Heads(quad, S) \subseteq S
        BY <3>1, <3>2 DEF Heads, causal
    <3>4. Descendants(quad, id) \subseteq S
        BY <2>1, <3>3, DescendantsLeast
    <3> QED
        BY <2>6, <3>4 DEF S, excluded
  <2>7. \A keep \in SUBSET excluded :
          keep # {} /\ id \notin keep =>
            \E e \in causal : e.to \in keep /\ e.from \notin keep \cup (Live(quad) \ excluded)
      BY <2>6
  <2>8. \A e \in causal : e.to \in Live(quad) \ excluded => e.from \in Live(quad) \ excluded
      BY <2>4, <2>5
  <2>9. excluded \subseteq Live(quad)
      BY <2>3 DEF excluded
  <2> QED
      BY <2>2, <2>7, <2>8, <2>9 DEF causal, world
<1> QED
    BY <1>1, ServerInvariance, PTL

-----------------------------------------------------------------------------
(* The server: what a diff says of a rollback *)

\* Enforcing no contract does nothing.
LEMMA NothingEnforced ==
    ASSUME NEW q, QuadInv(q), NEW list \in Seq(Marks), NEW counts \in Logs, NEW cp
    PROVE  PostUpdate(<<>>, q, list, counts, cp) = EngineStart(q, list, counts)
<1>1. <<>> \in Seq(Contract) /\ Len(<<>>) = 0
    OBVIOUS
<1>2. PICK f : PostUpdateRun(f, <<>>, q, list, counts, cp)
    BY <1>1, PostUpdateRuns
<1> QED
    BY <1>1, <1>2 DEF PostUpdateRun

\* The server attaches no contract, so an update ends with its revision.
LEMMA ServerEnforces ==
    ASSUME ServerInv, NEW t \in Task, EnforceContracts(t)
    PROVE  /\ UNCHANGED <<quad, checkpoints>>
           /\ Goto(t, IF task[t].contradicted THEN "mark" ELSE "record")
<1>1. contracts = <<>>
    BY GatewayAssumption DEF ServerInv, InvIn, SharedOK, contracts
<1> DEFINE s == PostUpdate(contracts, quad, checkpoints, log, task[t].cp)
<1>2. s = EngineStart(quad, checkpoints, log)
    BY <1>1, NothingEnforced DEF ServerInv, InvIn, SharedOK
<1>3. /\ quad' = s.quad /\ checkpoints' = s.checkpoints
      /\ IF s.error # None THEN Return(t, s.error)
         ELSE Goto(t, IF task[t].contradicted THEN "mark" ELSE "record")
    BY DEF EnforceContracts
<1> HIDE DEF s
<1> QED
    BY <1>2, <1>3 DEF EngineStart

Marked(q) == [id |-> nextCp, quad |-> q]

\* A step of a set request keeps the checkpoints, or appends a copy of the quad.
LEMMA StepKeepsMarks ==
    ASSUME ServerInv, NEW t \in Task, Proceed(t)
    PROVE  \/ UNCHANGED <<checkpoints, nextCp>>
           \/ /\ quad' = quad /\ nextCp' = nextCp + 1
              /\ checkpoints' = Append(checkpoints, Marked(quad))
<1>1. CASE PreRevisionCheckpoint(t)
    BY <1>1 DEF PreRevisionCheckpoint, Marked
<1>2. CASE EnforceContracts(t)
    BY <1>2, ServerEnforces DEF EnforceContracts
<1>3. CASE ~PreRevisionCheckpoint(t) /\ ~EnforceContracts(t)
    BY <1>3 DEF Proceed, InsertNode, IndexKey, Admit, Meter, ReviseAndPropagate, MarkWrong,
           RecordConfidence
<1> QED
    BY <1>1, <1>2, <1>3

Known == (0 .. nextCp - 1) \cup {None}

\* A later checkpoint has another id, so what a diff answers about an earlier
\* one depends on the quad alone.
LEMMA SameDiff ==
    ASSUME ServerInv, quad' = quad, NEW cp \in Known,
           \/ UNCHANGED checkpoints
           \/ checkpoints' = Append(checkpoints, Marked(quad))
    PROVE  DiffAnswer(cp)' = DiffAnswer(cp)
<1>1. CASE UNCHANGED checkpoints
    BY <1>1 DEF DiffAnswer, QuadOf
<1>2. CASE cp = None
    BY <1>2 DEF DiffAnswer
<1>3. CASE cp # None /\ checkpoints' = Append(checkpoints, Marked(quad))
  <2> DEFINE n == Len(checkpoints)
  <2>1. checkpoints \in Seq(Marks) /\ n \in Nat /\ nextCp \in Nat
      BY DEF ServerInv, InvIn, SharedOK
  <2>2. /\ DOMAIN checkpoints = 1 .. n /\ DOMAIN checkpoints' = 1 .. n + 1
        /\ \A i \in 1 .. n : checkpoints'[i] = checkpoints[i]
        /\ checkpoints'[n + 1] = Marked(quad)
      BY <1>3, <2>1
  <2>3. cp # nextCp /\ Marked(quad).id = nextCp
      BY <1>3, <2>1 DEF Known, Marked
  <2> HIDE DEF n
  <2>4. \A i \in 1 .. n + 1 : i \in 1 .. n \/ i = n + 1
      BY <2>1
  <2>5. Held(checkpoints', cp) = Held(checkpoints, cp)
      BY <2>1, <2>2, <2>3, <2>4 DEF Held
  <2> DEFINE H == Held(checkpoints, cp)
             j == CHOOSE i \in H : TRUE
  <2>6. H # {} => j \in H
      OBVIOUS
  <2>7. H # {} => checkpoints'[j].quad = checkpoints[j].quad
      BY <2>2, <2>6 DEF Held
  <2>8. /\ QuadOf(cp) = checkpoints[j].quad /\ QuadOf(cp)' = checkpoints'[j].quad
      BY <2>5 DEF QuadOf
  <2> HIDE DEF H, j
  <2>9. H # {} => QuadOf(cp)' = QuadOf(cp)
      BY <2>7, <2>8
  <2> QED
      BY <2>5, <2>9 DEF DiffAnswer, H
<1> QED
    BY <1>1, <1>2, <1>3

\* The last answer, if it is a diff, is what a diff would answer now.
StillTrue ==
    last # None /\ last.route = "diff" => last.cp \in Known /\ last = DiffAnswer(last.cp)

LEMMA DiffFields ==
    ASSUME NEW cp
    PROVE  DiffAnswer(cp).route = "diff" /\ DiffAnswer(cp).cp = cp
BY DEF DiffAnswer, Answer

LEMMA RollbackFields ==
    ASSUME NEW cp
    PROVE  RollbackAnswer(cp).route = "rollback" /\ RollbackAnswer(cp).cp = cp
<1> DEFINE out == Rollback(quad, checkpoints, cp)
<1>1. RollbackAnswer(cp) =
        IF cp = None THEN Answer("rollback", cp, StatusOf("BadRequest"), NoDiff)
        ELSE IF out.result # "Ok" THEN Answer("rollback", cp, StatusOf("Runtime"), NoDiff)
        ELSE Answer("rollback", cp, "200", DiffCounts(quad, out.quad))
    BY Zenon DEF RollbackAnswer
<1> HIDE DEF out
<1> QED
    BY <1>1 DEF Answer

\* What a step does to the last answer.
LastMoves ==
    \/ /\ last' = last
       /\ last # None /\ last.route = "diff" =>
            /\ quad' = quad
            /\ \/ UNCHANGED <<checkpoints, nextCp>>
               \/ nextCp' = nextCp + 1 /\ checkpoints' = Append(checkpoints, Marked(quad))
    \/ last' = None
    \/ /\ UNCHANGED <<quad, checkpoints, nextCp>>
       /\ \E cp \in Known : last' = DiffAnswer(cp)
    \/ \E cp \in Known : last' = RollbackAnswer(cp)

LEMMA LastStep == ServerInv /\ [GatewayNext]_gatewayVars => LastMoves
<1> SUFFICES ASSUME ServerInv, [GatewayNext]_gatewayVars PROVE LastMoves
    OBVIOUS
<1>1. ASSUME last' = last, UNCHANGED <<quad, checkpoints, nextCp>> PROVE LastMoves
    BY <1>1 DEF LastMoves
<1>2. ASSUME NEW t \in Task, NEW req \in Requests, Dispatch(t, req) PROVE LastMoves
  <2>1. CASE Turned(t, req)
      BY <1>1, <2>1 DEF Turned, Untouched, observed
  <2>2. ASSUME NEW k, NEW v, NEW c, HandleBeliefSet(t, req, k, v, c) PROVE LastMoves
      BY <2>2 DEF HandleBeliefSet, SetBelief, Forget, LastMoves
  <2>3. CASE HandleCheckpoint(t, req)
      BY <2>3 DEF HandleCheckpoint, observed, LastMoves, Marked
  <2>4. ASSUME NEW cp \in Known, HandleDiff(t, req, cp) PROVE LastMoves
      BY <2>4 DEF HandleDiff, Untouched, LastMoves
  <2>5. ASSUME NEW cp \in Known, HandleRollback(t, req, cp) PROVE LastMoves
      BY <2>5 DEF HandleRollback, LastMoves
  <2>6. ASSUME NEW k, HandleRead(t, req, k) PROVE LastMoves
      BY <1>1, <2>6 DEF HandleRead, Untouched, observed
  <2>7. CASE HandleContractStatus(t, req)
      BY <1>1, <2>7 DEF HandleContractStatus, Untouched, observed
  <2> QED
      BY <1>2, <2>1, <2>2, <2>3, <2>4, <2>5, <2>6, <2>7 DEF Dispatch, Known
<1>3. ASSUME NEW t \in Task, Continue(t) PROVE LastMoves
  <2>1. Proceed(t) /\ Forget
      BY <1>3 DEF Continue
  <2> QED
      BY <2>1, StepKeepsMarks DEF Forget, LastMoves
<1>4. ASSUME NEW t \in Task, AnswerVersion(t) PROVE LastMoves
    BY <1>1, <1>4 DEF AnswerVersion, Untouched, observed
<1>5. CASE Tick
    BY <1>1, <1>5 DEF Tick, vars, observed
<1>6. CASE FinalizeSession
    BY <1>1, <1>6 DEF FinalizeSession, observed
<1>7. CASE UNCHANGED gatewayVars
    BY <1>1, <1>7 DEF gatewayVars, vars, observed
<1> QED
    BY <1>2, <1>3, <1>4, <1>5, <1>6, <1>7 DEF GatewayNext

LEMMA StillTrueNext == ServerInv /\ StillTrue /\ [GatewayNext]_gatewayVars => StillTrue'
<1> SUFFICES ASSUME ServerInv, StillTrue, LastMoves PROVE StillTrue'
    BY LastStep
<1>1. nextCp \in Nat
    BY DEF ServerInv, InvIn, SharedOK
<1>2. CASE /\ last' = last /\ last # None /\ last.route = "diff" /\ quad' = quad
           /\ \/ UNCHANGED <<checkpoints, nextCp>>
              \/ nextCp' = nextCp + 1 /\ checkpoints' = Append(checkpoints, Marked(quad))
  <2> DEFINE cp == last.cp
  <2>1. cp \in Known /\ last = DiffAnswer(cp)
      BY <1>2 DEF StillTrue
  <2>2. Known \subseteq Known'
      BY <1>1, <1>2 DEF Known
  <2>3. ASSUME NEW c \in Known PROVE DiffAnswer(c)' = DiffAnswer(c)
      BY <1>2, <2>3, SameDiff
  <2>4. last'.cp = cp /\ last' = last
      BY <1>2
  <2>5. ASSUME NEW c, c = cp PROVE last' = DiffAnswer(c)'
      BY <2>1, <2>3, <2>4, <2>5
  <2>6. last' = DiffAnswer(last.cp)'
      BY <1>2, <2>5
  <2> QED
      BY <2>1, <2>2, <2>4, <2>6 DEF StillTrue
<1>3. CASE last' = last /\ ~(last # None /\ last.route = "diff")
    BY <1>3 DEF StillTrue
<1>4. CASE last' = None
    BY <1>4 DEF StillTrue
<1>5. ASSUME UNCHANGED <<quad, checkpoints, nextCp>>, NEW cp \in Known, last' = DiffAnswer(cp)
      PROVE  StillTrue'
  <2>1. last'.cp = cp
      BY <1>5, DiffFields
  <2>2. DiffAnswer(cp)' = DiffAnswer(cp)
      BY <1>5, SameDiff
  <2>3. cp \in Known'
      BY <1>5 DEF Known
  <2> QED
      BY <1>5, <2>1, <2>2, <2>3 DEF StillTrue
<1>6. ASSUME NEW cp \in Known, last' = RollbackAnswer(cp) PROVE StillTrue'
    BY <1>6, RollbackFields DEF StillTrue
<1> QED
    BY <1>2, <1>3, <1>4, <1>5, <1>6, Zenon DEF LastMoves

\* The keys of a quad are finitely many.
LEMMA KeysFinite ==
    ASSUME NEW q, QuadInv(q)
    PROVE  IsFiniteSet(DOMAIN ByKey(q))
<1> DEFINE keys == {q.nodes[id].key : id \in Live(q)}
           f    == [id \in Live(q) |-> q.nodes[id].key]
<1>1. DOMAIN ByKey(q) = keys
    BY Zenon DEF ByKey
<1>2. f \in Surjection(Live(q), keys)
    BY DEF Surjection
<1>3. IsFiniteSet(Live(q))
    BY DEF QuadInv, Finite
<1> HIDE DEF f, keys
<1> QED
    BY <1>1, <1>2, <1>3, FS_Surjection

LEMMA ByKeyIsFunction ==
    ASSUME NEW q
    PROVE  ByKey(q) = [k \in DOMAIN ByKey(q) |-> ByKey(q)[k]]
<1> DEFINE keys == {q.nodes[id].key : id \in Live(q)}
           one(k) == LET id == CHOOSE i \in Holders(q, k) :
                                  \A j \in Holders(q, k) : Slot(j) <= Slot(i)
                     IN  <<q.nodes[id].value, q.nodes[id].fast>>
<1>1. ByKey(q) = [k \in keys |-> one(k)]
    BY Zenon DEF ByKey
<1> HIDE DEF keys, one
<1> QED
    BY <1>1

\* A diff counts nothing exactly when a rollback would find nothing to undo.
LEMMA NoDiffMeansSame ==
    ASSUME NEW q, QuadInv(q), NEW snap, QuadInv(snap)
    PROVE  DiffCounts(q, snap) = NoDiff <=> ~HasContradictions(q, snap)
<1> DEFINE now == ByKey(q)
           old == ByKey(snap)
           added    == DOMAIN now \ DOMAIN old
           removed  == DOMAIN old \ DOMAIN now
           modified == {k \in DOMAIN now \cap DOMAIN old : now[k] # old[k]}
<1>1. IsFiniteSet(DOMAIN now) /\ IsFiniteSet(DOMAIN old)
    BY KeysFinite
<1>2. IsFiniteSet(added) /\ IsFiniteSet(removed) /\ IsFiniteSet(modified)
  <2> HIDE DEF now, old
  <2>1. added \subseteq DOMAIN now /\ removed \subseteq DOMAIN old /\ modified \subseteq DOMAIN now
      OBVIOUS
  <2> QED
      BY <1>1, <2>1, FS_Subset
<1>3. DiffCounts(q, snap) = [added |-> Cardinality(added), removed |-> Cardinality(removed),
                             modified |-> Cardinality(modified)]
    BY DEF DiffCounts
<1>4. now = [k \in DOMAIN now |-> now[k]] /\ old = [k \in DOMAIN old |-> old[k]]
    BY ByKeyIsFunction
<1>5. HasContradictions(q, snap) <=> now # old
    BY DEF HasContradictions
<1> HIDE DEF now, old
<1>6. now = old <=> added = {} /\ removed = {} /\ modified = {}
  <2>1. ASSUME added = {}, removed = {}, modified = {} PROVE now = old
    <3>1. DOMAIN now = DOMAIN old
        BY <2>1
    <3>2. \A k \in DOMAIN now : now[k] = old[k]
        BY <2>1, <3>1
    <3> QED
        BY <1>4, <3>1, <3>2
  <2> QED
      BY <2>1
<1> HIDE DEF added, removed, modified
<1>7. /\ Cardinality(added) = 0 <=> added = {}
      /\ Cardinality(removed) = 0 <=> removed = {}
      /\ Cardinality(modified) = 0 <=> modified = {}
    BY <1>2, FS_EmptySet
<1>8. DiffCounts(q, snap) = NoDiff <=> Cardinality(added) = 0 /\ Cardinality(removed) = 0
                                         /\ Cardinality(modified) = 0
    BY <1>3 DEF NoDiff
<1> QED
    BY <1>5, <1>6, <1>7, <1>8

\* What both handlers answer in one state.
LEMMA DiffAndRollback ==
    ASSUME ServerInv, NEW cp
    PROVE  LET d == DiffAnswer(cp)
               r == RollbackAnswer(cp)
           IN  \/ d.status = "400" /\ r.status \in {"400", "500"}
               \/ d.status = "200" /\ d.counts = NoDiff /\ r.status = "500"
               \/ d.status = "200" /\ d.counts # NoDiff /\ r.status = "200" /\ r.counts = d.counts
<1> DEFINE d == DiffAnswer(cp)
           r == RollbackAnswer(cp)
           out == Rollback(quad, checkpoints, cp)
           snap == QuadOf(cp)
           H == Held(checkpoints, cp)
<1>1. StatusOf("BadRequest") = "400" /\ StatusOf("Runtime") = "500"
    BY DEF StatusOf
<1>2. d = IF cp = None \/ H = {} THEN Answer("diff", cp, "400", NoDiff)
          ELSE Answer("diff", cp, "200", DiffCounts(quad, snap))
    BY <1>1, Zenon DEF DiffAnswer
<1>3. r = IF cp = None THEN Answer("rollback", cp, "400", NoDiff)
          ELSE IF out.result # "Ok" THEN Answer("rollback", cp, "500", NoDiff)
          ELSE Answer("rollback", cp, "200", DiffCounts(quad, out.quad))
    BY <1>1, Zenon DEF RollbackAnswer
<1>4. out = IF H = {}
            THEN [quad |-> quad, checkpoints |-> checkpoints, result |-> "CheckpointNotFound"]
            ELSE IF HasContradictions(quad, snap)
                 THEN [quad |-> snap, checkpoints |-> <<>>, result |-> "Ok"]
                 ELSE [quad |-> quad, checkpoints |-> checkpoints,
                       result |-> "UnnecessaryContraction"]
    BY Zenon DEF Rollback, RestoredList, QuadOf
<1>5. H # {} => QuadInv(quad) /\ QuadInv(snap)
  <2> DEFINE j == CHOOSE i \in H : TRUE
  <2>1. H # {} => j \in DOMAIN checkpoints
      BY Zenon DEF Held
  <2>2. snap = checkpoints[j].quad
      BY Zenon DEF QuadOf
  <2> HIDE DEF H, j, snap
  <2>3. checkpoints \in Seq(Marks) /\ QuadInv(quad)
      BY DEF ServerInv, InvIn
  <2>4. \A m \in Marks : QuadInv(m.quad)
      BY DEF Marks, Sound
  <2>5. j \in DOMAIN checkpoints => checkpoints[j] \in Marks
      BY <2>3
  <2> QED
      BY <2>1, <2>2, <2>3, <2>4, <2>5
<1> HIDE DEF d, r, out, snap, H
<1>6. H # {} => (DiffCounts(quad, snap) = NoDiff <=> ~HasContradictions(quad, snap))
    BY <1>5, NoDiffMeansSame
<1>7. CASE cp = None
    BY <1>2, <1>3, <1>7 DEF Answer, d, r
<1>8. CASE cp # None /\ H = {}
    BY <1>2, <1>3, <1>4, <1>8 DEF Answer, d, r
<1>9. CASE cp # None /\ H # {} /\ HasContradictions(quad, snap)
  <2>1. out.result = "Ok" /\ out.quad = snap
      BY <1>4, <1>9
  <2> QED
      BY <1>2, <1>3, <1>6, <1>9, <2>1 DEF Answer, d, r
<1>10. CASE cp # None /\ H # {} /\ ~HasContradictions(quad, snap)
  <2>1. out.result = "UnnecessaryContraction"
      BY <1>4, <1>10
  <2> QED
      BY <1>2, <1>3, <1>6, <1>10, <2>1 DEF Answer, d, r
<1> QED
    BY <1>7, <1>8, <1>9, <1>10

\* As long as the quad stays as it is, and whatever checkpoints are taken
\* meanwhile, a rollback answers what the diff before it foretold.
THEOREM RollbackForetold == GatewaySpec => DiffForetellsRollback
<1> DEFINE Foretold ==
             (last # None /\ last' # None /\ last' # last /\ last.route = "diff"
                /\ last'.route = "rollback" /\ last.cp = last'.cp) =>
               \/ last.status = "400" /\ last'.status \in {"400", "500"}
               \/ last.status = "200" /\ last.counts = NoDiff /\ last'.status = "500"
               \/ last.status = "200" /\ last.counts # NoDiff
                    /\ last'.status = "200" /\ last'.counts = last.counts
<1>1. ServerInv /\ StillTrue /\ [GatewayNext]_gatewayVars => Foretold
  <2> SUFFICES ASSUME ServerInv, StillTrue, LastMoves, last # None, last' # None, last' # last,
                      last.route = "diff", last'.route = "rollback", last.cp = last'.cp
               PROVE  \/ last.status = "400" /\ last'.status \in {"400", "500"}
                      \/ last.status = "200" /\ last.counts = NoDiff /\ last'.status = "500"
                      \/ last.status = "200" /\ last.counts # NoDiff
                           /\ last'.status = "200" /\ last'.counts = last.counts
      BY LastStep
  <2>1. \A cp : last' # DiffAnswer(cp)
      BY DiffFields
  <2>2. PICK cp \in Known : last' = RollbackAnswer(cp)
      BY <2>1 DEF LastMoves
  <2>3. last.cp = cp
      BY <2>2, RollbackFields
  <2>4. last = DiffAnswer(cp)
      BY <2>3 DEF StillTrue
  <2> QED
      BY <2>2, <2>4, DiffAndRollback
<1>2. GatewayInit => StillTrue
    BY DEF GatewayInit, StillTrue
<1> HIDE DEF Foretold
<1>3. GatewaySpec => [][Foretold]_gatewayVars
    BY <1>1, <1>2, StillTrueNext, ServerInvariance, PTL DEF GatewaySpec
<1> QED
    BY <1>3 DEF DiffForetellsRollback, Foretold

-----------------------------------------------------------------------------
(* The server: what its handlers take for the belief of a key *)

\* An insert adds a holder of its key.
LEMMA InsertHolders ==
    ASSUME NEW q, QuadInv(q), NEW k, NEW v, NEW c, NEW slow, NEW l
    PROVE  LET r == Insert(q, [key |-> k, value |-> v, fast |-> c, slow |-> slow])
           IN  Holders(r, l) \subseteq Holders(q, l) \cup {id \in {NextId(q)} : l = k}
<1> DEFINE node == [key |-> k, value |-> v, fast |-> c, slow |-> slow]
           new  == NextId(q)
           r    == Insert(q, node)
<1>1. r.nodes = [i \in Live(q) \cup {new} |->
                   IF i = new THEN [node EXCEPT !.fast = Clamp(@)] ELSE q.nodes[i]]
    BY Zenon DEF Insert
<1>2. [node EXCEPT !.fast = Clamp(@)].key = k
    OBVIOUS
<1>3. new \notin Live(q)
    BY NextIdFresh
<1> HIDE DEF node, new, r
<1>4. Live(r) = Live(q) \cup {new} /\ r.nodes[new].key = k
      /\ \A i \in Live(q) : r.nodes[i] = q.nodes[i]
    BY <1>1, <1>2, <1>3 DEF Live
<1>5. Holders(r, l) \subseteq Holders(q, l) \cup {id \in {new} : l = k}
    BY <1>4 DEF Holders
<1> QED
    BY <1>5 DEF r, new, node

\* Revising and propagating gives no key another holder.
LEMMA ReviseHolders ==
    ASSUME NEW q, QuadInv(q), NEW id \in BeliefId, NEW v \in Value, NEW c \in Int,
           NEW out \in Revise(q, id, v, c), NEW r,
           \/ r = out.quad
           \/ \E decay \in [Live(out.quad) -> Decays] : r \in Propagate(out.quad, decay, id),
           NEW l
    PROVE  Holders(r, l) \subseteq Holders(q, l)
<1>1. /\ QuadInv(out.quad) /\ Live(out.quad) \subseteq Live(q)
      /\ \A o \in Live(out.quad) : out.quad.nodes[o].key = q.nodes[o].key
    BY ReviseInv, ReviseRetains
<1>2. Holders(out.quad, l) \subseteq Holders(q, l)
    BY <1>1 DEF Holders
<1>3. ASSUME NEW decay \in [Live(out.quad) -> Decays], r \in Propagate(out.quad, decay, id)
      PROVE  Holders(r, l) \subseteq Holders(out.quad, l)
  <2>1. Decaying(out.quad, decay)
      BY RuntimeAssumption DEF Decaying
  <2> DEFINE p == out.quad
  <2>2. QuadInv(p) /\ Decaying(p, decay) /\ r \in Propagate(p, decay, id)
      BY <1>1, <1>3, <2>1
  <2> HIDE DEF p
  <2>3. Live(r) = Live(p) /\ \A i \in Live(p) : r.nodes[i].key = p.nodes[i].key
      BY <2>2, PropagateInv
  <2> QED
      BY <2>3 DEF Holders, p
<1> QED
    BY <1>2, <1>3

\* The beliefs a handler may take for that of k: the indexed one, or the one
\* an insert under way is about to index.
Accounted(k) ==
    {keyIndex[j] : j \in {k} \cap DOMAIN keyIndex}
      \cup {task[t].id : t \in {u \in Inserting(k) : task[u].pc = "index"}}

\* The keys of which at most one insert is under way, and none once they are
\* indexed; then every quad, the checkpoints' included, has the same belief.
Alone(k) ==
    /\ \A t, u \in Inserting(k) : t = u
    /\ k \in DOMAIN keyIndex => Inserting(k) = {}
    /\ \A q \in Worlds : Holders(q, k) \subseteq Accounted(k)

KeysOK == \A k \in Key \ raced : Alone(k)

\* A checkpoint taken or a rollback makes no world that was not there.
LEMMA WorldsKept ==
    ASSUME ServerInv,
           \/ UNCHANGED <<quad, checkpoints>>
           \/ quad' = quad /\ checkpoints' = Append(checkpoints, Marked(quad))
           \/ \E cp : LET out == Rollback(quad, checkpoints, cp)
                      IN  quad' = out.quad /\ checkpoints' = out.checkpoints
    PROVE  Worlds' \subseteq Worlds
<1>1. checkpoints \in Seq(Marks)
    BY DEF ServerInv, InvIn
<1>2. CASE UNCHANGED <<quad, checkpoints>>
    BY <1>2 DEF Worlds, Snapshots
<1>3. CASE quad' = quad /\ checkpoints' = Append(checkpoints, Marked(quad))
  <2> DEFINE n == Len(checkpoints)
  <2>1. /\ DOMAIN checkpoints' = 1 .. n + 1 /\ DOMAIN checkpoints = 1 .. n /\ n \in Nat
        /\ \A i \in 1 .. n : checkpoints'[i] = checkpoints[i]
        /\ checkpoints'[n + 1].quad = quad
      BY <1>1, <1>3 DEF Marked
  <2> HIDE DEF n
  <2>2. \A i \in 1 .. n + 1 : i \in 1 .. n \/ i = n + 1
      BY <2>1
  <2> QED
      BY <1>3, <2>1, <2>2 DEF Worlds, Snapshots
<1>4. ASSUME NEW cp, quad' = Rollback(quad, checkpoints, cp).quad,
             checkpoints' = Rollback(quad, checkpoints, cp).checkpoints
      PROVE  Worlds' \subseteq Worlds
  <2>1. \/ quad' = quad /\ checkpoints' = checkpoints
        \/ checkpoints' = <<>> /\ \E i \in DOMAIN checkpoints : quad' = checkpoints[i].quad
      BY <1>4, RollbackOutcome
  <2> QED
      BY <1>2, <2>1 DEF Worlds, Snapshots
<1> QED
    BY <1>2, <1>3, <1>4

InsertPcs == {"insert", "index"}

\* A step that neither inserts, indexes nor begins an insert, and gives no key
\* a holder that no world had.
LEMMA KeysQuiet ==
    ASSUME KeysOK, keyIndex' = keyIndex, raced \subseteq raced',
           \A t \in Task : (task[t].pc \in InsertPcs \/ task'[t].pc \in InsertPcs) =>
                              task'[t] = task[t],
           \A q \in Worlds' : \E w \in Worlds : \A k \in Key : Holders(q, k) \subseteq Holders(w, k)
    PROVE  KeysOK'
<1> SUFFICES ASSUME NEW k \in Key \ raced PROVE Alone(k)'
    BY DEF KeysOK
<1>1. Inserting(k)' = Inserting(k)
    BY DEF Inserting, InsertPcs
<1>2. \A t \in Inserting(k) : task'[t] = task[t]
    BY DEF Inserting, InsertPcs
<1>3. Accounted(k)' = Accounted(k)
    BY <1>1, <1>2 DEF Accounted
<1>4. Alone(k)
    BY DEF KeysOK
<1> QED
    BY <1>1, <1>3, <1>4 DEF Alone

\* The tasks' part of such a step.
LEMMA MovesQuietly ==
    ASSUME ServerInv, NEW t \in Task, task[t].pc \notin InsertPcs,
           \/ \E r : Return(t, r)
           \/ \E pc : pc \notin InsertPcs /\ Goto(t, pc)
           \/ \E f : f.pc \notin InsertPcs /\ task' = [task EXCEPT ![t] = f]
    PROVE  \A u \in Task : (task[u].pc \in InsertPcs \/ task'[u].pc \in InsertPcs) =>
                              task'[u] = task[u]
<1>1. task \in [Task -> FramesIn(ServerPcs, Answers)]
    BY DEF ServerInv, InvIn, TasksIn
<1>2. ASSUME NEW f, f.pc \notin InsertPcs, task' = [task EXCEPT ![t] = f]
      PROVE  \A u \in Task : (task[u].pc \in InsertPcs \/ task'[u].pc \in InsertPcs) =>
                                task'[u] = task[u]
  <2>1. \A u \in Task : task'[u] = IF u = t THEN f ELSE task[u]
      BY <1>1, <1>2
  <2> QED
      BY <1>2, <2>1
<1>3. ASSUME NEW r, Return(t, r) PROVE \E f : f.pc \notin InsertPcs /\ task' = [task EXCEPT ![t] = f]
  <2>1. Idle(r).pc = "idle"
      BY DEF Idle, Frame
  <2> QED
      BY <1>3, <2>1 DEF Return, InsertPcs
<1>4. ASSUME NEW pc, pc \notin InsertPcs, Goto(t, pc)
      PROVE  \E f : f.pc \notin InsertPcs /\ task' = [task EXCEPT ![t] = f]
  <2> DEFINE f == [task[t] EXCEPT !.pc = pc]
  <2>1. task[t] \in FramesIn(ServerPcs, Answers)
      BY <1>1
  <2>2. f.pc = pc
      BY <2>1 DEF FramesIn
  <2>3. task' = [task EXCEPT ![t] = f]
      BY <1>4 DEF Goto
  <2> HIDE DEF f
  <2> QED
      BY <1>4, <2>2, <2>3
<1> QED
    BY <1>2, <1>3, <1>4

LEMMA KeysInit == GatewayInit => KeysOK
<1> SUFFICES ASSUME GatewayInit, NEW k \in Key PROVE Alone(k)
    BY DEF KeysOK
<1>1. Inserting(k) = {}
    BY DEF GatewayInit, Init, Inserting, Idle, Frame
<1>2. Worlds = {quad}
    BY DEF GatewayInit, Init, Worlds, Snapshots
<1>3. QuadInv(quad) /\ Cardinality(Holders(quad, k)) <= 1
    BY RuntimeAssumption, GatewayAssumption DEF GatewayInit, Init
<1>4. IsFiniteSet(Holders(quad, k))
    BY <1>3, FS_Subset DEF QuadInv, Finite, Holders
<1>5. /\ keyIndex = IndexOf(quad)
      /\ \A id \in Holders(quad, k) : k \in DOMAIN keyIndex /\ keyIndex[k] \in Holders(quad, k)
    BY <1>3, IndexHolds DEF GatewayInit, Init
<1>6. Holders(quad, k) \subseteq {keyIndex[j] : j \in {k} \cap DOMAIN keyIndex}
  <2>1. Cardinality(Holders(quad, k)) \in Nat
      BY <1>4, FS_CardinalityType
  <2>2. Cardinality(Holders(quad, k)) = 0 \/ Cardinality(Holders(quad, k)) = 1
      BY <1>3, <2>1
  <2>3. Holders(quad, k) = {} \/ \E x : Holders(quad, k) = {x}
      BY <1>4, <2>2, FS_EmptySet, FS_Singleton
  <2> QED
      BY <1>5, <2>3
<1> QED
    BY <1>1, <1>2, <1>6 DEF Alone, Accounted

\* A set request looks its key up; a second insert of a key under way is a race.
LEMMA SetKeys ==
    ASSUME ServerInv, KeysOK, NEW t \in Task, NEW req, NEW k \in Key, NEW v, NEW c,
           HandleBeliefSet(t, req, k, v, c)
    PROVE  KeysOK'
<1>1. /\ task[t].pc = "idle" /\ keyIndex' = keyIndex
      /\ UNCHANGED <<quad, checkpoints>>
      /\ raced' = IF k \notin DOMAIN keyIndex /\ Inserting(k) # {} THEN raced \cup {k} ELSE raced
      /\ task' = [task EXCEPT ![t] = IF k \in DOMAIN keyIndex
                                     THEN Frame("admit", k, keyIndex[k], v, c)
                                     ELSE Frame("insert", k, None, v, c)]
    BY DEF HandleBeliefSet, SetBelief, Begin
<1>2. Worlds' \subseteq Worlds
    BY <1>1, WorldsKept
<1>3. CASE k \in DOMAIN keyIndex
  <2> DEFINE f == Frame("admit", k, keyIndex[k], v, c)
  <2>1. task' = [task EXCEPT ![t] = f] /\ f.pc \notin InsertPcs /\ task[t].pc \notin InsertPcs
      BY <1>1, <1>3 DEF Frame, InsertPcs
  <2> HIDE DEF f
  <2>2. \A u \in Task : (task[u].pc \in InsertPcs \/ task'[u].pc \in InsertPcs) =>
                           task'[u] = task[u]
      BY <2>1, MovesQuietly
  <2> QED
      BY <1>1, <1>2, <2>2, KeysQuiet
<1>4. CASE k \notin DOMAIN keyIndex
  <2> DEFINE f == Frame("insert", k, None, v, c)
  <2>1. \A u \in Task : task'[u] = IF u = t THEN f ELSE task[u]
      BY <1>1, <1>4 DEF ServerInv, InvIn, TasksIn
  <2>2. f.pc = "insert" /\ f.key = k
      BY DEF Frame
  <2> HIDE DEF f
  <2> SUFFICES ASSUME NEW l \in Key \ raced' PROVE Alone(l)'
      BY DEF KeysOK
  <2>3. Alone(l)
      BY <1>1 DEF KeysOK
  <2>4. CASE l # k
    <3>1. Inserting(l)' = Inserting(l)
        BY <1>1, <2>1, <2>2, <2>4 DEF Inserting
    <3>2. \A u \in Inserting(l) : task'[u] = task[u]
        BY <1>1, <2>1 DEF Inserting
    <3>3. Accounted(l)' = Accounted(l)
        BY <1>1, <3>1, <3>2 DEF Accounted
    <3> QED
        BY <1>1, <1>2, <2>3, <3>1, <3>3 DEF Alone
  <2>5. CASE l = k
    <3>1. Inserting(k) = {}
        BY <1>1, <1>4, <2>5
    <3>2. Inserting(k)' = {t}
        BY <2>1, <2>2, <3>1 DEF Inserting
    <3>3. Accounted(k) = {}
        BY <1>4, <3>1 DEF Accounted
    <3> QED
        BY <1>1, <1>2, <1>4, <2>3, <2>5, <3>2, <3>3 DEF Alone
  <2> QED
      BY <2>4, <2>5
<1> QED
    BY <1>3, <1>4

\* The one insert under way of a new key gives it its one belief.
LEMMA InsertKeys ==
    ASSUME ServerInv, KeysOK, raced' = raced, NEW t \in Task, InsertNode(t)
    PROVE  KeysOK'
<1> DEFINE k    == task[t].key
           new  == NextId(quad)
           node == [key |-> k, value |-> task[t].value, fast |-> task[t].conf, slow |-> None]
           f    == [[task[t] EXCEPT !.pc = "index"] EXCEPT !.id = new]
<1>1. /\ task[t].pc = "insert" /\ quad' = Insert(quad, node) /\ task' = [task EXCEPT ![t] = f]
      /\ UNCHANGED <<checkpoints, keyIndex>>
    BY DEF InsertNode
<1>2. QuadInv(quad) /\ task \in [Task -> FramesIn(ServerPcs, Answers)]
    BY DEF ServerInv, InvIn, TasksIn
<1>3. \A l : Holders(quad', l) \subseteq Holders(quad, l) \cup {id \in {new} : l = k}
    BY <1>1, <1>2, InsertHolders
<1>4. f.pc = "index" /\ f.id = new /\ f.key = k
  <2>1. task[t] \in FramesIn(ServerPcs, Answers)
      BY <1>2
  <2> QED
      BY <2>1 DEF FramesIn
<1>5. \A u \in Task : task'[u] = IF u = t THEN f ELSE task[u]
    BY <1>1, <1>2
<1>6. \A q \in Worlds' : q \in Worlds \/ q = quad'
    BY <1>1 DEF Worlds, Snapshots
<1> HIDE DEF f, new, node
<1> SUFFICES ASSUME NEW l \in Key \ raced PROVE Alone(l)'
    BY DEF KeysOK
<1>7. Alone(l) /\ quad \in Worlds
    BY DEF KeysOK, Worlds
<1>8. Inserting(l)' = Inserting(l)
    BY <1>1, <1>4, <1>5 DEF Inserting
<1>9. CASE l # k
  <2>1. \A u \in Inserting(l) : task'[u] = task[u]
      BY <1>5, <1>9 DEF Inserting
  <2>2. Accounted(l)' = Accounted(l)
      BY <1>1, <1>8, <2>1 DEF Accounted
  <2>3. Holders(quad', l) \subseteq Holders(quad, l)
      BY <1>3, <1>9
  <2> QED
      BY <1>1, <1>6, <1>7, <1>8, <2>2, <2>3 DEF Alone
<1>10. CASE l = k
  <2>1. t \in Inserting(l)
      BY <1>1, <1>10 DEF Inserting
  <2>2. Inserting(l) = {t} /\ l \notin DOMAIN keyIndex
      BY <1>7, <2>1 DEF Alone
  <2>3. Accounted(l) = {}
      BY <1>1, <2>2 DEF Accounted
  <2>4. Accounted(l)' = {new}
    <3>1. {u \in Inserting(l)' : task'[u].pc = "index"} = {t}
        BY <1>4, <1>5, <1>8, <2>2
    <3>2. task'[t].id = new
        BY <1>4, <1>5
    <3> QED
        BY <1>1, <2>2, <3>1, <3>2 DEF Accounted
  <2>5. Holders(quad', l) \subseteq {new}
      BY <1>3, <1>7, <2>3 DEF Alone
  <2>6. \A q \in Worlds' : Holders(q, l) \subseteq {new}
      BY <1>6, <1>7, <2>3, <2>5 DEF Alone
  <2> QED
      BY <1>1, <1>7, <1>8, <2>2, <2>4, <2>6 DEF Alone
<1> QED
    BY <1>9, <1>10

\* Indexing the inserted belief: what was accounted for by the task now is by
\* the index.
LEMMA IndexKeys ==
    ASSUME ServerInv, KeysOK, raced' = raced, NEW t \in Task, IndexKey(t)
    PROVE  KeysOK'
<1> DEFINE k == task[t].key
           f == Idle("Ok")
<1>1. /\ task[t].pc = "index" /\ task' = [task EXCEPT ![t] = f]
      /\ keyIndex' = [l \in DOMAIN keyIndex \cup {k} |-> IF l = k THEN task[t].id ELSE keyIndex[l]]
      /\ UNCHANGED <<quad, checkpoints>>
    BY DEF IndexKey, Return
<1>2. f.pc = "idle"
    BY DEF Idle, Frame
<1> HIDE DEF f
<1>3. \A u \in Task : task'[u] = IF u = t THEN f ELSE task[u]
    BY <1>1 DEF ServerInv, InvIn, TasksIn
<1>4. Worlds' = Worlds
    BY <1>1 DEF Worlds, Snapshots
<1> SUFFICES ASSUME NEW l \in Key \ raced PROVE Alone(l)'
    BY DEF KeysOK
<1>5. Alone(l)
    BY DEF KeysOK
<1>6. CASE l # k
  <2>1. Inserting(l)' = Inserting(l) /\ \A u \in Inserting(l) : task'[u] = task[u]
      BY <1>2, <1>3, <1>6 DEF Inserting
  <2>2. /\ {l} \cap DOMAIN keyIndex' = {l} \cap DOMAIN keyIndex
        /\ l \in DOMAIN keyIndex => keyIndex'[l] = keyIndex[l]
      BY <1>1, <1>6
  <2>3. Accounted(l)' = Accounted(l)
      BY <2>1, <2>2 DEF Accounted
  <2> QED
      BY <1>4, <1>5, <2>1, <2>2, <2>3 DEF Alone
<1>7. CASE l = k
  <2>1. t \in Inserting(l)
      BY <1>1, <1>7 DEF Inserting
  <2>2. Inserting(l) = {t} /\ l \notin DOMAIN keyIndex
      BY <1>5, <2>1 DEF Alone
  <2>3. Inserting(l)' = {}
      BY <1>2, <1>3, <2>2 DEF Inserting
  <2>4. Accounted(l) = {task[t].id}
    <3>1. {u \in Inserting(l) : task[u].pc = "index"} = {t}
        BY <1>1, <2>2
    <3> QED
        BY <2>2, <3>1 DEF Accounted
  <2>5. l \in DOMAIN keyIndex' /\ keyIndex'[l] = task[t].id
      BY <1>1, <1>7
  <2>6. Accounted(l)' = {task[t].id}
      BY <2>3, <2>5 DEF Accounted
  <2> QED
      BY <1>4, <1>5, <2>3, <2>4, <2>6 DEF Alone
<1> QED
    BY <1>6, <1>7

\* The other steps of a set request.
LEMMA StepKeys ==
    ASSUME ServerInv, KeysOK, raced' = raced, NEW t \in Task, Proceed(t)
    PROVE  KeysOK'
<1> DEFINE Quietly == \A u \in Task : (task[u].pc \in InsertPcs \/ task'[u].pc \in InsertPcs) =>
                                         task'[u] = task[u]
<1>1. ASSUME Quietly, keyIndex' = keyIndex, Worlds' \subseteq Worlds PROVE KeysOK'
    BY <1>1, KeysQuiet
<1> HIDE DEF Quietly
<1>2. ASSUME task[t].pc \notin InsertPcs,
             \/ \E r : Return(t, r)
             \/ \E pc : pc \notin InsertPcs /\ Goto(t, pc)
             \/ \E f : f.pc \notin InsertPcs /\ task' = [task EXCEPT ![t] = f]
      PROVE  Quietly
    BY <1>2, MovesQuietly DEF Quietly
<1>3. task[t] \in FramesIn(ServerPcs, Answers) /\ Working(task[t])
    BY DEF ServerInv, InvIn, TasksIn
<1>4. ASSUME UNCHANGED <<quad, checkpoints>> PROVE Worlds' \subseteq Worlds
    BY <1>4, WorldsKept
<1>5. CASE Admit(t)
  <2>1. Quietly
      BY <1>2, <1>5 DEF Admit, InsertPcs
  <2> QED
      BY <1>1, <1>4, <1>5, <2>1 DEF Admit
<1>6. CASE Meter(t)
  <2>1. Quietly
      BY <1>2, <1>6 DEF Meter, InsertPcs
  <2> QED
      BY <1>1, <1>4, <1>6, <2>1 DEF Meter
<1>7. CASE PreRevisionCheckpoint(t)
  <2> DEFINE f == [[task[t] EXCEPT !.pc = "revise"] EXCEPT !.cp = nextCp]
  <2>1. task' = [task EXCEPT ![t] = f] /\ task[t].pc = "checkpoint"
      BY <1>7 DEF PreRevisionCheckpoint
  <2>2. f.pc = "revise"
      BY <1>3 DEF FramesIn
  <2> HIDE DEF f
  <2>3. Quietly
      BY <1>2, <2>1, <2>2 DEF InsertPcs
  <2>4. Worlds' \subseteq Worlds
      BY <1>7, WorldsKept DEF PreRevisionCheckpoint, Marked
  <2> QED
      BY <1>1, <1>7, <2>3, <2>4 DEF PreRevisionCheckpoint
<1>8. CASE ReviseAndPropagate(t)
  <2> DEFINE id == task[t].id
             v  == task[t].value
             c  == task[t].conf
  <2>1. task[t].pc = "revise" /\ UNCHANGED <<checkpoints, keyIndex>>
      BY <1>8 DEF ReviseAndPropagate
  <2>2. id \in BeliefId /\ v \in Value /\ c \in Int /\ QuadInv(quad)
      BY <1>3, <2>1 DEF Working, RuntimePcs, Committed, FramesIn, ServerInv, InvIn
  <2>3. PICK out \in Revise(quad, id, v, c) :
          \/ quad' = out.quad /\ Return(t, out.result)
          \/ /\ \E decay \in [Live(out.quad) -> Decays] : quad' \in Propagate(out.quad, decay, id)
             /\ task' = [task EXCEPT ![t].pc = "post",
                                     ![t].fast = quad'.nodes[id].fast,
                                     ![t].contradicted = out.contracted # {}]
      BY <1>8 DEF ReviseAndPropagate
  <2> HIDE DEF id, v, c
  <2>4. \A k \in Key : Holders(quad', k) \subseteq Holders(quad, k)
      BY <2>2, <2>3, ReviseHolders
  <2>5. \A q \in Worlds' : \E w \in Worlds : \A k \in Key : Holders(q, k) \subseteq Holders(w, k)
    <3>1. \A q \in Worlds' : q \in Worlds \/ q = quad'
        BY <2>1 DEF Worlds, Snapshots
    <3>2. quad \in Worlds
        BY DEF Worlds
    <3> QED
        BY <2>4, <3>1, <3>2
  <2>6. Quietly
    <3>1. CASE Return(t, out.result)
        BY <1>2, <2>1, <3>1 DEF InsertPcs
    <3>2. CASE task' = [task EXCEPT ![t].pc = "post",
                                    ![t].fast = quad'.nodes[id].fast,
                                    ![t].contradicted = out.contracted # {}]
      <4> DEFINE f == [[[task[t] EXCEPT !.pc = "post"]
                          EXCEPT !.fast = quad'.nodes[id].fast]
                          EXCEPT !.contradicted = out.contracted # {}]
      <4>1. task' = [task EXCEPT ![t] = f]
          BY <3>2
      <4>2. f.pc = "post"
          BY <1>3 DEF FramesIn
      <4> HIDE DEF f
      <4> QED
          BY <1>2, <2>1, <4>1, <4>2 DEF InsertPcs
    <3> QED
        BY <2>3, <3>1, <3>2
  <2> QED
      BY <2>1, <2>5, <2>6, KeysQuiet DEF Quietly
<1>9. CASE EnforceContracts(t)
  <2>1. /\ UNCHANGED <<quad, checkpoints, keyIndex>> /\ task[t].pc = "post"
        /\ Goto(t, IF task[t].contradicted THEN "mark" ELSE "record")
      BY <1>9, ServerEnforces DEF EnforceContracts
  <2>2. Quietly
      BY <1>2, <2>1 DEF InsertPcs
  <2> QED
      BY <1>1, <1>4, <2>1, <2>2
<1>10. CASE MarkWrong(t)
  <2>1. Quietly
      BY <1>2, <1>10 DEF MarkWrong, InsertPcs
  <2> QED
      BY <1>1, <1>4, <1>10, <2>1 DEF MarkWrong
<1>11. CASE RecordConfidence(t)
  <2>1. Quietly
      BY <1>2, <1>11 DEF RecordConfidence, InsertPcs
  <2> QED
      BY <1>1, <1>4, <1>11, <2>1 DEF RecordConfidence
<1> QED
    BY <1>5, <1>6, <1>7, <1>8, <1>9, <1>10, <1>11, InsertKeys, IndexKeys DEF Proceed

\* A request other than a set, and the steps of no request.
LEMMA DispatchKeys ==
    ASSUME ServerInv, KeysOK, NEW t \in Task, NEW req \in Requests, Dispatch(t, req)
    PROVE  KeysOK'
<1>1. ASSUME task[t].pc = "idle", UNCHANGED <<keyIndex, raced>>, Worlds' \subseteq Worlds,
             \/ \E r : Return(t, r)
             \/ \E f : f.pc \notin InsertPcs /\ task' = [task EXCEPT ![t] = f]
      PROVE  KeysOK'
  <2>1. \A u \in Task : (task[u].pc \in InsertPcs \/ task'[u].pc \in InsertPcs) =>
                           task'[u] = task[u]
      BY <1>1, MovesQuietly DEF InsertPcs
  <2> QED
      BY <1>1, <2>1, KeysQuiet
<1>2. ASSUME Begin(t), \E r : Return(t, r), Untouched, raced' = raced PROVE KeysOK'
  <2>1. Worlds' \subseteq Worlds
      BY <1>2, WorldsKept DEF Untouched
  <2> QED
      BY <1>1, <1>2, <2>1 DEF Begin, Untouched
<1>3. CASE Turned(t, req)
    BY <1>2, <1>3 DEF Turned, observed
<1>4. ASSUME NEW a \in Assignments, NEW c \in ConfIn, HandleBeliefSet(t, req, a.key, a.value, c)
      PROVE  KeysOK'
  <2>1. a.key \in Key
      BY GatewayAssumption
  <2> QED
      BY <1>4, <2>1, SetKeys
<1>5. CASE HandleCheckpoint(t, req)
  <2> DEFINE f == [Frame("version", None, None, None, 0) EXCEPT !.cp = nextCp]
  <2>1. /\ Begin(t) /\ task' = [task EXCEPT ![t] = f]
        /\ quad' = quad /\ checkpoints' = Append(checkpoints, Marked(quad))
        /\ UNCHANGED <<keyIndex, raced>>
      BY <1>5 DEF HandleCheckpoint, observed, Marked
  <2>2. f.pc \notin InsertPcs
      BY DEF Frame, InsertPcs
  <2> HIDE DEF f
  <2>3. Worlds' \subseteq Worlds
      BY <2>1, WorldsKept
  <2> QED
      BY <1>1, <2>1, <2>2, <2>3 DEF Begin
<1>6. ASSUME NEW cp, HandleDiff(t, req, cp) PROVE KeysOK'
    BY <1>2, <1>6 DEF HandleDiff
<1>7. ASSUME NEW cp, HandleRollback(t, req, cp) PROVE KeysOK'
  <2>1. CASE cp = None
      BY <1>2, <1>7, <2>1 DEF HandleRollback
  <2>2. CASE cp # None
    <3>1. RollbackTo(t, cp) /\ raced' = raced
        BY <1>7, <2>2 DEF HandleRollback
    <3> DEFINE out == Rollback(quad, checkpoints, cp)
    <3>2. /\ Begin(t) /\ quad' = out.quad /\ checkpoints' = out.checkpoints
          /\ Return(t, out.result) /\ keyIndex' = keyIndex
        BY <3>1 DEF RollbackTo
    <3>3. Worlds' \subseteq Worlds
        BY <3>2, WorldsKept
    <3> HIDE DEF out
    <3> QED
        BY <1>1, <3>1, <3>2, <3>3 DEF Begin
  <2> QED
      BY <2>1, <2>2
<1>8. ASSUME NEW k, HandleRead(t, req, k) PROVE KeysOK'
    BY <1>2, <1>8 DEF HandleRead, observed
<1>9. CASE HandleContractStatus(t, req)
    BY <1>2, <1>9 DEF HandleContractStatus, observed
<1> QED
    BY <1>3, <1>4, <1>5, <1>6, <1>7, <1>8, <1>9 DEF Dispatch

LEMMA KeysNext == ServerInv /\ KeysOK /\ [GatewayNext]_gatewayVars => KeysOK'
<1> SUFFICES ASSUME ServerInv, KeysOK, [GatewayNext]_gatewayVars PROVE KeysOK'
    OBVIOUS
<1>1. ASSUME NEW t \in Task, Continue(t) PROVE KeysOK'
    BY <1>1, StepKeys DEF Continue
<1>2. ASSUME NEW t \in Task, AnswerVersion(t) PROVE KeysOK'
  <2>1. /\ task[t].pc \notin InsertPcs /\ Return(t, "200")
        /\ UNCHANGED <<quad, checkpoints, keyIndex, raced>>
      BY <1>2 DEF AnswerVersion, Untouched, observed, InsertPcs
  <2>2. \A u \in Task : (task[u].pc \in InsertPcs \/ task'[u].pc \in InsertPcs) =>
                           task'[u] = task[u]
      BY <2>1, MovesQuietly
  <2>3. Worlds' \subseteq Worlds
      BY <2>1, WorldsKept
  <2> QED
      BY <2>1, <2>2, <2>3, KeysQuiet
<1>3. ASSUME UNCHANGED <<quad, checkpoints, keyIndex, task, raced>> PROVE KeysOK'
  <2>1. Worlds' \subseteq Worlds
      BY <1>3, WorldsKept
  <2> QED
      BY <1>3, <2>1, KeysQuiet
<1>4. CASE Tick
    BY <1>3, <1>4 DEF Tick, vars, observed
<1>5. CASE FinalizeSession
    BY <1>3, <1>5 DEF FinalizeSession, observed
<1>6. CASE UNCHANGED gatewayVars
    BY <1>3, <1>6 DEF gatewayVars, vars, observed
<1> QED
    BY <1>1, <1>2, <1>4, <1>5, <1>6, DispatchKeys DEF GatewayNext

\* However inserts, revisions, checkpoints and rollbacks of concurrent requests
\* follow each other, a key of which no two inserts overlapped has at most one
\* belief, the one the index holds or is about to.
THEOREM OneBeliefPerKey == GatewaySpec => []KeysHoldOneBelief
<1>1. ServerInv /\ KeysOK => KeysHoldOneBelief
  <2> SUFFICES ASSUME ServerInv, KeysOK, NEW k \in Key \ raced
               PROVE  /\ Cardinality(Holders(quad, k)) <= 1
                      /\ Holders(quad, k) \subseteq Accounted(k)
      BY DEF KeysHoldOneBelief, Accounted
  <2>1. Alone(k) /\ quad \in Worlds
      BY DEF KeysOK, Worlds
  <2>2. Holders(quad, k) \subseteq Accounted(k)
      BY <2>1 DEF Alone
  <2>3. \A x, y \in Accounted(k) : x = y
    <3>1. CASE k \in DOMAIN keyIndex
        BY <2>1, <3>1 DEF Alone, Accounted
    <3>2. CASE k \notin DOMAIN keyIndex
        BY <2>1, <3>2 DEF Alone, Accounted
    <3> QED
        BY <3>1, <3>2
  <2>4. Holders(quad, k) = {} \/ \E x : Holders(quad, k) = {x}
      BY <2>2, <2>3
  <2>5. Cardinality(Holders(quad, k)) \in {0, 1}
      BY <2>4, FS_EmptySet, FS_Singleton
  <2> QED
      BY <2>2, <2>5
<1> QED
    BY <1>1, KeysInit, KeysNext, ServerInvariance, PTL DEF GatewaySpec

-----------------------------------------------------------------------------
(* The server: what the records of a belief say of its revisions *)

PickEquation(m, n, w, id) ==
    m = [i \in 0 .. n |->
           IF i = 0 THEN <<>>
           ELSE IF w[i].id = id THEN Append(m[i - 1], w[i]) ELSE m[i - 1]]
Picks(m, n, w, id, S) ==
    /\ m \in [0 .. n -> Seq(S)] /\ m[0] = <<>>
    /\ \A i \in 1 .. n : m[i] = IF w[i].id = id THEN Append(m[i - 1], w[i]) ELSE m[i - 1]

\* Of goes through the sequence once and keeps what is about the belief.
LEMMA PickRun ==
    ASSUME NEW S, NEW n \in Nat, NEW w \in [1 .. n -> S], NEW id
    PROVE  /\ \E m : PickEquation(m, n, w, id)
           /\ \A m : PickEquation(m, n, w, id) => Picks(m, n, w, id, S)
<1> USE DEF PickEquation, Picks
<1> DEFINE step == [x \in (1 .. n) \X Seq(S) |->
                      IF w[x[1]].id = id THEN Append(x[2], w[x[1]]) ELSE x[2]]
<1>1. step \in Steps(n, Seq(S)) /\ <<>> \in Seq(S)
  <2>1. \A x \in (1 .. n) \X Seq(S) :
          (IF w[x[1]].id = id THEN Append(x[2], w[x[1]]) ELSE x[2]) \in Seq(S)
      OBVIOUS
  <2> QED
      BY <2>1 DEF Steps
<1>2. \A i \in 1 .. n, x \in Seq(S) :
        step[<<i, x>>] = IF w[i].id = id THEN Append(x, w[i]) ELSE x
    OBVIOUS
<1> HIDE DEF step
<1>3. PICK f : Iterates(f, n, Seq(S), <<>>, step)
    BY <1>1, SegmentRecursion
<1>4. PickEquation(f, n, w, id)
  <2> USE <1>3 DEF Iterates
  <2>1. \A i \in 0 .. n : f[i] = IF i = 0 THEN <<>>
                                 ELSE IF w[i].id = id THEN Append(f[i - 1], w[i]) ELSE f[i - 1]
    <3> SUFFICES ASSUME NEW i \in 0 .. n
                 PROVE  f[i] = IF i = 0 THEN <<>>
                               ELSE IF w[i].id = id THEN Append(f[i - 1], w[i]) ELSE f[i - 1]
        OBVIOUS
    <3>1. CASE i = 0
        BY <1>3, <3>1
    <3>2. CASE i # 0
      <4>1. i \in 1 .. n /\ i - 1 \in 0 .. n
          BY <3>2
      <4>2. f[i - 1] \in Seq(S)
          BY <4>1
      <4> QED
          BY <1>2, <1>3, <3>2, <4>1, <4>2
    <3> QED
        BY <3>1, <3>2
  <2> QED
      BY <2>1
<1>5. ASSUME NEW m, PickEquation(m, n, w, id)
      PROVE  Picks(m, n, w, id, S)
  <2> DEFINE T == {i \in 0 .. n : m[i] \in Seq(S)}
  <2>1. /\ m[0] = <<>>
        /\ \A i \in 1 .. n : m[i] = IF w[i].id = id THEN Append(m[i - 1], w[i]) ELSE m[i - 1]
    <3>1. \A i \in 0 .. n : m[i] = IF i = 0 THEN <<>>
                                   ELSE IF w[i].id = id THEN Append(m[i - 1], w[i]) ELSE m[i - 1]
        BY <1>5
    <3>2. 0 \in 0 .. n /\ \A i \in 1 .. n : i \in 0 .. n /\ i # 0
        OBVIOUS
    <3> QED
        BY <3>1, <3>2
  <2>2. 0 \in T
    <3>1. <<>> \in Seq(S) /\ 0 \in 0 .. n
        OBVIOUS
    <3> QED
        BY <2>1, <3>1
  <2>3. ASSUME NEW i \in 0 .. n - 1, i \in T PROVE i + 1 \in T
    <3>1. i + 1 \in 1 .. n /\ (i + 1) - 1 = i /\ i + 1 \in 0 .. n
        OBVIOUS
    <3>2. /\ m[i + 1] = IF w[i + 1].id = id THEN Append(m[i], w[i + 1]) ELSE m[i]
          /\ w[i + 1] \in S /\ m[i] \in Seq(S)
        BY <2>1, <2>3, <3>1
    <3>3. \A r \in Seq(S), x \in S : Append(r, x) \in Seq(S)
        OBVIOUS
    <3>4. m[i + 1] \in Seq(S)
        BY <3>2, <3>3
    <3> QED
        BY <3>1, <3>4
  <2> HIDE DEF T
  <2>4. 0 .. n \subseteq T
      BY <2>2, <2>3, SegmentInduction
  <2>5. \A i \in 0 .. n : m[i] \in Seq(S)
      BY <2>4 DEF T
  <2>6. m = [i \in 0 .. n |-> m[i]]
      BY <1>5
  <2> QED
      BY <2>1, <2>5, <2>6
<1> HIDE DEF PickEquation, Picks
<1> QED
    BY <1>4, <1>5

LEMMA OfRun ==
    ASSUME NEW S, NEW s \in Seq(S), NEW id
    PROVE  \E m : Picks(m, Len(s), s, id, S) /\ Of(id, s) = m[Len(s)]
<1> DEFINE n == Len(s)
           found == CHOOSE m : PickEquation(m, n, s, id)
<1>1. n \in Nat /\ s \in [1 .. n -> S]
    OBVIOUS
<1>2. Of(id, s) =
        LET of == CHOOSE of : of = [i \in 0 .. Len(s) |->
                    IF i = 0 THEN <<>>
                    ELSE IF s[i].id = id THEN Append(of[i - 1], s[i]) ELSE of[i - 1]]
        IN  of[Len(s)]
    BY Zenon DEF Of
<1>3. Of(id, s) = found[n]
    BY <1>2, Zenon DEF PickEquation
<1>4. PickEquation(found, n, s, id)
  <2> HIDE DEF n
  <2>1. \E m : PickEquation(m, n, s, id)
      BY <1>1, PickRun
  <2> QED
      BY <2>1, Zenon
<1> HIDE DEF found, n
<1>5. Picks(found, n, s, id, S)
    BY <1>1, <1>4, PickRun
<1> QED
    BY <1>3, <1>5 DEF n

LEMMA OfType ==
    ASSUME NEW S, NEW s \in Seq(S), NEW id
    PROVE  Of(id, s) \in Seq(S)
<1>1. Len(s) \in 0 .. Len(s)
    OBVIOUS
<1> QED
    BY <1>1, OfRun DEF Picks

\* Of nothing there is nothing about a belief.
LEMMA OfEmpty ==
    ASSUME NEW id
    PROVE  Of(id, <<>>) = <<>>
<1>1. <<>> \in Seq({}) /\ Len(<<>>) = 0
    OBVIOUS
<1>2. PICK m : Picks(m, Len(<<>>), <<>>, id, {}) /\ Of(id, <<>>) = m[Len(<<>>)]
    BY <1>1, OfRun
<1> QED
    BY <1>1, <1>2 DEF Picks

\* What is about another belief makes no difference.
LEMMA PicksAgree ==
    ASSUME NEW S, NEW n \in Nat, NEW k \in 0 .. n, NEW v, NEW w, NEW id,
           \A i \in 1 .. k : (v[i].id = id <=> w[i].id = id) /\ (w[i].id = id => v[i] = w[i]),
           NEW f, Picks(f, k, v, id, S), NEW g, Picks(g, n, w, id, S)
    PROVE  f[k] = g[k]
<1> USE DEF Picks
<1> DEFINE T == {i \in 0 .. k : f[i] = g[i]}
<1>1. 0 \in T
    OBVIOUS
<1>2. ASSUME NEW i \in 0 .. k - 1, i \in T PROVE i + 1 \in T
  <2>1. i + 1 \in 1 .. k /\ i + 1 \in 1 .. n /\ (i + 1) - 1 = i
      OBVIOUS
  <2>2. f[i + 1] = IF v[i + 1].id = id THEN Append(f[i], v[i + 1]) ELSE f[i]
    <3> HIDE DEF T
    <3> QED
        BY <2>1
  <2>3. g[i + 1] = IF w[i + 1].id = id THEN Append(g[i], w[i + 1]) ELSE g[i]
    <3> HIDE DEF T
    <3> QED
        BY <2>1
  <2>4. f[i] = g[i]
      BY <1>2
  <2> DEFINE x == v[i + 1]
             y == w[i + 1]
  <2> HIDE DEF Picks
  <2>5. (x.id = id <=> y.id = id) /\ (y.id = id => x = y)
      BY <2>1, Zenon
  <2>6. /\ f[i + 1] = IF x.id = id THEN Append(f[i], x) ELSE f[i]
        /\ g[i + 1] = IF y.id = id THEN Append(g[i], y) ELSE g[i]
      BY <2>2, <2>3, Zenon
  <2> HIDE DEF x, y
  <2>7. f[i + 1] = g[i + 1]
      BY ONLY <2>4, <2>5, <2>6
  <2>8. i + 1 \in 0 .. k
      BY <2>1
  <2> QED
      BY <2>7, <2>8
<1>3. k \in T
  <2> HIDE DEF T
  <2>1. k \in Nat
      OBVIOUS
  <2>2. 0 .. k \subseteq T
      BY <1>1, <1>2, <2>1, SegmentInduction
  <2> QED
      BY <2>1, <2>2
<1> QED
    BY <1>3

\* What is appended counts if it is about the belief.
LEMMA OfAppend ==
    ASSUME NEW S, NEW s \in Seq(S), NEW x \in S, NEW id
    PROVE  Of(id, Append(s, x)) = IF x.id = id THEN Append(Of(id, s), x) ELSE Of(id, s)
<1> DEFINE t == Append(s, x)
           k == Len(s)
           n == Len(t)
<1>1. /\ t \in Seq(S) /\ k \in Nat /\ n = k + 1 /\ t[n] = x
      /\ \A i \in 1 .. k : s[i] = t[i]
    OBVIOUS
<1> HIDE DEF t, k, n
<1>2. PICK f : Picks(f, k, s, id, S) /\ Of(id, s) = f[k]
    BY OfRun DEF k
<1>3. PICK g : Picks(g, n, t, id, S) /\ Of(id, t) = g[n]
    BY <1>1, OfRun DEF n
<1>4. f[k] = g[k]
    BY <1>1, <1>2, <1>3, PicksAgree
<1>5. g[n] = IF t[n].id = id THEN Append(g[n - 1], t[n]) ELSE g[n - 1]
    BY <1>1, <1>3 DEF Picks
<1>6. n - 1 = k
    BY <1>1
<1> QED
    BY <1>1, <1>2, <1>3, <1>4, <1>5, <1>6 DEF t

LEMMA OfOthers ==
    ASSUME NEW S, NEW s \in Seq(S), NEW t \in Seq(S), NEW id, Len(t) = Len(s),
           \A i \in 1 .. Len(s) : (t[i].id = id <=> s[i].id = id) /\ (s[i].id = id => t[i] = s[i])
    PROVE  Of(id, t) = Of(id, s)
<1> DEFINE n == Len(s)
<1>1. PICK f : Picks(f, n, t, id, S) /\ Of(id, t) = f[n]
    BY OfRun
<1>2. PICK g : Picks(g, n, s, id, S) /\ Of(id, s) = g[n]
    BY OfRun
<1>3. n \in Nat /\ n \in 0 .. n
    OBVIOUS
<1> HIDE DEF n
<1>4. f[n] = g[n]
    BY <1>1, <1>2, <1>3, PicksAgree DEF n
<1> QED
    BY <1>1, <1>2, <1>4

\* A belief has nothing in the sequence exactly if nothing in it is about it.
LEMMA OfNone ==
    ASSUME NEW S, NEW s \in Seq(S), NEW id
    PROVE  Of(id, s) = <<>> <=> \A j \in 1 .. Len(s) : s[j].id # id
<1> DEFINE n == Len(s)
<1>1. PICK f : Picks(f, n, s, id, S) /\ Of(id, s) = f[n]
    BY OfRun
<1>2. n \in Nat /\ \A i \in 1 .. n : s[i] \in S
    OBVIOUS
<1> HIDE DEF n
<1> USE DEF Picks
<1> DEFINE T == {i \in 0 .. n : f[i] = <<>> <=> \A j \in 1 .. i : s[j].id # id}
<1>3. 0 \in T
    BY <1>1, <1>2
<1>4. ASSUME NEW i \in 0 .. n - 1, i \in T PROVE i + 1 \in T
  <2>1. i + 1 \in 1 .. n /\ (i + 1) - 1 = i /\ i \in 0 .. n
      BY <1>2
  <2>2. /\ f[i + 1] = IF s[i + 1].id = id THEN Append(f[i], s[i + 1]) ELSE f[i]
        /\ f[i] \in Seq(S) /\ s[i + 1] \in S
      BY <1>1, <1>2, <2>1
  <2>3. \A j \in 1 .. i + 1 : j \in 1 .. i \/ j = i + 1
      BY <1>2
  <2>4. \A r \in Seq(S), x \in S : Append(r, x) # <<>>
      OBVIOUS
  <2>5. f[i] = <<>> <=> \A j \in 1 .. i : s[j].id # id
      BY <1>4
  <2>6. 1 .. i \subseteq 1 .. i + 1 /\ i + 1 \in 1 .. i + 1
      BY <1>2
  <2>7. f[i + 1] = <<>> <=> \A j \in 1 .. i + 1 : s[j].id # id
      BY <2>2, <2>3, <2>4, <2>5, <2>6
  <2> QED
      BY <2>1, <2>7
<1>5. n \in T
  <2> HIDE DEF T
  <2>1. 0 .. n \subseteq T
      BY <1>2, <1>3, <1>4, SegmentInduction
  <2> QED
      BY <1>2, <2>1
<1> QED
    BY <1>1, <1>5 DEF n

IsWrong(r) == r.correct = FALSE

\* What the last record of the belief at k is marked as, and records that
\* keep their verdicts.
Verdicts(t, s, marked) ==
    /\ Len(t) = Len(s)
    /\ marked => Len(s) # 0
    /\ \A n \in 1 .. Len(s) : IsWrong(t[n]) <=> IsWrong(s[n]) \/ (marked /\ n = Len(s))

\* Marking a belief's last record, or none, marks the last of the belief's.
LEMMA OfVerdicts ==
    ASSUME NEW S, NEW s \in Seq(S), NEW t \in Seq(S), NEW id, Len(t) = Len(s), NEW k \in Nat,
           \A i \in 1 .. Len(s) : /\ t[i].id = s[i].id
                                  /\ i # k => (IsWrong(t[i]) <=> IsWrong(s[i])),
           k # 0 => /\ k \in 1 .. Len(s) /\ IsWrong(t[k]) /\ s[k].id = id
                    /\ \A i \in 1 .. Len(s) : i > k => s[i].id # id
    PROVE  Verdicts(Of(id, t), Of(id, s), k # 0)
<1> DEFINE n == Len(s)
<1>1. PICK f : Picks(f, n, t, id, S) /\ Of(id, t) = f[n]
    BY OfRun
<1>2. PICK g : Picks(g, n, s, id, S) /\ Of(id, s) = g[n]
    BY OfRun
<1>3. n \in Nat /\ n \in 0 .. n /\ \A i \in 1 .. n : s[i] \in S /\ t[i] \in S
    OBVIOUS
<1>4. /\ \A i \in 1 .. n : t[i].id = s[i].id /\ (i # k => (IsWrong(t[i]) <=> IsWrong(s[i])))
      /\ k # 0 => /\ k \in 1 .. n /\ IsWrong(t[k]) /\ s[k].id = id
                  /\ \A i \in 1 .. n : i > k => s[i].id # id
    OBVIOUS
<1> HIDE DEF n, IsWrong, Verdicts
<1> USE DEF Picks
<1> DEFINE T == {i \in 0 .. n : Verdicts(f[i], g[i], k # 0 /\ k <= i)}
<1>5. 0 \in T
  <2>1. f[0] = <<>> /\ g[0] = <<>> /\ ~(k # 0 /\ k <= 0)
      BY <1>1, <1>2
  <2>2. Verdicts(<<>>, <<>>, k # 0 /\ k <= 0)
      BY <2>1 DEF Verdicts
  <2> QED
      BY <1>3, <2>1, <2>2
<1>6. ASSUME NEW i \in 0 .. n - 1, i \in T PROVE i + 1 \in T
  <2>1. i + 1 \in 1 .. n /\ (i + 1) - 1 = i /\ i \in 0 .. n /\ i + 1 \in 0 .. n /\ i \in Nat
      BY <1>3
  <2>2. /\ g[i + 1] = IF s[i + 1].id = id THEN Append(g[i], s[i + 1]) ELSE g[i]
        /\ f[i + 1] = IF t[i + 1].id = id THEN Append(f[i], t[i + 1]) ELSE f[i]
        /\ g[i] \in Seq(S) /\ f[i] \in Seq(S)
      BY <1>1, <1>2, <2>1
  <2>3. Verdicts(f[i], g[i], k # 0 /\ k <= i)
      BY <1>6
  <2>4. t[i + 1].id = s[i + 1].id /\ t[i + 1] \in S /\ s[i + 1] \in S
      BY <1>3, <1>4, <2>1
  <2>5. CASE s[i + 1].id = id
    <3>1. ~(k # 0 /\ k <= i)
        BY <1>4, <2>1, <2>5
    <3>2. f[i + 1] = Append(f[i], t[i + 1]) /\ g[i + 1] = Append(g[i], s[i + 1])
        BY <2>2, <2>4, <2>5
    <3>3. Len(f[i]) = Len(g[i]) /\ \A m \in 1 .. Len(g[i]) : IsWrong(f[i][m]) <=> IsWrong(g[i][m])
        BY <2>3, <3>1 DEF Verdicts
    <3>4. IsWrong(t[i + 1]) <=> IsWrong(s[i + 1]) \/ (k # 0 /\ k <= i + 1)
      <4>1. CASE i + 1 = k
          BY <1>4, <2>1, <4>1
      <4>2. CASE i + 1 # k
        <5>1. ~(k # 0 /\ k <= i + 1)
            BY <2>1, <3>1, <4>2
        <5> QED
            BY <1>4, <2>1, <4>2, <5>1
      <4> QED
          BY <4>1, <4>2
    <3> DEFINE a == f[i]
               b == g[i]
               x == t[i + 1]
               y == s[i + 1]
               p == Append(a, x)
               q == Append(b, y)
    <3>5. a \in Seq(S) /\ b \in Seq(S) /\ x \in S /\ y \in S /\ Len(a) = Len(b)
          /\ \A m \in 1 .. Len(b) : IsWrong(a[m]) <=> IsWrong(b[m])
        BY <2>2, <2>4, <3>3
    <3> HIDE DEF a, b, x, y
    <3>6. /\ Len(p) = Len(b) + 1 /\ Len(q) = Len(b) + 1 /\ Len(b) \in Nat
          /\ p[Len(b) + 1] = x /\ q[Len(b) + 1] = y
          /\ \A m \in 1 .. Len(b) : p[m] = a[m] /\ q[m] = b[m]
        BY <3>5
    <3> HIDE DEF p, q
    <3>7. ASSUME NEW m \in 1 .. Len(q)
          PROVE  IsWrong(p[m]) <=> IsWrong(q[m]) \/ ((k # 0 /\ k <= i + 1) /\ m = Len(q))
      <4>1. CASE m = Len(q)
          BY <3>4, <3>6, <4>1 DEF x, y
      <4>2. CASE m # Len(q)
        <5>1. m \in 1 .. Len(b)
            BY <3>6, <3>7, <4>2
        <5> QED
            BY <3>5, <3>6, <4>2, <5>1
      <4> QED
          BY <4>1, <4>2
    <3>8. Verdicts(p, q, k # 0 /\ k <= i + 1)
        BY <3>6, <3>7 DEF Verdicts
    <3> QED
        BY <2>1, <3>2, <3>8 DEF p, q, a, b, x, y
  <2>6. CASE s[i + 1].id # id
    <3>1. f[i + 1] = f[i] /\ g[i + 1] = g[i]
        BY <2>2, <2>4, <2>6
    <3>2. (k # 0 /\ k <= i + 1) <=> (k # 0 /\ k <= i)
        BY <1>4, <2>1, <2>6
    <3>3. Verdicts(f[i + 1], g[i + 1], k # 0 /\ k <= i + 1)
        BY <2>3, <3>1, <3>2 DEF Verdicts
    <3> QED
        BY <2>1, <3>3
  <2> QED
      BY <2>5, <2>6
<1>7. n \in T
  <2> HIDE DEF T
  <2>1. 0 .. n \subseteq T
      BY <1>3, <1>5, <1>6, SegmentInduction
  <2> QED
      BY <1>3, <2>1
<1>8. Verdicts(f[n], g[n], k # 0 /\ k <= n)
    BY <1>7
<1>9. (k # 0 /\ k <= n) <=> k # 0
    BY <1>3, <1>4
<1> QED
    BY <1>1, <1>2, <1>8, <1>9 DEF Verdicts

-----------------------------------------------------------------------------
(* What a step of the server does to updates, records and revisions *)

UpdatePcs == {"post", "mark", "record"}

OthersStay(t) == \A u \in Task \ {t} : task'[u] = task[u]

\* A task not at an update, before or after, except for one that has begun.
Elsewhere(t) ==
    /\ task[t].pc \notin UpdatePcs /\ task'[t].pc \notin UpdatePcs
    /\ UNCHANGED <<history, revisions, overlapped>>
    /\ \/ tokensUsed' = tokensUsed /\ (task'[t].pc \in Committed => task[t].pc \in Committed)
       \/ tokensUsed' = tokensUsed + 1 /\ task[t].pc \notin Committed

SameUpdate(t) ==
    task'[t].id = task[t].id /\ task'[t].contradicted = task[t].contradicted

Revised(t) ==
    LET id == task[t].id
    IN  /\ task[t].pc = "revise" /\ task'[t].pc = "post" /\ task'[t].id = id
        /\ revisions' = Append(revisions, [id |-> id, contracted |-> task'[t].contradicted])
        /\ overlapped' = IF Updating(id) # {} THEN overlapped \cup {id} ELSE overlapped
        /\ UNCHANGED <<history, tokensUsed>>

LetThrough(t) ==
    /\ task[t].pc = "post" /\ SameUpdate(t)
    /\ task'[t].pc = IF task[t].contradicted THEN "mark" ELSE "record"
    /\ UNCHANGED <<history, revisions, overlapped, tokensUsed>>

Marking(t) ==
    /\ task[t].pc = "mark" /\ task'[t].pc = "record" /\ SameUpdate(t)
    /\ LET mine == RecordsOf(task[t].id)
           recent == CHOOSE i \in mine : \A j \in mine : j <= i
       IN  history' = IF mine = {} THEN history ELSE [history EXCEPT ![recent].correct = FALSE]
    /\ UNCHANGED <<revisions, overlapped, tokensUsed>>

Recorded(t) ==
    /\ task[t].pc = "record" /\ task'[t].pc = "idle"
    /\ history' = Append(history, [id |-> task[t].id, conf |-> task[t].fast, correct |-> None])
    /\ UNCHANGED <<revisions, overlapped, tokensUsed>>

TaskMoves(t) ==
    /\ OthersStay(t)
    /\ Elsewhere(t) \/ Revised(t) \/ LetThrough(t) \/ Marking(t) \/ Recorded(t)

Finalized ==
    /\ history' = [i \in DOMAIN history |->
                     [history[i] EXCEPT !.correct = IF @ = None THEN TRUE ELSE @]]
    /\ UNCHANGED <<task, revisions, overlapped, tokensUsed>>

Resting == UNCHANGED <<task, history, revisions, overlapped, tokensUsed>>

ServerMoves == Resting \/ Finalized \/ \E t \in Task : TaskMoves(t)

\* A step that writes one task's frame leaves the others at rest.
LEMMA MovedTo ==
    ASSUME ServerInv, NEW t \in Task, NEW f, task' = [task EXCEPT ![t] = f]
    PROVE  OthersStay(t) /\ task'[t] = f
BY DEF ServerInv, InvIn, TasksIn, OthersStay

\* The ways a step moves its task: back to rest, or on to another place.
LEMMA ReturnedTo ==
    ASSUME ServerInv, NEW t \in Task, NEW r, Return(t, r)
    PROVE  OthersStay(t) /\ task'[t].pc = "idle"
<1>1. Idle(r).pc = "idle"
    BY DEF Idle, Frame
<1> QED
    BY <1>1, MovedTo DEF Return

LEMMA WentTo ==
    ASSUME ServerInv, NEW t \in Task, NEW pc, Goto(t, pc)
    PROVE  OthersStay(t) /\ task'[t].pc = pc /\ SameUpdate(t)
<1> DEFINE f == [task[t] EXCEPT !.pc = pc]
<1>1. task' = [task EXCEPT ![t] = f]
    BY DEF Goto
<1>2. task[t] \in FramesIn(ServerPcs, Answers)
    BY DEF ServerInv, InvIn, TasksIn
<1>3. f.pc = pc /\ f.id = task[t].id /\ f.contradicted = task[t].contradicted
    BY <1>2 DEF FramesIn
<1> HIDE DEF f
<1>4. OthersStay(t) /\ task'[t] = f
    BY <1>1, MovedTo
<1> QED
    BY <1>3, <1>4 DEF SameUpdate

\* Requests begin and end away from updates, and take no token.
LEMMA RequestMoves ==
    ASSUME ServerInv, NEW t \in Task, NEW req \in Requests, Dispatch(t, req)
    PROVE  TaskMoves(t)
<1>1. ASSUME Begin(t), UNCHANGED <<history, revisions, overlapped, tokensUsed>>, OthersStay(t),
             task'[t].pc \notin Committed
      PROVE  TaskMoves(t)
    BY <1>1 DEF TaskMoves, Elsewhere, Begin, UpdatePcs, Committed
<1>2. ASSUME NEW r, Begin(t), Return(t, r), Untouched, UNCHANGED <<revisions, overlapped>>
      PROVE  TaskMoves(t)
  <2>1. OthersStay(t) /\ task'[t].pc \notin Committed
      BY <1>2, ReturnedTo DEF Committed
  <2> QED
      BY <1>1, <1>2, <2>1 DEF Untouched
<1>3. CASE Turned(t, req)
    BY <1>2, <1>3 DEF Turned, observed
<1>4. ASSUME NEW k, NEW v, NEW c, HandleBeliefSet(t, req, k, v, c) PROVE TaskMoves(t)
  <2> DEFINE f == IF k \in DOMAIN keyIndex THEN Frame("admit", k, keyIndex[k], v, c)
                  ELSE Frame("insert", k, None, v, c)
  <2>1. task' = [task EXCEPT ![t] = f]
      BY <1>4 DEF HandleBeliefSet, SetBelief
  <2>2. f.pc \notin Committed
      BY DEF Frame, Committed
  <2> HIDE DEF f
  <2>3. OthersStay(t) /\ task'[t].pc \notin Committed
      BY <2>1, <2>2, MovedTo
  <2> QED
      BY <1>1, <1>4, <2>3 DEF HandleBeliefSet, SetBelief
<1>5. CASE HandleCheckpoint(t, req)
  <2> DEFINE f == [Frame("version", None, None, None, 0) EXCEPT !.cp = nextCp]
  <2>1. task' = [task EXCEPT ![t] = f] /\ f.pc \notin Committed
      BY <1>5 DEF HandleCheckpoint, Frame, Committed
  <2> HIDE DEF f
  <2>2. OthersStay(t) /\ task'[t].pc \notin Committed
      BY <2>1, MovedTo
  <2> QED
      BY <1>1, <1>5, <2>2 DEF HandleCheckpoint, observed
<1>6. ASSUME NEW cp, HandleDiff(t, req, cp) PROVE TaskMoves(t)
    BY <1>2, <1>6 DEF HandleDiff
<1>7. ASSUME NEW cp, HandleRollback(t, req, cp) PROVE TaskMoves(t)
  <2>1. CASE cp = None
      BY <1>2, <1>7, <2>1 DEF HandleRollback
  <2>2. CASE cp # None
    <3>1. RollbackTo(t, cp) /\ UNCHANGED <<revisions, overlapped>>
        BY <1>7, <2>2 DEF HandleRollback
    <3>2. \E r : Return(t, r)
        BY <3>1 DEF RollbackTo
    <3>3. OthersStay(t) /\ task'[t].pc \notin Committed
        BY <3>2, ReturnedTo DEF Committed
    <3> QED
        BY <1>1, <3>1, <3>3 DEF RollbackTo
  <2> QED
      BY <2>1, <2>2
<1>8. ASSUME NEW k, HandleRead(t, req, k) PROVE TaskMoves(t)
    BY <1>2, <1>8 DEF HandleRead, observed
<1>9. CASE HandleContractStatus(t, req)
    BY <1>2, <1>9 DEF HandleContractStatus, observed
<1> QED
    BY <1>3, <1>4, <1>5, <1>6, <1>7, <1>8, <1>9 DEF Dispatch

\* Every further step of a request is one of the moves.
LEMMA ContinueMoves ==
    ASSUME ServerInv, NEW t \in Task, Continue(t)
    PROVE  TaskMoves(t)
<1> DEFINE id == task[t].id
           revised == task[t].pc = "revise" /\ task'[t].pc = "post"
<1>1. /\ revisions' = IF revised
                      THEN Append(revisions, [id |-> id, contracted |-> task'[t].contradicted])
                      ELSE revisions
      /\ overlapped' = IF revised /\ Updating(id) # {} THEN overlapped \cup {id} ELSE overlapped
    BY DEF Continue
<1>2. task[t] \in FramesIn(ServerPcs, Answers)
    BY DEF ServerInv, InvIn, TasksIn
<1>3. ASSUME OthersStay(t), task[t].pc \notin UpdatePcs, task'[t].pc \notin UpdatePcs,
             UNCHANGED <<history, tokensUsed>>, task'[t].pc \in Committed => task[t].pc \in Committed
      PROVE  TaskMoves(t)
  <2>1. UNCHANGED <<revisions, overlapped>>
      BY <1>1, <1>3 DEF UpdatePcs
  <2> QED
      BY <1>3, <2>1 DEF TaskMoves, Elsewhere
<1>4. ASSUME NEW r, Return(t, r), task[t].pc \notin UpdatePcs, UNCHANGED <<history, tokensUsed>>
      PROVE  TaskMoves(t)
  <2>1. OthersStay(t) /\ task'[t].pc = "idle"
      BY <1>4, ReturnedTo
  <2> QED
      BY <1>3, <1>4, <2>1 DEF UpdatePcs, Committed
<1>5. CASE InsertNode(t)
  <2> DEFINE f == [[task[t] EXCEPT !.pc = "index"] EXCEPT !.id = NextId(quad)]
  <2>1. task' = [task EXCEPT ![t] = f] /\ task[t].pc = "insert"
        /\ UNCHANGED <<history, tokensUsed>>
      BY <1>5 DEF InsertNode
  <2>2. f.pc = "index"
      BY <1>2 DEF FramesIn
  <2> HIDE DEF f
  <2>3. OthersStay(t) /\ task'[t].pc = "index"
      BY <2>1, <2>2, MovedTo
  <2> QED
      BY <1>3, <2>1, <2>3 DEF UpdatePcs, Committed
<1>6. CASE IndexKey(t)
    BY <1>4, <1>6 DEF IndexKey, UpdatePcs
<1>7. CASE Admit(t)
  <2>1. task[t].pc = "admit" /\ UNCHANGED <<history, tokensUsed>>
      BY <1>7 DEF Admit
  <2>2. (\E r : Return(t, r)) \/ Goto(t, "meter")
      BY <1>7 DEF Admit
  <2>3. CASE \E r : Return(t, r)
      BY <1>4, <2>1, <2>3 DEF UpdatePcs
  <2>4. CASE Goto(t, "meter")
    <3>1. OthersStay(t) /\ task'[t].pc = "meter"
        BY <2>4, WentTo
    <3> QED
        BY <1>3, <2>1, <3>1 DEF UpdatePcs, Committed
  <2> QED
      BY <2>2, <2>3, <2>4
<1>8. CASE Meter(t)
  <2>1. task[t].pc = "meter" /\ UNCHANGED history /\ tokensUsed' = tokensUsed + 1
      BY <1>8 DEF Meter
  <2>2. OthersStay(t) /\ task'[t].pc \in {"idle", "checkpoint"}
      BY <1>8, ReturnedTo, WentTo DEF Meter
  <2>3. UNCHANGED <<revisions, overlapped>>
      BY <1>1, <2>1
  <2> QED
      BY <2>1, <2>2, <2>3 DEF TaskMoves, Elsewhere, UpdatePcs, Committed
<1>9. CASE PreRevisionCheckpoint(t)
  <2> DEFINE f == [[task[t] EXCEPT !.pc = "revise"] EXCEPT !.cp = nextCp]
  <2>1. task' = [task EXCEPT ![t] = f] /\ task[t].pc = "checkpoint"
        /\ UNCHANGED <<history, tokensUsed>>
      BY <1>9 DEF PreRevisionCheckpoint
  <2>2. f.pc = "revise"
      BY <1>2 DEF FramesIn
  <2> HIDE DEF f
  <2>3. OthersStay(t) /\ task'[t].pc = "revise"
      BY <2>1, <2>2, MovedTo
  <2> QED
      BY <1>3, <2>1, <2>3 DEF UpdatePcs, Committed
<1>10. CASE ReviseAndPropagate(t)
  <2>1. task[t].pc = "revise" /\ UNCHANGED <<history, tokensUsed>>
      BY <1>10 DEF ReviseAndPropagate
  <2>2. CASE \E r : Return(t, r)
      BY <1>4, <2>1, <2>2 DEF UpdatePcs
  <2>3. CASE ~\E r : Return(t, r)
    <3>1. PICK out \in Revise(quad, task[t].id, task[t].value, task[t].conf) :
            task' = [task EXCEPT ![t].pc = "post",
                                 ![t].fast = quad'.nodes[task[t].id].fast,
                                 ![t].contradicted = out.contracted # {}]
        BY <1>10, <2>3, Zenon DEF ReviseAndPropagate
    <3> DEFINE f == [[[task[t] EXCEPT !.pc = "post"]
                        EXCEPT !.fast = quad'.nodes[task[t].id].fast]
                        EXCEPT !.contradicted = out.contracted # {}]
    <3>2. task' = [task EXCEPT ![t] = f]
        BY <3>1
    <3>3. f.pc = "post" /\ f.id = task[t].id
        BY <1>2 DEF FramesIn
    <3> HIDE DEF f
    <3>4. OthersStay(t) /\ task'[t].pc = "post" /\ task'[t].id = task[t].id
        BY <3>2, <3>3, MovedTo
    <3>5. Revised(t)
        BY <1>1, <2>1, <3>4 DEF Revised
    <3> QED
        BY <3>4, <3>5 DEF TaskMoves
  <2> QED
      BY <2>2, <2>3
<1>11. CASE EnforceContracts(t)
  <2>1. task[t].pc = "post" /\ UNCHANGED <<history, tokensUsed>>
      BY <1>11 DEF EnforceContracts
  <2>2. Goto(t, IF task[t].contradicted THEN "mark" ELSE "record")
      BY <1>11, ServerEnforces
  <2>3. UNCHANGED <<revisions, overlapped>>
      BY <1>1, <2>1
  <2>4. OthersStay(t) /\ SameUpdate(t) /\ task'[t].pc = IF task[t].contradicted THEN "mark" ELSE "record"
      BY <2>2, WentTo
  <2> QED
      BY <2>1, <2>3, <2>4 DEF TaskMoves, LetThrough
<1>12. CASE MarkWrong(t)
  <2>1. task[t].pc = "mark" /\ UNCHANGED tokensUsed
      BY <1>12 DEF MarkWrong
  <2>2. OthersStay(t) /\ SameUpdate(t) /\ task'[t].pc = "record"
      BY <1>12, WentTo DEF MarkWrong
  <2>3. UNCHANGED <<revisions, overlapped>>
      BY <1>1, <2>1
  <2>4. Marking(t)
      BY <1>12, <2>1, <2>2, <2>3, Zenon DEF MarkWrong, Marking
  <2> QED
      BY <2>2, <2>4 DEF TaskMoves
<1>13. CASE RecordConfidence(t)
  <2>1. /\ task[t].pc = "record" /\ UNCHANGED tokensUsed
        /\ history' = Append(history, [id |-> task[t].id, conf |-> task[t].fast, correct |-> None])
      BY <1>13 DEF RecordConfidence
  <2>2. OthersStay(t) /\ task'[t].pc = "idle"
      BY <1>13, ReturnedTo DEF RecordConfidence
  <2>3. UNCHANGED <<revisions, overlapped>>
      BY <1>1, <2>1
  <2> QED
      BY <2>1, <2>2, <2>3 DEF TaskMoves, Recorded
<1> QED
    BY <1>5, <1>6, <1>7, <1>8, <1>9, <1>10, <1>11, <1>12, <1>13 DEF Continue, Proceed

\* So is every step of the server, apart from the ticks and the session's end.
LEMMA StepMoves ==
    ASSUME ServerInv, [GatewayNext]_gatewayVars
    PROVE  ServerMoves
<1>1. ASSUME NEW t \in Task, AnswerVersion(t) PROVE TaskMoves(t)
  <2>1. task[t].pc = "version" /\ UNCHANGED <<history, revisions, overlapped, tokensUsed>>
      BY <1>1 DEF AnswerVersion, Untouched, observed
  <2>2. OthersStay(t) /\ task'[t].pc = "idle"
      BY <1>1, ReturnedTo DEF AnswerVersion
  <2> QED
      BY <2>1, <2>2 DEF TaskMoves, Elsewhere, UpdatePcs, Committed
<1>2. CASE Tick
    BY <1>2 DEF Tick, vars, observed, ServerMoves, Resting
<1>3. CASE FinalizeSession
    BY <1>3 DEF FinalizeSession, observed, ServerMoves, Finalized
<1>4. CASE UNCHANGED gatewayVars
    BY <1>4 DEF gatewayVars, vars, observed, ServerMoves, Resting
<1> QED
    BY <1>1, <1>2, <1>3, <1>4, RequestMoves, ContinueMoves DEF GatewayNext, ServerMoves

-----------------------------------------------------------------------------
(* A belief's records against its revisions *)

Revisions == [id : BeliefId, contracted : BOOLEAN]

\* H are the records of a belief, V its revisions, U the tasks at an update of
\* it, f the tasks' frames: the record of a revision is there once its update
\* ends, and is wrong once the next revision has contracted and been followed up.
ToldBy(H, V, U, f) ==
    /\ \A t, u \in U : t = u
    /\ U = {} => Len(V) = Len(H)
    /\ \A t \in U : /\ Len(V) = Len(H) + 1
                    /\ f[t].contradicted <=> V[Len(V)].contracted
                    /\ f[t].pc = "mark" => f[t].contradicted
    /\ \A n \in 1 .. Len(H) :
         IsWrong(H[n]) <=> /\ n < Len(V) /\ V[n + 1].contracted
                           /\ n = Len(H) => \A t \in U : f[t].pc = "record"

Told(id) == ToldBy(Of(id, history), Of(id, revisions), Updating(id), task)

LEMMA UpdateTask ==
    ASSUME ServerInv, NEW t \in Task, task[t].pc \in UpdatePcs \cup {"revise"}
    PROVE  /\ task[t].id \in BeliefId /\ task[t].fast \in Conf /\ task[t].contradicted \in BOOLEAN
           /\ [id |-> task[t].id, conf |-> task[t].fast, correct |-> None] \in Records
<1>1. Working(task[t]) /\ task[t] \in FramesIn(ServerPcs, Answers)
    BY DEF ServerInv, InvIn, TasksIn
<1>2. task[t].id \in BeliefId
    BY <1>1 DEF Working, RuntimePcs, Committed, UpdatePcs
<1>3. task[t].fast \in Conf /\ task[t].contradicted \in BOOLEAN
    BY <1>1 DEF FramesIn
<1> QED
    BY <1>2, <1>3 DEF Records

\* The record marked is the last one of the belief, if it has any.
MarkedAt(k, id) ==
    /\ k \in 1 .. Len(history) /\ history[k].id = id /\ IsWrong(history'[k])
    /\ Len(history') = Len(history)
    /\ \A i \in 1 .. Len(history) : /\ i > k => history[i].id # id
                                    /\ i # k => history'[i] = history[i]
                                    /\ history'[i].id = history[i].id

LEMMA MarkEffect ==
    ASSUME ServerInv, ServerInv', NEW t \in Task, Marking(t)
    PROVE  \/ history' = history /\ RecordsOf(task[t].id) = {}
           \/ \E k : MarkedAt(k, task[t].id)
<1> DEFINE id == task[t].id
           mine == RecordsOf(id)
           recent == CHOOSE i \in mine : \A j \in mine : j <= i
<1>1. history' = IF mine = {} THEN history ELSE [history EXCEPT ![recent].correct = FALSE]
    BY Zenon DEF Marking
<1>2. /\ history \in Seq(Records) /\ history' \in Seq(Records)
      /\ Len(history) \in Nat /\ DOMAIN history = 1 .. Len(history)
      /\ \A i \in 1 .. Len(history) : history[i] \in Records
    BY DEF ServerInv, InvIn, SharedOK
<1>3. mine = {i \in 1 .. Len(history) : history[i].id = id}
    BY <1>2 DEF RecordsOf
<1>4. CASE mine # {}
  <2>1. mine \subseteq Nat /\ IsFiniteSet(mine)
    <3>1. IsFiniteSet(1 .. Len(history))
        BY <1>2, FS_Interval
    <3>2. mine \subseteq 1 .. Len(history)
        BY <1>3
    <3> QED
        BY <1>2, <3>1, <3>2, FS_Subset
  <2>2. \E i \in mine : \A j \in mine : j <= i
    <3> HIDE DEF mine
    <3> QED
        BY <1>4, <2>1, GreatestNat
  <2>3. recent \in mine /\ \A j \in mine : j <= recent
    <3> HIDE DEF mine
    <3> QED
        BY <2>2
  <2> HIDE DEF recent
  <2>4. recent \in 1 .. Len(history) /\ history[recent].id = id
      BY <1>3, <2>3
  <2>5. history' = [history EXCEPT ![recent].correct = FALSE]
      BY <1>1, <1>4
  <2> HIDE DEF mine, id
  <2>6. \A i \in 1 .. Len(history) : i # recent => history'[i] = history[i]
      BY <1>2, <2>5
  <2>7. history'[recent] = [history[recent] EXCEPT !.correct = FALSE]
      BY <1>2, <2>4, <2>5
  <2>8. history'[recent].id = history[recent].id /\ history'[recent].correct = FALSE
    <3>1. history[recent] \in Records
        BY <1>2, <2>4
    <3> QED
        BY <2>7, <3>1 DEF Records
  <2>9. Len(history') = Len(history)
    <3>1. DOMAIN history' = DOMAIN history
        BY <2>5
    <3> QED
        BY <1>2, <3>1
  <2>10. \A i \in 1 .. Len(history) : i > recent => history[i].id # id
      BY <1>2, <1>3, <2>3, <2>4
  <2>11. MarkedAt(recent, id)
      BY <2>4, <2>6, <2>8, <2>9, <2>10 DEF MarkedAt, IsWrong
  <2> QED
      BY <2>11 DEF id
<1> QED
    BY <1>1, <1>4

\* Finalizing leaves what is wrong wrong, and marks nothing else so.
LEMMA FinalizedVerdicts ==
    ASSUME ServerInv, Finalized
    PROVE  /\ Len(history') = Len(history)
           /\ \A i \in 1 .. Len(history) : /\ history'[i].id = history[i].id
                                           /\ IsWrong(history'[i]) <=> IsWrong(history[i])
<1> DEFINE fin(r) == [r EXCEPT !.correct = IF @ = None THEN TRUE ELSE @]
<1>1. /\ history' = [i \in DOMAIN history |-> fin(history[i])]
      /\ history \in Seq(Records) /\ Len(history) \in Nat /\ DOMAIN history = 1 .. Len(history)
      /\ \A i \in 1 .. Len(history) : history[i] \in Records
    BY DEF ServerInv, InvIn, SharedOK, Finalized
<1>2. ASSUME NEW r \in Records
      PROVE  fin(r).id = r.id /\ (IsWrong(fin(r)) <=> IsWrong(r))
  <2>1. CASE r.correct = None
    <3>1. fin(r).id = r.id /\ fin(r).correct = TRUE
        BY <2>1 DEF Records
    <3>2. ~IsWrong(r)
        BY <2>1, RuntimeAssumption DEF IsWrong
    <3>3. ~IsWrong(fin(r))
      <4> HIDE DEF fin
      <4> QED
          BY <3>1 DEF IsWrong
    <3> QED
        BY <3>1, <3>2, <3>3
  <2>2. CASE r.correct # None
    <3>1. fin(r).id = r.id /\ fin(r).correct = r.correct
        BY <2>2 DEF Records
    <3> HIDE DEF fin
    <3> QED
        BY <3>1 DEF IsWrong
  <2> QED
      BY <2>1, <2>2
<1> HIDE DEF fin
<1>3. history' \in [1 .. Len(history) -> {fin(history[i]) : i \in 1 .. Len(history)}]
    BY <1>1
<1>4. Len(history') = Len(history)
  <2> DEFINE S == {fin(history[i]) : i \in 1 .. Len(history)}
  <2>1. history' \in [1 .. Len(history) -> S]
      BY <1>3
  <2> HIDE DEF S
  <2>2. history' \in Seq(S)
      BY <1>1, <2>1, FunctionIsSeq
  <2>3. DOMAIN history' = 1 .. Len(history)
      BY <2>1
  <2> QED
      BY <1>1, <2>2, <2>3
<1> QED
    BY <1>1, <1>2, <1>4

\* What both sides of Told are made of.
LEMMA SidesTyped ==
    ASSUME ServerInv, revisions \in Seq(Revisions), NEW id
    PROVE  Of(id, history) \in Seq(Records) /\ Of(id, revisions) \in Seq(Revisions)
BY OfType DEF ServerInv, InvIn, SharedOK

\* A move of a task that is at no update of the belief, before or after.
LEMMA ToldOfOthers ==
    ASSUME ServerInv, ServerInv', revisions \in Seq(Revisions), NEW t \in Task, TaskMoves(t),
           NEW id, Elsewhere(t) \/ task[t].id # id, Told(id)
    PROVE  Told(id)'
<1>1. Updating(id)' = Updating(id) /\ \A u \in Updating(id) : task'[u] = task[u]
  <2>1. \A u \in Task : u # t => task'[u] = task[u]
      BY DEF TaskMoves, OthersStay
  <2>2. t \notin Updating(id) /\ t \notin Updating(id)'
    <3>1. CASE Elsewhere(t)
        BY <3>1 DEF Elsewhere, Updating, UpdatePcs
    <3>2. CASE task[t].id # id /\ (task'[t].id = task[t].id \/ task'[t].pc = "idle")
        BY <3>2 DEF Updating
    <3> QED
        BY <3>1, <3>2 DEF TaskMoves, Revised, LetThrough, Marking, Recorded, SameUpdate
  <2> QED
      BY <2>1, <2>2 DEF Updating
<1>2. history \in Seq(Records) /\ history' \in Seq(Records)
    BY DEF ServerInv, InvIn, SharedOK
<1>3. Of(id, revisions') = Of(id, revisions)
  <2>1. CASE revisions' = revisions
      BY <2>1
  <2>2. CASE Revised(t) /\ task[t].id # id
    <3> DEFINE x == [id |-> task[t].id, contracted |-> task'[t].contradicted]
    <3>1. revisions' = Append(revisions, x) /\ task[t].pc = "revise"
        BY <2>2 DEF Revised
    <3>2. task'[t].contradicted \in BOOLEAN /\ task[t].id \in BeliefId
      <4>1. task'[t] \in FramesIn(ServerPcs, Answers)
          BY DEF ServerInv, InvIn, TasksIn
      <4> QED
          BY <3>1, <4>1, UpdateTask DEF FramesIn
    <3>3. x \in Revisions /\ x.id # id
        BY <2>2, <3>2 DEF Revisions
    <3> HIDE DEF x
    <3> QED
        BY <3>1, <3>3, OfAppend
  <2> QED
      BY <2>1, <2>2 DEF TaskMoves, Elsewhere, Revised, LetThrough, Marking, Recorded
<1>4. Of(id, history') = Of(id, history)
  <2>1. CASE history' = history
      BY <2>1
  <2>2. CASE Recorded(t) /\ task[t].id # id
    <3> DEFINE x == [id |-> task[t].id, conf |-> task[t].fast, correct |-> None]
    <3>1. history' = Append(history, x) /\ task[t].pc = "record"
        BY <2>2 DEF Recorded
    <3>2. x \in Records /\ x.id # id
        BY <2>2, <3>1, UpdateTask DEF UpdatePcs
    <3> HIDE DEF x
    <3> QED
        BY <1>2, <3>1, <3>2, OfAppend
  <2>3. CASE Marking(t) /\ task[t].id # id /\ history' # history
    <3>1. PICK k : MarkedAt(k, task[t].id)
        BY <2>3, MarkEffect
    <3>2. \A i \in 1 .. Len(history) : /\ history'[i].id = id <=> history[i].id = id
                                       /\ history[i].id = id => history'[i] = history[i]
        BY <2>3, <3>1 DEF MarkedAt
    <3>3. Len(history') = Len(history)
        BY <3>1 DEF MarkedAt
    <3> QED
        BY <1>2, <3>2, <3>3, OfOthers
  <2> QED
      BY <2>1, <2>2, <2>3 DEF TaskMoves, Elsewhere, Revised, LetThrough, Marking, Recorded
<1>5. ToldBy(Of(id, history), Of(id, revisions), Updating(id), task)
    BY DEF Told
<1>6. ToldBy(Of(id, history), Of(id, revisions), Updating(id), task')
    BY <1>1, <1>5 DEF ToldBy
<1> QED
    BY <1>1, <1>3, <1>4, <1>6 DEF Told

\* The session's end settles what had no outcome, as correct.
LEMMA ToldFinalized ==
    ASSUME ServerInv, ServerInv', Finalized, NEW id, Told(id)
    PROVE  Told(id)'
<1>1. history \in Seq(Records) /\ history' \in Seq(Records)
    BY DEF ServerInv, InvIn, SharedOK
<1>2. /\ Len(history') = Len(history)
      /\ \A i \in 1 .. Len(history) : /\ history'[i].id = history[i].id
                                      /\ i # 0 => (IsWrong(history'[i]) <=> IsWrong(history[i]))
    BY FinalizedVerdicts
<1>3. Verdicts(Of(id, history'), Of(id, history), 0 # 0)
  <2> HIDE DEF Verdicts
  <2> QED
      BY <1>1, <1>2, OfVerdicts
<1> DEFINE H == Of(id, history)
           G == Of(id, history')
           V == Of(id, revisions)
           U == Updating(id)
<1>4. Len(G) = Len(H) /\ \A n \in 1 .. Len(H) : IsWrong(G[n]) <=> IsWrong(H[n])
    BY <1>3 DEF Verdicts
<1>5. ToldBy(H, V, U, task)
    BY DEF Told
<1>6. Updating(id)' = U /\ task' = task /\ revisions' = revisions
    BY DEF Finalized, Updating
<1> HIDE DEF G, H, V, U
<1>7. ToldBy(G, V, U, task)
    BY <1>4, <1>5 DEF ToldBy
<1> QED
    BY <1>6, <1>7 DEF Told, G, V, U

\* The moves of the one task at an update of the belief.
LEMMA ToldOfOwn ==
    ASSUME ServerInv, ServerInv', revisions \in Seq(Revisions), NEW t \in Task, TaskMoves(t),
           NEW id, task[t].id = id, ~Elsewhere(t), id \notin overlapped', Told(id)
    PROVE  Told(id)'
<1> DEFINE H  == Of(id, history)
           V  == Of(id, revisions)
           U  == Updating(id)
           H1 == Of(id, history')
           V1 == Of(id, revisions')
           U1 == Updating(id)'
<1>1. H \in Seq(Records) /\ V \in Seq(Revisions) /\ Len(H) \in Nat /\ Len(V) \in Nat
  <2>1. H \in Seq(Records) /\ V \in Seq(Revisions)
      BY SidesTyped
  <2> HIDE DEF H, V
  <2> QED
      BY <2>1
<1>2. history \in Seq(Records) /\ history' \in Seq(Records)
    BY DEF ServerInv, InvIn, SharedOK
<1>3. ToldBy(H, V, U, task)
    BY DEF Told
<1>4. \A u \in Task : u # t => task'[u] = task[u]
    BY DEF TaskMoves, OthersStay
<1>5. SUFFICES ToldBy(H1, V1, U1, task')
    BY DEF Told
<1>6. ASSUME task[t].pc \in UpdatePcs PROVE U = {t}
  <2>1. t \in U
      BY <1>6 DEF Updating, UpdatePcs
  <2> HIDE DEF U, H, V
  <2> QED
      BY <1>3, <2>1 DEF ToldBy
<1>7. ASSUME task[t].pc \in UpdatePcs, task'[t].pc \in UpdatePcs, task'[t].id = id PROVE U1 = {t}
  <2>1. U = {t}
      BY <1>6, <1>7
  <2> QED
      BY <1>4, <1>7, <2>1 DEF Updating, UpdatePcs
<1>8. CASE Revised(t)
  <2> DEFINE x == [id |-> id, contracted |-> task'[t].contradicted]
  <2>1. /\ revisions' = Append(revisions, x) /\ task[t].pc = "revise" /\ history' = history
        /\ task'[t].pc = "post" /\ task'[t].id = id
        /\ overlapped' = IF U # {} THEN overlapped \cup {id} ELSE overlapped
      BY <1>8 DEF Revised
  <2>2. task'[t].contradicted \in BOOLEAN /\ id \in BeliefId
    <3>1. task'[t] \in FramesIn(ServerPcs, Answers)
        BY DEF ServerInv, InvIn, TasksIn
    <3> QED
        BY <2>1, <3>1, UpdateTask DEF FramesIn
  <2>3. x \in Revisions /\ x.id = id /\ x.contracted = task'[t].contradicted
      BY <2>2 DEF Revisions
  <2> HIDE DEF x
  <2>4. V1 = Append(V, x) /\ H1 = H
      BY <2>1, <2>3, OfAppend
  <2>5. U = {}
      BY <2>1
  <2>6. U1 = {t}
      BY <1>4, <2>1, <2>5 DEF Updating
  <2> HIDE DEF H, V, U, H1, V1, U1
  <2>7. /\ Len(V) = Len(H) /\ Len(V1) = Len(H) + 1 /\ V1[Len(V1)] = x
        /\ \A n \in 1 .. Len(V) : V1[n] = V[n]
      BY <1>1, <1>3, <2>3, <2>4, <2>5 DEF ToldBy
  <2>8. ASSUME NEW n \in 1 .. Len(H)
        PROVE  IsWrong(H[n]) <=> /\ n < Len(V1) /\ V1[n + 1].contracted
                                 /\ n = Len(H) => \A u \in U1 : task'[u].pc = "record"
    <3>1. CASE n = Len(H)
      <4>1. ~(n < Len(V))
          BY <1>1, <2>7, <3>1
      <4>2. ~IsWrong(H[n])
          BY <1>3, <4>1, <2>8 DEF ToldBy
      <4>3. ~\A u \in U1 : task'[u].pc = "record"
          BY <2>1, <2>6
      <4> QED
          BY <3>1, <4>2, <4>3
    <3>2. CASE n # Len(H)
      <4>1. n < Len(V) /\ n < Len(V1) /\ n + 1 \in 1 .. Len(V)
          BY <1>1, <2>7, <3>2
      <4>2. IsWrong(H[n]) <=> V[n + 1].contracted
          BY <1>3, <3>2, <4>1 DEF ToldBy
      <4> QED
          BY <2>7, <3>2, <4>1, <4>2
    <3> QED
        BY <3>1, <3>2
  <2> QED
      BY <2>1, <2>3, <2>4, <2>6, <2>7, <2>8 DEF ToldBy
<1>9. CASE LetThrough(t)
  <2>1. /\ history' = history /\ revisions' = revisions /\ task[t].pc = "post" /\ SameUpdate(t)
        /\ task'[t].pc = IF task[t].contradicted THEN "mark" ELSE "record"
      BY <1>9 DEF LetThrough
  <2>2. U = {t} /\ U1 = {t} /\ H1 = H /\ V1 = V
      BY <1>6, <1>7, <2>1 DEF SameUpdate, UpdatePcs
  <2> HIDE DEF H, V, U, H1, V1, U1
  <2>3. Len(V) = Len(H) + 1 /\ (task[t].contradicted <=> V[Len(V)].contracted)
      BY <1>3, <2>2 DEF ToldBy
  <2>4. /\ (task'[t].contradicted <=> V[Len(V)].contracted)
        /\ task'[t].pc = "mark" => task'[t].contradicted
        /\ task'[t].pc = "record" => ~V[Len(V)].contracted
      BY <2>1, <2>3 DEF SameUpdate
  <2>5. ASSUME NEW n \in 1 .. Len(H)
        PROVE  IsWrong(H[n]) <=> /\ n < Len(V) /\ V[n + 1].contracted
                                 /\ n = Len(H) => \A u \in U : task'[u].pc = "record"
    <3>1. IsWrong(H[n]) <=> /\ n < Len(V) /\ V[n + 1].contracted
                            /\ n = Len(H) => \A u \in U : task[u].pc = "record"
        BY <1>3 DEF ToldBy
    <3>2. CASE n = Len(H)
      <4>1. n + 1 = Len(V) /\ ~\A u \in U : task[u].pc = "record"
          BY <2>1, <2>2, <2>3, <3>2
      <4>2. ~IsWrong(H[n])
          BY <3>1, <3>2, <4>1
      <4>3. ~(V[n + 1].contracted /\ \A u \in U : task'[u].pc = "record")
          BY <2>2, <2>4, <4>1
      <4> QED
          BY <3>2, <4>2, <4>3
    <3>3. CASE n # Len(H)
        BY <3>1, <3>3
    <3> QED
        BY <3>2, <3>3
  <2> QED
      BY <2>2, <2>3, <2>4, <2>5 DEF ToldBy
<1>10. CASE Marking(t)
  <2>1. /\ revisions' = revisions /\ task[t].pc = "mark" /\ SameUpdate(t)
        /\ task'[t].pc = "record"
      BY <1>10 DEF Marking
  <2>2. U = {t} /\ U1 = {t} /\ V1 = V
      BY <1>6, <1>7, <2>1 DEF SameUpdate, UpdatePcs
  <2>3. Len(H1) = Len(H) /\ \A n \in 1 .. Len(H) : IsWrong(H1[n]) <=> IsWrong(H[n]) \/ n = Len(H)
    <3>1. CASE history' = history /\ RecordsOf(id) = {}
      <4>1. \A j \in 1 .. Len(history) : history[j].id # id
        <5>1. DOMAIN history = 1 .. Len(history)
            BY <1>2
        <5> QED
            BY <3>1, <5>1 DEF RecordsOf
      <4>2. H = <<>>
          BY <1>2, <4>1, OfNone
      <4> QED
          BY <3>1, <4>2
    <3>2. CASE \E k : MarkedAt(k, id)
      <4>1. PICK k : MarkedAt(k, id)
          BY <3>2
      <4>2. /\ k \in Nat /\ k # 0 /\ Len(history') = Len(history)
            /\ \A i \in 1 .. Len(history) : /\ history'[i].id = history[i].id
                                            /\ i # k => (IsWrong(history'[i]) <=> IsWrong(history[i]))
            /\ k \in 1 .. Len(history) /\ IsWrong(history'[k]) /\ history[k].id = id
            /\ \A i \in 1 .. Len(history) : i > k => history[i].id # id
          BY <1>2, <4>1 DEF MarkedAt
      <4>3. Verdicts(H1, H, k # 0)
        <5> HIDE DEF Verdicts, IsWrong
        <5> QED
            BY <1>2, <4>2, OfVerdicts
      <4> HIDE DEF H1, H
      <4> QED
          BY <4>2, <4>3 DEF Verdicts
    <3> QED
        BY <1>10, <3>1, <3>2, MarkEffect
  <2> HIDE DEF H, V, U, H1, V1, U1
  <2>4. Len(V) = Len(H) + 1 /\ V[Len(V)].contracted /\ (task'[t].contradicted <=> V[Len(V)].contracted)
      BY <1>3, <2>1, <2>2 DEF ToldBy, SameUpdate
  <2>5. ASSUME NEW n \in 1 .. Len(H1)
        PROVE  IsWrong(H1[n]) <=> /\ n < Len(V) /\ V[n + 1].contracted
                                  /\ n = Len(H1) => \A u \in U : task'[u].pc = "record"
    <3>1. CASE n = Len(H)
        BY <1>1, <2>1, <2>2, <2>3, <2>4, <3>1
    <3>2. CASE n # Len(H)
      <4>1. IsWrong(H[n]) <=> n < Len(V) /\ V[n + 1].contracted
          BY <1>3, <2>3, <3>2 DEF ToldBy
      <4> QED
          BY <2>3, <3>2, <4>1
    <3> QED
        BY <3>1, <3>2
  <2> QED
      BY <2>1, <2>2, <2>3, <2>4, <2>5 DEF ToldBy
<1>11. CASE Recorded(t)
  <2> DEFINE x == [id |-> id, conf |-> task[t].fast, correct |-> None]
  <2>1. /\ revisions' = revisions /\ task[t].pc = "record" /\ task'[t].pc = "idle"
        /\ history' = Append(history, x)
      BY <1>11 DEF Recorded
  <2>2. x \in Records /\ x.id = id /\ ~IsWrong(x)
      BY <2>1, UpdateTask, RuntimeAssumption DEF UpdatePcs, IsWrong
  <2>3. U = {t}
      BY <1>6, <2>1 DEF UpdatePcs
  <2>4. U1 = {}
      BY <1>4, <2>1, <2>3 DEF Updating
  <2> HIDE DEF x
  <2>5. H1 = Append(H, x) /\ V1 = V
      BY <1>2, <2>1, <2>2, OfAppend
  <2> HIDE DEF H, V, U, H1, V1, U1
  <2>6. /\ Len(V) = Len(H) + 1 /\ Len(H1) = Len(H) + 1 /\ H1[Len(H1)] = x
        /\ \A n \in 1 .. Len(H) : H1[n] = H[n]
      BY <1>1, <1>3, <2>2, <2>3, <2>5 DEF ToldBy
  <2>7. ASSUME NEW n \in 1 .. Len(H1)
        PROVE  IsWrong(H1[n]) <=> /\ n < Len(V) /\ V[n + 1].contracted
                                  /\ n = Len(H1) => \A u \in U1 : task'[u].pc = "record"
    <3>1. CASE n = Len(H1)
        BY <1>1, <2>2, <2>6, <3>1
    <3>2. CASE n # Len(H1)
      <4>1. n \in 1 .. Len(H)
          BY <1>1, <2>6, <3>2
      <4>2. IsWrong(H[n]) <=> n < Len(V) /\ V[n + 1].contracted
          BY <1>3, <2>1, <2>3, <4>1 DEF ToldBy
      <4> QED
          BY <2>6, <3>2, <4>1, <4>2
    <3> QED
        BY <3>1, <3>2
  <2> QED
      BY <2>4, <2>5, <2>6, <2>7 DEF ToldBy
<1> QED
    BY <1>8, <1>9, <1>10, <1>11 DEF TaskMoves

\* Of a belief whose updates never overlapped, its records follow its revisions.
TraceInv ==
    /\ revisions \in Seq(Revisions)
    /\ \A id \in BeliefId \ overlapped : Told(id)

LEMMA TraceInit == GatewayInit => TraceInv
<1> SUFFICES ASSUME GatewayInit PROVE TraceInv
    OBVIOUS
<1>1. history = <<>> /\ revisions = <<>>
    BY DEF GatewayInit, Init
<1>2. \A t \in Task : task[t].pc = "idle"
    BY DEF GatewayInit, Init, Idle, Frame
<1>3. ASSUME NEW id PROVE Told(id)
  <2>1. Updating(id) = {}
      BY <1>2 DEF Updating
  <2>2. ToldBy(<<>>, <<>>, {}, task)
      BY DEF ToldBy
  <2> QED
      BY <1>1, <2>1, <2>2, OfEmpty DEF Told
<1> QED
    BY <1>1, <1>3 DEF TraceInv

\* A step that moves no task and touches no record or revision changes nothing.
LEMMA ToldResting ==
    ASSUME Resting, NEW id, Told(id)
    PROVE  Told(id)'
<1>1. history' = history /\ revisions' = revisions /\ task' = task /\ Updating(id)' = Updating(id)
    BY DEF Resting, Updating
<1> QED
    BY <1>1 DEF Told

LEMMA RevisionsType ==
    ASSUME ServerInv, ServerInv', revisions \in Seq(Revisions), ServerMoves
    PROVE  revisions' \in Seq(Revisions)
<1>1. CASE revisions' = revisions
    BY <1>1
<1>2. ASSUME NEW t \in Task, Revised(t) PROVE revisions' \in Seq(Revisions)
  <2> DEFINE x == [id |-> task[t].id, contracted |-> task'[t].contradicted]
  <2>1. revisions' = Append(revisions, x) /\ task[t].pc = "revise"
      BY <1>2 DEF Revised
  <2>2. task'[t] \in FramesIn(ServerPcs, Answers)
      BY DEF ServerInv, InvIn, TasksIn
  <2>3. x \in Revisions
      BY <2>1, <2>2, UpdateTask DEF FramesIn, Revisions
  <2> HIDE DEF x
  <2> QED
      BY <2>1, <2>3
<1> QED
    BY <1>1, <1>2 DEF ServerMoves, TaskMoves, Resting, Finalized, Elsewhere, LetThrough, Marking, Recorded

LEMMA TraceNext == ServerInv /\ ServerInv' /\ TraceInv /\ [GatewayNext]_gatewayVars => TraceInv'
<1> SUFFICES ASSUME ServerInv, ServerInv', TraceInv, [GatewayNext]_gatewayVars PROVE TraceInv'
    OBVIOUS
<1>1. ServerMoves
    BY StepMoves
<1>2. revisions \in Seq(Revisions) /\ revisions' \in Seq(Revisions)
    BY <1>1, RevisionsType DEF TraceInv
<1>3. overlapped \subseteq overlapped'
    BY <1>1 DEF ServerMoves, TaskMoves, Resting, Finalized, Elsewhere, Revised, LetThrough, Marking, Recorded
<1>4. ASSUME NEW id \in BeliefId \ overlapped' PROVE Told(id)'
  <2>1. Told(id)
      BY <1>3, <1>4 DEF TraceInv
  <2>2. ASSUME NEW t \in Task, TaskMoves(t) PROVE Told(id)'
    <3>1. CASE Elsewhere(t) \/ task[t].id # id
        BY <1>2, <2>1, <2>2, <3>1, ToldOfOthers
    <3>2. CASE ~Elsewhere(t) /\ task[t].id = id
        BY <1>2, <1>4, <2>1, <2>2, <3>2, ToldOfOwn
    <3> QED
        BY <3>1, <3>2
  <2> QED
      BY <1>1, <2>1, <2>2, ToldFinalized, ToldResting DEF ServerMoves
<1> QED
    BY <1>2, <1>4 DEF TraceInv

-----------------------------------------------------------------------------
(* Counting updates, records and tokens *)

At(pcs) == {t \in Task : task[t].pc \in pcs}

\* How many tasks are somewhere after one of them moves.
LEMMA AtStep ==
    ASSUME NEW pcs, NEW t \in Task, OthersStay(t)
    PROVE  /\ IsFiniteSet(At(pcs)) /\ Cardinality(At(pcs)) \in Nat
           /\ IsFiniteSet(At(pcs)') /\ Cardinality(At(pcs)') \in Nat
           /\ (task[t].pc \in pcs <=> task'[t].pc \in pcs) => At(pcs)' = At(pcs)
           /\ task[t].pc \in pcs /\ task'[t].pc \notin pcs =>
                Cardinality(At(pcs)') = Cardinality(At(pcs)) - 1
           /\ task[t].pc \notin pcs /\ task'[t].pc \in pcs =>
                Cardinality(At(pcs)') = Cardinality(At(pcs)) + 1
<1>1. At(pcs) \subseteq Task /\ At(pcs)' \subseteq Task
    BY DEF At
<1>2. /\ IsFiniteSet(At(pcs)) /\ Cardinality(At(pcs)) \in Nat
      /\ IsFiniteSet(At(pcs)') /\ Cardinality(At(pcs)') \in Nat
    BY <1>1, RuntimeAssumption, FS_Subset, FS_CardinalityType
<1>3. \A u \in Task : u # t => task'[u] = task[u]
    BY DEF OthersStay
<1>4. (task[t].pc \in pcs <=> task'[t].pc \in pcs) => At(pcs)' = At(pcs)
    BY <1>3 DEF At
<1>5. ASSUME task[t].pc \in pcs, task'[t].pc \notin pcs
      PROVE  Cardinality(At(pcs)') = Cardinality(At(pcs)) - 1
  <2>1. At(pcs)' = At(pcs) \ {t} /\ t \in At(pcs)
      BY <1>3, <1>5 DEF At
  <2> QED
      BY <1>2, <2>1, FS_RemoveElement
<1>6. ASSUME task[t].pc \notin pcs, task'[t].pc \in pcs
      PROVE  Cardinality(At(pcs)') = Cardinality(At(pcs)) + 1
  <2>1. At(pcs)' = At(pcs) \cup {t} /\ t \notin At(pcs)
      BY <1>3, <1>6 DEF At
  <2> QED
      BY <1>2, <2>1, FS_AddElement
<1> QED
    BY <1>2, <1>4, <1>5, <1>6

\* Every revision has its record or a task that has yet to write it.
Balance == Len(revisions) = Len(history) + Cardinality(At(UpdatePcs))

CountInv == Balance /\ Paid

LEMMA CountInit == GatewayInit => CountInv
<1> SUFFICES ASSUME GatewayInit PROVE CountInv
    OBVIOUS
<1>1. history = <<>> /\ revisions = <<>> /\ tokensUsed = 0
    BY DEF GatewayInit, Init
<1>2. \A t \in Task : task[t].pc = "idle"
    BY DEF GatewayInit, Init, Idle, Frame
<1>3. At(UpdatePcs) = {} /\ InFlight = {}
    BY <1>2 DEF At, UpdatePcs, InFlight, Committed
<1>4. Len(<<>>) = 0
    OBVIOUS
<1> QED
    BY <1>1, <1>3, <1>4, FS_EmptySet DEF CountInv, Balance, Paid

\* What a step does to the two lengths.
LEMMA Lengths ==
    ASSUME ServerInv, ServerInv', revisions \in Seq(Revisions), ServerMoves
    PROVE  /\ Len(history) \in Nat /\ Len(revisions) \in Nat /\ tokensUsed \in Nat
           /\ Resting \/ Finalized => /\ Len(history') = Len(history)
                                      /\ Len(revisions') = Len(revisions)
           /\ \A t \in Task :
                /\ Elsewhere(t) \/ LetThrough(t) \/ Marking(t) =>
                     Len(history') = Len(history) /\ Len(revisions') = Len(revisions)
                /\ Revised(t) =>
                     Len(history') = Len(history) /\ Len(revisions') = Len(revisions) + 1
                /\ Recorded(t) =>
                     Len(history') = Len(history) + 1 /\ Len(revisions') = Len(revisions)
<1>1. history \in Seq(Records) /\ Len(history) \in Nat /\ DOMAIN history = 1 .. Len(history)
      /\ tokensUsed \in Nat
    BY DEF ServerInv, InvIn, SharedOK
<1>2. \A s, x : s \in Seq(Revisions) \/ s \in Seq(Records) => Len(Append(s, x)) = Len(s) + 1
    OBVIOUS
<1>3. Resting \/ Finalized => Len(history') = Len(history) /\ Len(revisions') = Len(revisions)
    BY FinalizedVerdicts DEF Resting, Finalized
<1>4. ASSUME NEW t \in Task, Marking(t) PROVE Len(history') = Len(history)
    BY <1>4, MarkEffect DEF MarkedAt
<1>5. Len(revisions) \in Nat
    OBVIOUS
<1> QED
    BY <1>1, <1>2, <1>3, <1>4, <1>5 DEF Elsewhere, LetThrough, Marking, Revised, Recorded

\* A revision brings in the task that a record takes out, and each paid.
LEMMA CountNext ==
    ServerInv /\ ServerInv' /\ TraceInv /\ CountInv /\ [GatewayNext]_gatewayVars => CountInv'
<1> SUFFICES ASSUME ServerInv, ServerInv', TraceInv, CountInv, [GatewayNext]_gatewayVars PROVE CountInv'
    OBVIOUS
<1> DEFINE h  == Len(history)
           h1 == Len(history')
           r  == Len(revisions)
           r1 == Len(revisions')
           b  == Cardinality(At(UpdatePcs))
           b1 == Cardinality(At(UpdatePcs)')
           c  == Cardinality(At(Committed))
           c1 == Cardinality(At(Committed)')
<1>1. ServerMoves
    BY StepMoves
<1>2. InFlight = At(Committed) /\ InFlight' = At(Committed)'
    BY DEF InFlight, At
<1>3. r = h + b /\ h + c <= tokensUsed
    BY <1>2 DEF CountInv, Balance, Paid
<1>4. SUFFICES r1 = h1 + b1 /\ h1 + c1 <= tokensUsed'
    BY <1>2 DEF CountInv, Balance, Paid
<1>5. h \in Nat /\ r \in Nat /\ tokensUsed \in Nat
    BY <1>1, Lengths DEF TraceInv
<1>6. CASE Resting \/ Finalized
  <2>1. At(UpdatePcs)' = At(UpdatePcs) /\ At(Committed)' = At(Committed) /\ tokensUsed' = tokensUsed
      BY <1>6 DEF Resting, Finalized, At
  <2>2. h1 = h /\ r1 = r
      BY <1>1, <1>6, Lengths DEF TraceInv
  <2> QED
      BY <1>3, <2>1, <2>2
<1>7. ASSUME NEW t \in Task, TaskMoves(t) PROVE r1 = h1 + b1 /\ h1 + c1 <= tokensUsed'
  <2> DEFINE p  == task[t].pc
             p1 == task'[t].pc
  <2>1. /\ b \in Nat /\ b1 \in Nat /\ c \in Nat /\ c1 \in Nat
        /\ (p \in UpdatePcs <=> p1 \in UpdatePcs) => b1 = b
        /\ p \in UpdatePcs /\ p1 \notin UpdatePcs => b1 = b - 1
        /\ p \notin UpdatePcs /\ p1 \in UpdatePcs => b1 = b + 1
        /\ (p \in Committed <=> p1 \in Committed) => c1 = c
        /\ p \in Committed /\ p1 \notin Committed => c1 = c - 1
        /\ p \notin Committed /\ p1 \in Committed => c1 = c + 1
    <3>1. OthersStay(t)
        BY <1>7 DEF TaskMoves
    <3> QED
        BY <3>1, AtStep
  <2>2. /\ Elsewhere(t) \/ LetThrough(t) \/ Marking(t) => h1 = h /\ r1 = r
        /\ Revised(t) => h1 = h /\ r1 = r + 1
        /\ Recorded(t) => h1 = h + 1 /\ r1 = r
      BY <1>1, <1>7, Lengths DEF TraceInv
  <2> HIDE DEF h, h1, r, r1, b, b1, c, c1
  <2>3. CASE Elsewhere(t)
    <3>1. p \notin UpdatePcs /\ p1 \notin UpdatePcs
          /\ \/ tokensUsed' = tokensUsed /\ (p1 \in Committed => p \in Committed)
             \/ tokensUsed' = tokensUsed + 1 /\ p \notin Committed
        BY <2>3 DEF Elsewhere
    <3> HIDE DEF p, p1
    <3> QED
        BY <1>3, <1>5, <2>1, <2>2, <2>3, <3>1
  <2>4. CASE Revised(t)
    <3>1. p \notin UpdatePcs /\ p1 \in UpdatePcs /\ p \in Committed /\ p1 \in Committed
          /\ tokensUsed' = tokensUsed
        BY <2>4 DEF Revised, UpdatePcs, Committed
    <3> HIDE DEF p, p1
    <3> QED
        BY <1>3, <1>5, <2>1, <2>2, <2>4, <3>1
  <2>5. CASE LetThrough(t) \/ Marking(t)
    <3>1. p \in UpdatePcs /\ p1 \in UpdatePcs /\ p \in Committed /\ p1 \in Committed
          /\ tokensUsed' = tokensUsed
        BY <2>5 DEF LetThrough, Marking, UpdatePcs, Committed
    <3> HIDE DEF p, p1
    <3> QED
        BY <1>3, <1>5, <2>1, <2>2, <2>5, <3>1
  <2>6. CASE Recorded(t)
    <3>1. p \in UpdatePcs /\ p1 \notin UpdatePcs /\ p \in Committed /\ p1 \notin Committed
          /\ tokensUsed' = tokensUsed
        BY <2>6 DEF Recorded, UpdatePcs, Committed
    <3> HIDE DEF p, p1
    <3> QED
        BY <1>3, <1>5, <2>1, <2>2, <2>6, <3>1
  <2> QED
      BY <1>7, <2>3, <2>4, <2>5, <2>6 DEF TaskMoves
<1> QED
    BY <1>1, <1>6, <1>7 DEF ServerMoves

\* The last of a belief is the last about it.
LEMMA OfLast ==
    ASSUME NEW S, NEW s \in Seq(S), NEW id, NEW k \in 1 .. Len(s), s[k].id = id,
           \A i \in 1 .. Len(s) : i > k => s[i].id # id
    PROVE  Len(Of(id, s)) # 0 /\ Of(id, s)[Len(Of(id, s))] = s[k]
<1> DEFINE n == Len(s)
<1>1. PICK g : Picks(g, n, s, id, S) /\ Of(id, s) = g[n]
    BY OfRun
<1>2. n \in Nat /\ k \in 1 .. n /\ \A i \in 1 .. n : s[i] \in S /\ (i > k => s[i].id # id)
    OBVIOUS
<1> HIDE DEF n
<1> USE DEF Picks
<1> DEFINE Ends(r) == Len(r) # 0 /\ r[Len(r)] = s[k]
           T == {i \in 0 .. n : i < k \/ Ends(g[i])}
<1>3. 0 \in T
    BY <1>2
<1>4. ASSUME NEW i \in 0 .. n - 1, i \in T PROVE i + 1 \in T
  <2>1. i + 1 \in 1 .. n /\ (i + 1) - 1 = i /\ i \in 0 .. n /\ i + 1 \in 0 .. n
      BY <1>2
  <2>2. /\ g[i + 1] = IF s[i + 1].id = id THEN Append(g[i], s[i + 1]) ELSE g[i]
        /\ g[i] \in Seq(S) /\ s[i + 1] \in S
      BY <1>1, <1>2, <2>1
  <2>3. CASE i + 1 < k
      BY <2>1, <2>3
  <2>4. CASE i + 1 = k
    <3>1. g[i + 1] = Append(g[i], s[k])
        BY <2>2, <2>4
    <3>2. \A r \in Seq(S), x \in S : Len(Append(r, x)) = Len(r) + 1 /\ Append(r, x)[Len(r) + 1] = x
        OBVIOUS
    <3>3. Len(g[i]) \in Nat
        BY <2>2
    <3>4. Ends(g[i + 1])
        BY <2>2, <2>4, <3>1, <3>2, <3>3
    <3> QED
        BY <2>1, <3>4
  <2>5. CASE i + 1 > k
    <3>1. g[i + 1] = g[i] /\ ~(i < k)
        BY <1>2, <2>1, <2>2, <2>5
    <3>2. Ends(g[i])
        BY <1>4, <3>1
    <3> HIDE DEF Ends
    <3> QED
        BY <2>1, <3>1, <3>2
  <2> QED
      BY <1>2, <2>1, <2>3, <2>4, <2>5
<1>5. n \in T
  <2> HIDE DEF T
  <2>1. 0 .. n \subseteq T
      BY <1>2, <1>3, <1>4, SegmentInduction
  <2> QED
      BY <1>2, <2>1
<1>6. Ends(g[n])
    BY <1>2, <1>5
<1> QED
    BY <1>1, <1>6

-----------------------------------------------------------------------------
(* Counting contradictions *)

\* The records marked, the tasks yet to mark one, and the revisions that
\* contracted and were not their belief's first.
Wrong == {i \in DOMAIN history : IsWrong(history[i])}
Pending == {t \in Task : /\ task[t].pc \in {"post", "mark"} /\ task[t].contradicted
                         /\ RecordsOf(task[t].id) # {}}
Earlier(i, V) == \E j \in 1 .. i - 1 : V[j].id = V[i].id
Repeated == {i \in DOMAIN revisions : revisions[i].contracted /\ Earlier(i, revisions)}

Counted == overlapped = {} => Cardinality(Wrong) + Cardinality(Pending) = Cardinality(Repeated)

LEMMA CountsFinite ==
    ASSUME ServerInv, revisions \in Seq(Revisions)
    PROVE  /\ IsFiniteSet(Wrong) /\ Cardinality(Wrong) \in Nat
           /\ IsFiniteSet(Pending) /\ Cardinality(Pending) \in Nat
           /\ IsFiniteSet(Repeated) /\ Cardinality(Repeated) \in Nat
<1>1. Len(history) \in Nat /\ DOMAIN history = 1 .. Len(history)
    BY DEF ServerInv, InvIn, SharedOK
<1>2. Len(revisions) \in Nat /\ DOMAIN revisions = 1 .. Len(revisions)
    OBVIOUS
<1>3. Wrong \subseteq 1 .. Len(history) /\ Pending \subseteq Task /\ Repeated \subseteq 1 .. Len(revisions)
    BY <1>1, <1>2 DEF Wrong, Pending, Repeated
<1>4. IsFiniteSet(1 .. Len(history)) /\ IsFiniteSet(1 .. Len(revisions)) /\ IsFiniteSet(Task)
    BY <1>1, <1>2, FS_Interval, RuntimeAssumption
<1>5. IsFiniteSet(Wrong) /\ IsFiniteSet(Pending) /\ IsFiniteSet(Repeated)
    BY <1>3, <1>4, FS_Subset
<1> QED
    BY <1>5, FS_CardinalityType

\* Pending apart from the task that moves.
LEMMA PendingOthers ==
    ASSUME NEW t \in Task, OthersStay(t),
           \A u \in Task \ {t} : task[u].pc \in {"post", "mark"} =>
             (RecordsOf(task[u].id)' # {} <=> RecordsOf(task[u].id) # {})
    PROVE  Pending' \ {t} = Pending \ {t}
<1>1. ASSUME NEW u \in Task, u # t PROVE u \in Pending' <=> u \in Pending
  <2>1. task'[u] = task[u]
      BY <1>1 DEF OthersStay
  <2>2. u \in Pending' <=> /\ task[u].pc \in {"post", "mark"} /\ task[u].contradicted
                           /\ RecordsOf(task[u].id)' # {}
      BY <2>1 DEF Pending, RecordsOf
  <2> QED
      BY <1>1, <2>2 DEF Pending
<1> QED
    BY <1>1 DEF Pending

LEMMA CountedResting ==
    ASSUME ServerInv, ServerInv', Resting \/ Finalized, revisions \in Seq(Revisions), Counted
    PROVE  Counted'
<1>1. /\ Len(history) \in Nat /\ DOMAIN history = 1 .. Len(history)
      /\ Len(history') \in Nat /\ DOMAIN history' = 1 .. Len(history')
    BY DEF ServerInv, InvIn, SharedOK
<1>2. /\ Len(history') = Len(history)
      /\ \A i \in 1 .. Len(history) : /\ history'[i].id = history[i].id
                                      /\ IsWrong(history'[i]) <=> IsWrong(history[i])
    BY FinalizedVerdicts DEF Resting
<1>3. task' = task /\ revisions' = revisions /\ overlapped' = overlapped
    BY DEF Resting, Finalized
<1>4. Wrong' = Wrong
    BY <1>1, <1>2 DEF Wrong
<1>5. \A id : RecordsOf(id)' = RecordsOf(id)
    BY <1>1, <1>2 DEF RecordsOf
<1>6. Pending' = Pending
    BY <1>3, <1>5 DEF Pending
<1>7. Repeated' = Repeated
    BY <1>3 DEF Repeated, Earlier
<1> QED
    BY <1>3, <1>4, <1>6, <1>7 DEF Counted

\* One task moves: a revision that contradicts is counted when it is done, and
\* the record it makes wrong a little later.
LEMMA CountedMove ==
    ASSUME ServerInv, ServerInv', TraceInv, TraceInv', NEW t \in Task, TaskMoves(t),
           Counted, overlapped' = {}
    PROVE  Cardinality(Wrong') + Cardinality(Pending') = Cardinality(Repeated')
<1> DEFINE id == task[t].id
           w  == Cardinality(Wrong)
           w1 == Cardinality(Wrong')
           p  == Cardinality(Pending)
           p1 == Cardinality(Pending')
           r  == Cardinality(Repeated)
           r1 == Cardinality(Repeated')
<1>1. overlapped = {}
    BY DEF TaskMoves, Elsewhere, Revised, LetThrough, Marking, Recorded
<1>2. /\ revisions \in Seq(Revisions) /\ revisions' \in Seq(Revisions)
      /\ \A i \in BeliefId : Told(i)
    BY <1>1 DEF TraceInv
<1>3. /\ IsFiniteSet(Wrong) /\ IsFiniteSet(Pending) /\ IsFiniteSet(Repeated)
      /\ w \in Nat /\ p \in Nat /\ r \in Nat /\ w + p = r
    BY <1>1, <1>2, CountsFinite DEF Counted
<1>4. /\ history \in Seq(Records) /\ Len(history) \in Nat /\ DOMAIN history = 1 .. Len(history)
      /\ DOMAIN history' = 1 .. Len(history')
    BY DEF ServerInv, InvIn, SharedOK
<1>5. /\ Len(revisions) \in Nat /\ DOMAIN revisions = 1 .. Len(revisions)
      /\ DOMAIN revisions' = 1 .. Len(revisions')
    BY <1>2
<1>6. ASSUME UNCHANGED revisions PROVE Repeated' = Repeated
    BY <1>6 DEF Repeated, Earlier
<1>7. ASSUME UNCHANGED history PROVE Wrong' = Wrong /\ Pending' \ {t} = Pending \ {t}
  <2>1. Wrong' = Wrong
      BY <1>7 DEF Wrong
  <2>2. \A i : RecordsOf(i)' = RecordsOf(i)
      BY <1>7 DEF RecordsOf
  <2>3. OthersStay(t)
      BY DEF TaskMoves
  <2>4. \A u \in Task \ {t} : RecordsOf(task[u].id)' = RecordsOf(task[u].id)
      BY <1>7, <2>3 DEF RecordsOf, OthersStay
  <2> QED
      BY <2>1, <2>3, <2>4, PendingOthers
<1>8. ASSUME Wrong' = Wrong, Pending' \ {t} = Pending \ {t}, t \in Pending' <=> t \in Pending,
             Repeated' = Repeated
      PROVE  w1 + p1 = r1
  <2>1. Pending' = Pending
      BY <1>8
  <2> QED
      BY <1>3, <1>8, <2>1
<1>9. CASE Elsewhere(t)
  <2>1. UNCHANGED <<history, revisions>> /\ t \notin Pending /\ t \notin Pending'
      BY <1>9 DEF Elsewhere, UpdatePcs, Pending
  <2> QED
      BY <1>6, <1>7, <1>8, <2>1
<1>10. CASE LetThrough(t)
  <2>1. UNCHANGED <<history, revisions>> /\ (t \in Pending' <=> t \in Pending)
    <3>1. UNCHANGED <<history, revisions>> /\ RecordsOf(id)' = RecordsOf(id)
        BY <1>10 DEF LetThrough, SameUpdate, RecordsOf
    <3>2. task[t].pc = "post" /\ SameUpdate(t)
          /\ task'[t].pc = IF task[t].contradicted THEN "mark" ELSE "record"
        BY <1>10 DEF LetThrough
    <3>3. t \in Pending <=> task[t].contradicted /\ RecordsOf(id) # {}
        BY <3>2 DEF Pending
    <3>4. t \in Pending' <=> /\ task'[t].pc \in {"post", "mark"} /\ task'[t].contradicted
                             /\ RecordsOf(id)' # {}
        BY DEF Pending
    <3> QED
        BY <3>1, <3>2, <3>3, <3>4 DEF SameUpdate
  <2> QED
      BY <1>6, <1>7, <1>8, <2>1
<1>11. CASE Revised(t)
  <2> DEFINE x == [id |-> id, contracted |-> task'[t].contradicted]
             n == Len(revisions)
  <2>1. /\ task[t].pc = "revise" /\ task'[t].pc = "post" /\ task'[t].id = id
        /\ revisions' = Append(revisions, x) /\ UNCHANGED history
        /\ Updating(id) = {}
      BY <1>11 DEF Revised
  <2>2. id \in BeliefId /\ x.id = id /\ x.contracted = task'[t].contradicted
      BY <2>1, UpdateTask
  <2> HIDE DEF x
  <2>3. /\ Len(revisions') = n + 1 /\ revisions'[n + 1] = x /\ n \in Nat
        /\ \A i \in 1 .. n : revisions'[i] = revisions[i]
      BY <1>2, <2>1
  <2>4. RecordsOf(id) # {} <=> \E j \in 1 .. n : revisions[j].id = id
    <3>1. Told(id)
        BY <1>2, <2>2
    <3>2. Len(Of(id, revisions)) = Len(Of(id, history))
        BY <2>1, <3>1 DEF Told, ToldBy
    <3>3. Of(id, revisions) = <<>> <=> Of(id, history) = <<>>
      <4>1. Of(id, history) \in Seq(Records) /\ Of(id, revisions) \in Seq(Revisions)
          BY <1>2, SidesTyped
      <4> DEFINE H == Of(id, history)
                 V == Of(id, revisions)
      <4>2. H \in Seq(Records) /\ V \in Seq(Revisions) /\ Len(V) = Len(H)
          BY <3>2, <4>1
      <4> HIDE DEF H, V
      <4>3. V = <<>> <=> H = <<>>
          BY <4>2
      <4> QED
          BY <4>3 DEF H, V
    <3>4. Of(id, revisions) = <<>> <=> \A j \in 1 .. n : revisions[j].id # id
        BY <1>2, OfNone
    <3>5. Of(id, history) = <<>> <=> \A j \in 1 .. Len(history) : history[j].id # id
        BY <1>4, OfNone
    <3>6. RecordsOf(id) = {} <=> \A j \in 1 .. Len(history) : history[j].id # id
        BY <1>4 DEF RecordsOf
    <3> QED
        BY <3>3, <3>4, <3>5, <3>6
  <2>5. \A i \in 1 .. n + 1 : Earlier(i, revisions)' <=>
                                IF i = n + 1 THEN RecordsOf(id) # {} ELSE Earlier(i, revisions)
    <3>1. ASSUME NEW i \in 1 .. n + 1
          PROVE  Earlier(i, revisions)' <=>
                   IF i = n + 1 THEN RecordsOf(id) # {} ELSE Earlier(i, revisions)
      <4>1. \A j \in 1 .. i - 1 : j \in 1 .. n /\ revisions'[j] = revisions[j]
          BY <2>3
      <4>2. CASE i = n + 1
          BY <2>2, <2>3, <2>4, <4>1, <4>2 DEF Earlier
      <4>3. CASE i # n + 1
          BY <2>3, <4>1, <4>3 DEF Earlier
      <4> QED
          BY <4>2, <4>3
    <3> QED
        BY <3>1
  <2>6. Repeated' = IF task'[t].contradicted /\ RecordsOf(id) # {} THEN Repeated \cup {n + 1} ELSE Repeated
    <3>1. ASSUME NEW i
          PROVE  i \in Repeated' <=> \/ i \in Repeated
                                     \/ i = n + 1 /\ task'[t].contradicted /\ RecordsOf(id) # {}
      <4>1. i \in Repeated' <=> i \in 1 .. n + 1 /\ revisions'[i].contracted /\ Earlier(i, revisions)'
          BY <1>5, <2>3 DEF Repeated
      <4>2. i \in Repeated <=> i \in 1 .. n /\ revisions[i].contracted /\ Earlier(i, revisions)
          BY <1>5 DEF Repeated
      <4>3. CASE i = n + 1
          BY <2>2, <2>3, <2>5, <4>1, <4>2, <4>3
      <4>4. CASE i # n + 1
          BY <2>3, <2>5, <4>1, <4>2, <4>4
      <4> QED
          BY <4>3, <4>4
    <3> QED
        BY <3>1
  <2>7. n + 1 \notin Repeated
      BY <1>5, <2>3 DEF Repeated
  <2>8. /\ t \notin Pending /\ Wrong' = Wrong /\ Pending' \ {t} = Pending \ {t}
        /\ t \in Pending' <=> task'[t].contradicted /\ RecordsOf(id) # {}
    <3>1. RecordsOf(id)' = RecordsOf(id)
        BY <2>1 DEF RecordsOf
    <3> QED
        BY <1>7, <2>1, <3>1 DEF Pending
  <2>9. CASE task'[t].contradicted /\ RecordsOf(id) # {}
    <3>1. Repeated' = Repeated \cup {n + 1} /\ Pending' = Pending \cup {t}
        BY <2>6, <2>8, <2>9
    <3>2. r1 = r + 1 /\ p1 = p + 1
        BY <1>3, <2>7, <2>8, <3>1, FS_AddElement
    <3> QED
        BY <1>3, <2>8, <3>2
  <2>10. CASE ~(task'[t].contradicted /\ RecordsOf(id) # {})
      BY <1>8, <2>6, <2>8, <2>10
  <2> QED
      BY <2>9, <2>10
<1>12. CASE Marking(t)
  <2>1. task[t].pc = "mark" /\ task'[t].pc = "record" /\ UNCHANGED revisions
      BY <1>12 DEF Marking
  <2>2. Repeated' = Repeated /\ t \notin Pending'
      BY <1>6, <2>1 DEF Pending
  <2>3. id \in BeliefId /\ t \in Updating(id)
      BY <2>1, UpdateTask DEF UpdatePcs, Updating
  <2>4. Told(id)
      BY <1>2, <2>3
  <2>5. task[t].contradicted
      BY <2>1, <2>3, <2>4 DEF Told, ToldBy
  <2>6. CASE history' = history /\ RecordsOf(id) = {}
    <3>1. t \notin Pending
        BY <2>6 DEF Pending
    <3> QED
        BY <1>7, <1>8, <2>2, <2>6, <3>1
  <2>7. CASE \E k : MarkedAt(k, id)
    <3>1. PICK k : MarkedAt(k, id)
        BY <2>7
    <3>2. /\ k \in 1 .. Len(history) /\ history[k].id = id /\ IsWrong(history'[k])
          /\ Len(history') = Len(history)
          /\ \A i \in 1 .. Len(history) : /\ i > k => history[i].id # id
                                          /\ i # k => history'[i] = history[i]
                                          /\ history'[i].id = history[i].id
        BY <3>1 DEF MarkedAt
    <3>3. ~IsWrong(history[k])
      <4> DEFINE H == Of(id, history)
                 V == Of(id, revisions)
      <4>1. Len(H) # 0 /\ H[Len(H)] = history[k]
          BY <1>4, <3>2, OfLast
      <4>2. H \in Seq(Records)
          BY <1>2, SidesTyped
      <4>3. ToldBy(H, V, Updating(id), task)
          BY <2>4 DEF Told
      <4> HIDE DEF H, V
      <4>4. Len(H) \in 1 .. Len(H)
          BY <4>1, <4>2
      <4>5. IsWrong(H[Len(H)]) => \A u \in Updating(id) : task[u].pc = "record"
          BY <4>3, <4>4 DEF ToldBy
      <4> QED
          BY <2>1, <2>3, <4>1, <4>5
    <3>4. Wrong' = Wrong \cup {k} /\ k \notin Wrong
        BY <1>4, <3>2, <3>3 DEF Wrong
    <3>5. w1 = w + 1
        BY <1>3, <3>4, FS_AddElement
    <3>6. \A u \in Task \ {t} : RecordsOf(task[u].id)' # {} <=> RecordsOf(task[u].id) # {}
      <4>1. ASSUME NEW u \in Task \ {t} PROVE RecordsOf(task[u].id)' = RecordsOf(task[u].id)
        <5>1. task'[u] = task[u]
            BY DEF TaskMoves, OthersStay
        <5> QED
            BY <1>4, <3>2, <5>1 DEF RecordsOf
      <4> QED
          BY <4>1
    <3>7. Pending' \ {t} = Pending \ {t}
      <4>1. OthersStay(t)
          BY DEF TaskMoves
      <4> QED
          BY <3>6, <4>1, PendingOthers
    <3>8. t \in Pending
      <4>1. k \in RecordsOf(id)
          BY <1>4, <3>2 DEF RecordsOf
      <4> QED
          BY <2>1, <2>5, <4>1 DEF Pending
    <3>9. Pending' = Pending \ {t}
        BY <2>2, <3>7
    <3>10. p1 = p - 1
        BY <1>3, <3>8, <3>9, FS_RemoveElement
    <3> QED
        BY <1>3, <2>2, <3>5, <3>10
  <2> QED
      BY <1>12, <2>6, <2>7, MarkEffect
<1>13. CASE Recorded(t)
  <2> DEFINE x == [id |-> id, conf |-> task[t].fast, correct |-> None]
             n == Len(history)
  <2>1. /\ task[t].pc = "record" /\ task'[t].pc = "idle" /\ UNCHANGED revisions
        /\ history' = Append(history, x)
      BY <1>13 DEF Recorded
  <2>2. ~IsWrong(x) /\ x.id = id
      BY RuntimeAssumption DEF IsWrong
  <2> HIDE DEF x
  <2>3. /\ Len(history') = n + 1 /\ history'[n + 1] = x /\ n \in Nat
        /\ \A i \in 1 .. n : history'[i] = history[i]
      BY <1>4, <2>1
  <2>4. Wrong' = Wrong
    <3>1. ASSUME NEW i PROVE i \in Wrong' <=> i \in Wrong
      <4>1. i \in Wrong' <=> i \in 1 .. n + 1 /\ IsWrong(history'[i])
          BY <1>4, <2>3 DEF Wrong
      <4>2. i \in Wrong <=> i \in 1 .. n /\ IsWrong(history[i])
          BY <1>4 DEF Wrong
      <4> QED
          BY <2>2, <2>3, <4>1, <4>2
    <3> QED
        BY <3>1
  <2>5. id \in BeliefId /\ t \in Updating(id)
      BY <2>1, UpdateTask DEF UpdatePcs, Updating
  <2>6. ASSUME NEW u \in Task \ {t}, task[u].pc \in {"post", "mark"}
        PROVE  RecordsOf(task[u].id)' # {} <=> RecordsOf(task[u].id) # {}
    <3>1. task[u].id # id
      <4>1. Told(id)
          BY <1>2, <2>5
      <4>2. \A v \in Updating(id) : v = t
          BY <2>5, <4>1 DEF Told, ToldBy
      <4>3. u \notin Updating(id)
          BY <2>6, <4>2
      <4> QED
          BY <2>6, <4>3 DEF Updating
    <3>2. task'[u] = task[u]
        BY DEF TaskMoves, OthersStay
    <3>3. RecordsOf(task[u].id)' = RecordsOf(task[u].id)
      <4>1. ASSUME NEW i PROVE i \in RecordsOf(task[u].id)' <=> i \in RecordsOf(task[u].id)
        <5>1. i \in RecordsOf(task[u].id)' <=> i \in 1 .. n + 1 /\ history'[i].id = task[u].id
            BY <1>4, <2>3, <3>2 DEF RecordsOf
        <5>2. i \in RecordsOf(task[u].id) <=> i \in 1 .. n /\ history[i].id = task[u].id
            BY <1>4 DEF RecordsOf
        <5> QED
            BY <2>2, <2>3, <3>1, <5>1, <5>2
      <4> QED
          BY <4>1
    <3> QED
        BY <3>3
  <2>7. Pending' \ {t} = Pending \ {t}
    <3>1. OthersStay(t)
        BY DEF TaskMoves
    <3> QED
        BY <2>6, <3>1, PendingOthers
  <2>8. t \notin Pending /\ t \notin Pending'
      BY <2>1 DEF Pending
  <2> QED
      BY <1>6, <1>8, <2>1, <2>4, <2>7, <2>8
<1> QED
    BY <1>9, <1>10, <1>11, <1>12, <1>13 DEF TaskMoves

LEMMA CountedInit == GatewayInit => Counted
<1> SUFFICES ASSUME GatewayInit PROVE Counted
    OBVIOUS
<1>1. history = <<>> /\ revisions = <<>>
    BY DEF GatewayInit, Init
<1>2. \A t \in Task : task[t].pc = "idle"
    BY DEF GatewayInit, Init, Idle, Frame
<1>3. DOMAIN <<>> = {}
    OBVIOUS
<1>4. Wrong = {} /\ Pending = {} /\ Repeated = {}
    BY <1>1, <1>2, <1>3 DEF Wrong, Pending, Repeated
<1> QED
    BY <1>4, FS_EmptySet DEF Counted

LEMMA CountedNext ==
    /\ ServerInv /\ ServerInv' /\ TraceInv /\ TraceInv' /\ Counted
    /\ [GatewayNext]_gatewayVars
    => Counted'
<1> SUFFICES ASSUME ServerInv, ServerInv', TraceInv, TraceInv', Counted,
                    [GatewayNext]_gatewayVars
             PROVE  Counted'
    OBVIOUS
<1>1. ServerMoves
    BY StepMoves
<1>2. CASE Resting \/ Finalized
  <2>1. revisions \in Seq(Revisions)
      BY DEF TraceInv
  <2> QED
      BY <1>2, <2>1, CountedResting
<1>3. ASSUME NEW t \in Task, TaskMoves(t) PROVE Counted'
  <2>1. overlapped' = {} => Cardinality(Wrong') + Cardinality(Pending') = Cardinality(Repeated')
      BY <1>3, CountedMove
  <2> QED
      BY <2>1 DEF Counted
<1> QED
    BY <1>1, <1>2, <1>3 DEF ServerMoves

-----------------------------------------------------------------------------
(* The calibration error *)

ErrorOf(r) == IF r.correct THEN Scale - r.conf ELSE r.conf

ErrorEquation(m, n, s) ==
    m = [i \in 0 .. n |-> IF i = 0 THEN 0
                          ELSE IF i \notin TeceInput(s) THEN m[i - 1]
                          ELSE m[i - 1] + ErrorOf(s[i])]

LEMMA ErrorRange ==
    ASSUME NEW r \in Records
    PROVE  ErrorOf(r) \in 0 .. Scale
<1>1. r.conf \in 0 .. Scale /\ Scale \in Nat
    BY QuadAssumption DEF Records, Conf
<1>2. Scale - r.conf \in 0 .. Scale
    BY <1>1
<1>3. CASE r.correct
    BY <1>2, <1>3 DEF ErrorOf
<1>4. CASE ~r.correct
    BY <1>1, <1>4 DEF ErrorOf
<1> QED
    BY <1>3, <1>4

\* The errors add up record by record.
LEMMA ErrorRun ==
    ASSUME NEW s \in Seq(Records), NEW n \in Nat, n = Len(s)
    PROVE  \E m : ErrorEquation(m, n, s)
<1> DEFINE step == [x \in (1 .. n) \X Int |->
                      IF x[1] \notin TeceInput(s) THEN x[2] ELSE x[2] + ErrorOf(s[x[1]])]
<1>1. \A i \in 1 .. n : ErrorOf(s[i]) \in Int
  <2>1. \A i \in 1 .. n : s[i] \in Records
      OBVIOUS
  <2>2. Scale \in Nat
      BY QuadAssumption
  <2>3. \A e \in 0 .. Scale : e \in Int
      BY <2>2
  <2> HIDE DEF ErrorOf
  <2> QED
      BY <2>1, <2>3, ErrorRange
<1> HIDE DEF ErrorOf, TeceInput
<1>2. step \in Steps(n, Int) /\ 0 \in Int
  <2>1. \A x \in (1 .. n) \X Int :
          (IF x[1] \notin TeceInput(s) THEN x[2] ELSE x[2] + ErrorOf(s[x[1]])) \in Int
      BY <1>1
  <2> QED
      BY <2>1 DEF Steps
<1>3. \A i \in 1 .. n, x \in Int :
        step[<<i, x>>] = IF i \notin TeceInput(s) THEN x ELSE x + ErrorOf(s[i])
    OBVIOUS
<1> HIDE DEF step
<1>4. PICK f : Iterates(f, n, Int, 0, step)
    BY <1>2, SegmentRecursion
<1>5. ASSUME NEW i \in 0 .. n
      PROVE  f[i] = IF i = 0 THEN 0
                    ELSE IF i \notin TeceInput(s) THEN f[i - 1] ELSE f[i - 1] + ErrorOf(s[i])
  <2> USE DEF Iterates
  <2>1. CASE i = 0
      BY <1>4, <2>1
  <2>2. CASE i # 0
    <3>1. i \in 1 .. n /\ i - 1 \in 0 .. n
        BY <2>2
    <3>2. f[i - 1] \in Int /\ f[i] = step[<<i, f[i - 1]>>]
        BY <1>4, <3>1
    <3> QED
        BY <1>3, <2>2, <3>1, <3>2
  <2> QED
      BY <2>1, <2>2
<1>6. f \in [0 .. n -> Int]
    BY <1>4 DEF Iterates
<1>7. ErrorEquation(f, n, s)
    BY <1>5, <1>6 DEF ErrorEquation
<1> QED
    BY <1>7

\* No record with an outcome is off by more than one.
LEMMA ErrorBound ==
    ASSUME NEW s \in Seq(Records)
    PROVE  TotalError(s) <= Scale * Cardinality(TeceInput(s))
<1> DEFINE n == Len(s)
           total == CHOOSE m : ErrorEquation(m, n, s)
           Upto(i) == {j \in 1 .. i : j \in TeceInput(s)}
<1>1. n \in Nat /\ \A i \in 1 .. n : s[i] \in Records
    OBVIOUS
<1>2. TotalError(s) =
        LET sum == CHOOSE sum : sum = [i \in 0 .. Len(s) |->
                     IF i = 0 THEN 0
                     ELSE IF i \notin TeceInput(s) THEN sum[i - 1]
                     ELSE sum[i - 1] + IF s[i].correct THEN Scale - s[i].conf ELSE s[i].conf]
        IN  sum[Len(s)]
    BY Zenon DEF TotalError
<1>3. TotalError(s) = total[n]
    BY <1>2, Zenon DEF ErrorEquation, ErrorOf
<1>4. TeceInput(s) = Upto(n)
    BY DEF TeceInput
<1>5. ErrorEquation(total, n, s)
  <2> HIDE DEF n
  <2>1. \E m : ErrorEquation(m, n, s)
      BY <1>1, ErrorRun DEF n
  <2> QED
      BY <2>1, Zenon
<1> HIDE DEF total, n
<1>6. total[0] = 0 /\ \A i \in 1 .. n :
        total[i] = IF i \notin TeceInput(s) THEN total[i - 1] ELSE total[i - 1] + ErrorOf(s[i])
  <2> HIDE DEF TeceInput, ErrorOf
  <2>1. \A i \in 0 .. n : total[i] = IF i = 0 THEN 0
                                     ELSE IF i \notin TeceInput(s) THEN total[i - 1]
                                     ELSE total[i - 1] + ErrorOf(s[i])
      BY <1>5 DEF ErrorEquation
  <2>2. 0 \in 0 .. n /\ \A i \in 1 .. n : i \in 0 .. n /\ i # 0
      BY <1>1
  <2> QED
      BY <2>1, <2>2
<1>7. \A i \in 1 .. n : ErrorOf(s[i]) \in 0 .. Scale
    BY <1>1, ErrorRange
<1>8. \A i \in 0 .. n : IsFiniteSet(Upto(i)) /\ Cardinality(Upto(i)) \in Nat
  <2>1. ASSUME NEW i \in 0 .. n PROVE IsFiniteSet(Upto(i)) /\ Cardinality(Upto(i)) \in Nat
    <3>1. IsFiniteSet(1 .. i) /\ Upto(i) \subseteq 1 .. i
        BY <1>1, FS_Interval
    <3> QED
        BY <3>1, FS_Subset, FS_CardinalityType
  <2> QED
      BY <2>1
<1>9. Scale \in Nat
    BY QuadAssumption
<1> HIDE DEF TeceInput, ErrorOf
<1> DEFINE Bounded(i) == total[i] \in Int /\ total[i] <= Scale * Cardinality(Upto(i))
           T == {i \in 0 .. n : Bounded(i)}
<1>10. 0 \in T
  <2>1. Upto(0) = {}
      OBVIOUS
  <2>2. Cardinality(Upto(0)) = 0
      BY <2>1, FS_EmptySet
  <2>3. Scale * 0 = 0
      BY <1>9
  <2>4. Bounded(0)
    <3> HIDE DEF Upto
    <3> QED
        BY <1>6, <2>2, <2>3
  <2> QED
      BY <1>1, <2>4
<1>11. ASSUME NEW i \in 0 .. n - 1, i \in T PROVE i + 1 \in T
  <2>1. i + 1 \in 1 .. n /\ (i + 1) - 1 = i /\ i \in 0 .. n /\ i + 1 \in 0 .. n
      BY <1>1
  <2>2. total[i + 1] = IF i + 1 \notin TeceInput(s) THEN total[i] ELSE total[i] + ErrorOf(s[i + 1])
      BY <1>6, <2>1
  <2>3. Bounded(i)
      BY <1>11
  <2>4. CASE i + 1 \notin TeceInput(s)
    <3>1. Upto(i + 1) = Upto(i)
        BY <2>1, <2>4
    <3> HIDE DEF Upto
    <3>2. Bounded(i + 1)
        BY <2>2, <2>3, <2>4, <3>1
    <3> QED
        BY <2>1, <3>2
  <2>5. CASE i + 1 \in TeceInput(s)
    <3> DEFINE c == Cardinality(Upto(i))
               e == ErrorOf(s[i + 1])
    <3>1. Upto(i + 1) = Upto(i) \cup {i + 1} /\ i + 1 \notin Upto(i)
        BY <2>1, <2>5
    <3>2. Cardinality(Upto(i + 1)) = c + 1 /\ c \in Nat
      <4> HIDE DEF Upto
      <4> QED
          BY <1>8, <2>1, <3>1, FS_AddElement
    <3>3. e \in Int /\ e <= Scale /\ total[i + 1] = total[i] + e
        BY <1>7, <1>9, <2>1, <2>2, <2>5
    <3>4. total[i] \in Int /\ total[i] <= Scale * c
        BY <2>3
    <3> HIDE DEF c, e
    <3>5. Scale * (c + 1) = Scale * c + Scale /\ Scale * c \in Int
        BY <1>9, <3>2
    <3>6. Bounded(i + 1)
      <4> HIDE DEF Upto
      <4> DEFINE now  == total[i + 1]
                 was  == total[i]
                 room == Scale * c
                 more == Scale * (c + 1)
      <4>1. more = room + Scale /\ room \in Int
          BY <3>5, Zenon
      <4>2. /\ e \in Int /\ e <= Scale /\ now = was + e
            /\ was \in Int /\ was <= room
          BY <3>3, <3>4, Zenon
      <4> HIDE DEF now, was, room, more
      <4>3. now \in Int /\ now <= more
          BY <1>9, <4>1, <4>2
      <4> QED
          BY <3>2, <4>3, Zenon DEF now, more
    <3> QED
        BY <2>1, <3>6
  <2> QED
      BY <2>4, <2>5
<1>12. n \in T
  <2> HIDE DEF T
  <2>1. 0 .. n \subseteq T
      BY <1>1, <1>10, <1>11, SegmentInduction
  <2> QED
      BY <1>1, <2>1
<1> QED
    BY <1>3, <1>4, <1>12

-----------------------------------------------------------------------------
(* What the trace tells *)

\* An update under way has had its revision, so its belief is a settled one.
LEMMA UpdateIsSettled ==
    ASSUME ServerInv, TraceInv, overlapped = {}, NEW t \in Task, task[t].pc \in UpdatePcs
    PROVE  \E id \in Settled : t \in Updating(id)
<1> DEFINE id == task[t].id
           V == Of(id, revisions)
           H == Of(id, history)
<1>1. id \in BeliefId /\ t \in Updating(id)
    BY UpdateTask DEF UpdatePcs, Updating
<1>2. ToldBy(H, V, Updating(id), task)
    BY <1>1 DEF TraceInv, Told
<1>3. revisions \in Seq(Revisions) /\ H \in Seq(Records)
    BY SidesTyped DEF TraceInv
<1>4. V # <<>>
  <2> HIDE DEF V, H
  <2>1. Len(V) = Len(H) + 1 /\ Len(H) \in Nat
      BY <1>1, <1>2, <1>3 DEF ToldBy
  <2>2. Len(<<>>) = 0
      OBVIOUS
  <2> QED
      BY <2>1, <2>2
<1>5. PICK j \in 1 .. Len(revisions) : revisions[j].id = id
    BY <1>3, <1>4, OfNone
<1>6. id \in Settled
    BY <1>3, <1>5 DEF Settled
<1> QED
    BY <1>1, <1>6

\* The confidence trace tells which revision contracted something, and the report
\* of a session counts these: however requests interleave, a record is marked
\* wrong by the next revision of its belief and by nothing else.
THEOREM TraceTells == GatewaySpec => []TraceTellsContractions
<1>1. ASSUME ServerInv, TraceInv, CountInv, Counted PROVE TraceTellsContractions
  <2>1. /\ history \in Seq(Records) /\ Len(history) \in Nat /\ DOMAIN history = 1 .. Len(history)
        /\ \A i \in 1 .. Len(history) : history[i] \in Records
      BY <1>1 DEF ServerInv, InvIn, SharedOK
  <2>2. revisions \in Seq(Revisions) /\ DOMAIN revisions = 1 .. Len(revisions)
        /\ \A i \in 1 .. Len(revisions) : revisions[i] \in Revisions
      BY <1>1 DEF TraceInv
  <2> DEFINE H(id) == Of(id, history)
             V(id) == Of(id, revisions)
  <2>3. ASSUME NEW id \in Settled, Updating(id) = {}
        PROVE  /\ Len(H(id)) = Len(V(id))
               /\ \A n \in DOMAIN H(id) :
                    (H(id)[n].correct = FALSE) <=> (n < Len(V(id)) /\ V(id)[n + 1].contracted)
    <3> DEFINE trace == Of(id, history)
               done == Of(id, revisions)
    <3>1. id \in BeliefId \ overlapped
        BY <2>2, <2>3 DEF Settled, Revisions
    <3>2. ToldBy(trace, done, {}, task)
        BY <1>1, <2>3, <3>1 DEF TraceInv, Told
    <3>3. DOMAIN trace = 1 .. Len(trace)
      <4>1. trace \in Seq(Records)
          BY <1>1, <2>2, SidesTyped
      <4> HIDE DEF trace
      <4> QED
          BY <4>1
    <3> HIDE DEF trace, done
    <3>4. /\ Len(trace) = Len(done)
          /\ \A n \in 1 .. Len(trace) : IsWrong(trace[n]) <=> (n < Len(done) /\ done[n + 1].contracted)
        BY <3>2 DEF ToldBy
    <3>5. /\ Len(trace) = Len(done)
          /\ \A n \in DOMAIN trace :
               (trace[n].correct = FALSE) <=> (n < Len(done) /\ done[n + 1].contracted)
        BY <3>3, <3>4, Zenon DEF IsWrong
    <3> QED
        BY <3>5 DEF trace, done
  <2>4. ASSUME overlapped = {}, \A id \in Settled : Updating(id) = {}
        PROVE  /\ SessionReport.revisions = Len(revisions)
               /\ SessionReport.contradictions =
                    Cardinality({i \in DOMAIN revisions :
                                   revisions[i].contracted
                                     /\ \E j \in 1 .. i - 1 : revisions[j].id = revisions[i].id})
               /\ SessionReport.tokens >= SessionReport.revisions
               /\ SessionReport.error <= Scale * SessionReport.known
    <3>1. At(UpdatePcs) = {} /\ Pending = {}
      <4>1. \A t \in Task : task[t].pc \notin UpdatePcs
          BY <1>1, <2>4, UpdateIsSettled
      <4> QED
          BY <4>1 DEF At, Pending, UpdatePcs
    <3>2. Len(history) = Len(revisions)
      <4>1. Len(revisions) = Len(history) + 0
          BY <1>1, <3>1, FS_EmptySet DEF CountInv, Balance
      <4> QED
          BY <2>1, <4>1
    <3>3. Cardinality(Wrong) = Cardinality(Repeated)
      <4>1. Cardinality(Wrong) \in Nat
          BY <1>1, <2>2, CountsFinite
      <4>2. Cardinality(Wrong) + 0 = Cardinality(Repeated)
          BY <1>1, <2>4, <3>1, FS_EmptySet DEF Counted
      <4> QED
          BY <4>1, <4>2
    <3>4. Wrong = {i \in TeceInput(history) : ~history[i].correct}
      <4>1. ASSUME NEW i \in 1 .. Len(history)
            PROVE  IsWrong(history[i]) <=> history[i].correct # None /\ ~history[i].correct
        <5>1. history[i].correct \in {None, TRUE, FALSE}
            BY <2>1 DEF Records
        <5>2. None # TRUE /\ None # FALSE
            BY RuntimeAssumption
        <5> QED
            BY <5>1, <5>2, Zenon DEF IsWrong
      <4> QED
          BY <2>1, <4>1, Zenon DEF Wrong, TeceInput
    <3>5. Repeated = {i \in DOMAIN revisions :
                        revisions[i].contracted
                          /\ \E j \in 1 .. i - 1 : revisions[j].id = revisions[i].id}
        BY DEF Repeated, Earlier
    <3>6. Len(history) <= tokensUsed
      <4>1. Len(history) + Cardinality(InFlight) <= tokensUsed /\ tokensUsed \in Nat
          BY <1>1 DEF CountInv, Paid, ServerInv, InvIn, SharedOK
      <4> QED
          BY <2>1, <4>1, InFlightFinite
    <3>7. /\ SessionReport.revisions = Len(history) /\ SessionReport.tokens = tokensUsed
          /\ SessionReport.contradictions = Cardinality({i \in TeceInput(history) : ~history[i].correct})
          /\ SessionReport.known = Cardinality(TeceInput(history))
          /\ SessionReport.error = TotalError(history)
        BY DEF SessionReport
    <3>8. TotalError(history) <= Scale * Cardinality(TeceInput(history))
        BY <2>1, ErrorBound
    <3>9. tokensUsed >= Len(revisions)
        BY <3>2, <3>6
    <3> QED
        BY <3>2, <3>3, <3>4, <3>5, <3>7, <3>8, <3>9
  <2> QED
      BY <2>3, <2>4, Zenon DEF TraceTellsContractions
<1> QED
    BY <1>1, TraceInit, TraceNext, CountInit, CountNext, CountedInit, CountedNext,
       ServerInvariance, PTL DEF GatewaySpec

=============================================================================

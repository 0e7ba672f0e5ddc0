------------------------ MODULE System2Tasks_proofs ------------------------
(***************************************************************************)
(* Theorems about System2Tasks for every number of clients, tasks, tokens, *)
(* restarts and every refill rate: the budget is exact, and every step of  *)
(* the server is a step of TaskPromise, or none; streams run forward.      *)
(***************************************************************************)
EXTENDS System2Tasks, QuadOps_proofs

-----------------------------------------------------------------------------
(* The bucket *)

\* Waiting one tick adds at most what a tick adds, and takes nothing.
LEMMA TickLevel ==
    ASSUME NEW b \in Bucket, NEW n \in Nat, b.last <= n
    PROVE  /\ Level(b, n) \in 0 .. Full
           /\ Level(b, n) <= Level(b, n + 1)
           /\ Level(b, n + 1) <= Level(b, n) + Rate
<1>1. b.available \in 0 .. Full /\ b.last \in Nat /\ Full \in Nat /\ Rate \in Nat
    BY BucketAssumption DEF Bucket, Full
<1>2. n - b.last \in Nat
    BY <1>1
<1>3. PICK e \in Nat : e = (n - b.last) * Rate
    BY <1>1, <1>2
<1>4. Level(b, n) = UpToFull(b.available + e)
    BY <1>3 DEF Level
<1>5. PICK m \in Nat : m = n + 1
    OBVIOUS
<1>6. (m - b.last) * Rate = e + Rate
  <2>1. PICK d \in Nat : d = n - b.last
      BY <1>2
  <2>2. m - b.last = d + 1 /\ e = d * Rate
      BY <1>1, <1>3, <1>5, <2>1
  <2>3. (d + 1) * Rate = d * Rate + Rate
      BY <1>1
  <2> QED
      BY <2>2, <2>3
<1>7. Level(b, m) = UpToFull(b.available + (e + Rate))
    BY <1>6 DEF Level
<1> QED
    BY <1>1, <1>3, <1>4, <1>5, <1>7 DEF UpToFull

\* A bucket is refilled before tokens are taken: its level then falls by what
\* was taken, and not at all when nothing was.
LEMMA RefillLevel ==
    ASSUME NEW b \in Bucket, NEW n \in Nat, b.last <= n
    PROVE  /\ Refill(b, n) \in Bucket /\ Refill(b, n).last <= n
           /\ Level(Refill(b, n), n) = Level(b, n)
           /\ Refill(b, n).available <= Level(b, n)
<1>1. b.available \in 0 .. Full /\ b.last \in Nat /\ Full \in Nat /\ Rate \in Nat
    BY BucketAssumption DEF Bucket, Full
<1>2. Level(b, n) \in 0 .. Full
    BY TickLevel
<1>3. CASE Rate = 0
  <2>1. Refill(b, n) = b
      BY <1>3 DEF Refill
  <2>2. (n - b.last) * Rate = 0
      BY <1>1, <1>3
  <2>3. Level(b, n) = b.available
      BY <1>1, <2>2 DEF Level, UpToFull
  <2> QED
      BY <1>1, <2>1, <2>3
<1>4. CASE Rate # 0
  <2>1. Refill(b, n) = [available |-> Level(b, n), last |-> n]
      BY <1>4 DEF Refill
  <2>2. (n - n) * Rate = 0
      BY <1>1
  <2>3. Level(Refill(b, n), n) = UpToFull(Level(b, n) + 0)
      BY <2>1, <2>2 DEF Level
  <2> QED
      BY <1>1, <1>2, <2>1, <2>3 DEF Bucket, UpToFull
<1> QED
    BY <1>3, <1>4

LEMMA ConsumeLevel ==
    ASSUME NEW b \in Bucket, NEW n \in Nat, b.last <= n, Covers(b, n, 1)
    PROVE  /\ Consume(b, n, 1) \in Bucket /\ Consume(b, n, 1).last <= n
           /\ Level(Consume(b, n, 1), n) = Level(b, n) - Grain
<1> DEFINE r == Refill(b, n)
           c == Consume(b, n, 1)
<1>1. /\ r \in Bucket /\ r.last <= n /\ Level(r, n) = Level(b, n)
      /\ Full \in Nat /\ Grain \in Nat \ {0} /\ Rate \in Nat
    BY RefillLevel, BucketAssumption DEF Full
<1>2. r.available >= Grain /\ r.available \in 0 .. Full /\ r.last \in Nat
    BY <1>1 DEF Covers, Bucket
<1>3. c = [available |-> r.available - Grain, last |-> r.last]
    BY <1>1 DEF Consume, Bucket
<1>4. (n - r.last) * Rate = 0
  <2>1. CASE Rate = 0
      BY <1>1, <1>2, <2>1
  <2>2. CASE Rate # 0
    <3>1. r.last = n
        BY <2>2 DEF Refill
    <3> QED
        BY <1>1, <3>1
  <2> QED
      BY <2>1, <2>2
<1>5. Level(r, n) = UpToFull(r.available + 0) /\ Level(c, n) = UpToFull(c.available + 0)
    BY <1>3, <1>4 DEF Level
<1>6. Level(r, n) = r.available /\ Level(c, n) = c.available
    BY <1>1, <1>2, <1>3, <1>5 DEF UpToFull
<1> QED
    BY <1>1, <1>2, <1>3, <1>6 DEF Bucket

\* Releasing first and refilling later, capped twice, is as good as the other
\* way round.
LEMMA ReleaseLevel ==
    ASSUME NEW b \in Bucket, NEW n \in Nat, b.last <= n
    PROVE  /\ Release(b, 1) \in Bucket /\ Release(b, 1).last = b.last
           /\ Level(Release(b, 1), n) = UpToFull(Level(b, n) + Grain)
<1>1. /\ b.available \in 0 .. Full /\ b.last \in Nat /\ Full \in Nat /\ Rate \in Nat
      /\ Grain \in Nat \ {0}
    BY BucketAssumption DEF Bucket, Full
<1>2. PICK e \in Nat : e = (n - b.last) * Rate
    BY <1>1
<1>3. Release(b, 1) = [available |-> UpToFull(b.available + Grain), last |-> b.last]
    BY <1>1 DEF Release, Bucket
<1>4. Level(Release(b, 1), n) = UpToFull(UpToFull(b.available + Grain) + e)
    BY <1>2, <1>3 DEF Level
<1>5. Level(b, n) = UpToFull(b.available + e)
    BY <1>2 DEF Level
<1>6. UpToFull(b.available + Grain) \in 0 .. Full
    BY <1>1 DEF UpToFull
<1> QED
    BY <1>1, <1>2, <1>3, <1>4, <1>5, <1>6 DEF UpToFull, Bucket

-----------------------------------------------------------------------------
(* Type correctness *)

\* The beliefs of a server are those it started with, or fewer.
LEMMA BeliefsTyped == Live(InitialQuad) \subseteq BeliefId
    BY System2Assumption DEF QuadInv, IsQuad

\* A store write, failed or not, leaves a status for every task.
LEMMA WriteType ==
    ASSUME store \in [Tasks -> Status], NEW t \in Tasks, NEW status \in Status,
           Write(t, status) \/ UpdateStatus(t, status)
    PROVE  store' \in [Tasks -> Status]
BY DEF Write, UpdateStatus

\* Every step keeps the beliefs well-formed.
LEMMA QuadKept ==
    ASSUME TypeOK, [Next]_vars
    PROVE  QuadInv(quad')
<1>1. QuadInv(quad)
    BY DEF TypeOK
<1>2. ASSUME NEW c \in Client, NEW id \in Live(InitialQuad), NEW v \in Value,
             UpdateBelief(c, id, v)
      PROVE  QuadInv(quad')
  <2>1. PICK out \in Revise(quad, id, v, Scale) : quad' = out.quad
      BY <1>2 DEF UpdateBelief
  <2>2. id \in BeliefId /\ Scale \in Int
      BY BeliefsTyped, QuadAssumption
  <2> QED
      BY <1>1, <2>1, <2>2, ReviseInv
<1>3. ASSUME NEW t \in Tasks, WriteSlow(t)
      PROVE  QuadInv(quad')
  <2>1. t \in Int
      BY System2Assumption DEF Tasks
  <2>2. CASE future[t].id \in Live(quad)
    <3>1. quad' = [quad EXCEPT !.nodes[future[t].id].slow = t]
        BY <1>3, <2>2 DEF WriteSlow
    <3> QED
        BY <1>1, <2>1, <2>2, <3>1, SetSlowInv
  <2>3. CASE future[t].id \notin Live(quad)
      BY <1>1, <1>3, <2>3 DEF WriteSlow
  <2> QED
      BY <2>2, <2>3
<1>4. CASE Restart
    BY <1>4, System2Assumption DEF Restart
<1>5. CASE UNCHANGED quad
    BY <1>1, <1>5
<1> QED
    BY <1>2, <1>3, <1>4, <1>5 DEF Next, vars, process, Tick, TryConsumeBudget, CreateTask, Step,
        SetRunning, ReplaceLast, Complete, ReleaseBudget, Fail, Reflect, OpenStream, PollTask

\* Every step keeps the bucket between empty and full, and not ahead of the clock.
LEMMA BucketKept ==
    ASSUME TypeOK, [Next]_vars
    PROVE  bucket' \in Bucket /\ now' \in Nat /\ bucket'.last <= now'
<1>1. bucket \in Bucket /\ now \in Nat /\ bucket.last <= now /\ bucket.last \in Nat
    BY DEF TypeOK, Bucket
<1>2. CASE Tick
    BY <1>1, <1>2 DEF Tick, process
<1>3. ASSUME NEW c \in Client, TryConsumeBudget(c)
      PROVE  bucket' \in Bucket /\ now' = now /\ bucket'.last <= now
    BY <1>1, <1>3, RefillLevel, ConsumeLevel DEF TryConsumeBudget
<1>4. ASSUME NEW t \in Tasks, ReleaseBudget(t)
      PROVE  bucket' \in Bucket /\ now' = now /\ bucket'.last <= now
    BY <1>1, <1>4, ReleaseLevel DEF ReleaseBudget
<1>5. CASE Restart
    BY <1>5, BucketAssumption DEF Restart, NewBucket, Bucket, Full
<1>6. CASE UNCHANGED <<bucket, now>>
    BY <1>1, <1>6
<1> QED
    BY <1>1, <1>2, <1>3, <1>4, <1>5, <1>6 DEF Next, vars, process, UpdateBelief, CreateTask,
        Step, SetRunning, WriteSlow, ReplaceLast, Complete, Fail, Reflect, OpenStream, PollTask

\* Every step keeps the history a sequence of records.
LEMMA HistoryKept ==
    ASSUME TypeOK, [Next]_vars
    PROVE  history' \in Seq(Entry)
<1>1. history \in Seq(Entry)
    BY DEF TypeOK
<1>2. ASSUME NEW c \in Client, NEW id \in Live(InitialQuad), NEW v \in Value,
             UpdateBelief(c, id, v)
      PROVE  history' \in Seq(Entry)
  <2>1. [id |-> id, answer |-> None] \in Entry
      BY BeliefsTyped DEF Entry
  <2>2. CASE history' = Append(history, [id |-> id, answer |-> None])
      BY <1>1, <2>1, <2>2
  <2> QED
      BY <1>1, <1>2, <2>2 DEF UpdateBelief
<1>3. ASSUME NEW t \in Tasks, ReplaceLast(t)
      PROVE  history' \in Seq(Entry)
  <2> DEFINE mine == {i \in DOMAIN history : history[i].id = future[t].id}
             last == CHOOSE i \in mine : \A j \in mine : j <= i
  <2>1. history' = history \/ history' = [history EXCEPT ![last].answer = t]
      BY <1>3 DEF ReplaceLast
  <2>2. CASE history' = [history EXCEPT ![last].answer = t]
    <3> HIDE DEF last
    <3>1. \A i \in DOMAIN history : history[i] \in Entry
        BY <1>1
    <3>2. \A i \in DOMAIN history : [history[i] EXCEPT !.answer = t] \in Entry
        BY <3>1 DEF Entry
    <3>3. /\ DOMAIN history' = DOMAIN history
          /\ \A i \in DOMAIN history : history'[i] \in Entry
        BY <2>2, <3>1, <3>2
    <3>4. DOMAIN history = 1 .. Len(history) /\ Len(history) \in Nat
        BY <1>1
    <3>5. history' = [i \in 1 .. Len(history) |-> history'[i]]
        BY <2>2, <3>3, <3>4
    <3>6. history' \in [1 .. Len(history) -> Entry]
        BY <3>3, <3>4, <3>5
    <3> QED
        BY <3>4, <3>6, FunctionIsSeq
  <2> QED
      BY <1>1, <2>1, <2>2
<1>4. CASE Restart
    BY <1>4 DEF Restart
<1>5. CASE UNCHANGED history
    BY <1>1, <1>5
<1> QED
    BY <1>2, <1>3, <1>4, <1>5 DEF Next, vars, process, Tick, TryConsumeBudget, CreateTask, Step,
        SetRunning, WriteSlow, Complete, ReleaseBudget, Fail, Reflect, OpenStream, PollTask

\* The choice of the store, and what it leaves on disk, change with the process.
LEMMA BackendKept ==
    ASSUME TypeOK, [Next]_vars
    PROVE  /\ ~Restart => durable' = durable /\ disk' = disk
           /\ durable' \in BOOLEAN /\ disk' \in [Tasks -> Status]
<1>1. durable \in BOOLEAN /\ store \in [Tasks -> Status] /\ disk \in [Tasks -> Status]
    BY DEF TypeOK
<1>2. UNCHANGED backend \/ Restart
    BY DEF Next, vars, backend, Tick, UpdateBelief, TryConsumeBudget, CreateTask, Step,
        SetRunning, WriteSlow, ReplaceLast, Complete, ReleaseBudget, Fail, Reflect, OpenStream,
        PollTask
<1>3. NoTasks \in [Tasks -> Status]
    BY DEF NoTasks, Status
<1>4. CASE Restart
    BY <1>1, <1>3, <1>4 DEF Restart, Kept
<1> QED
    BY <1>1, <1>2, <1>4 DEF backend

\* Every step keeps the store total.
LEMMA StoreKept ==
    ASSUME TypeOK, [Next]_vars
    PROVE  store' \in [Tasks -> Status]
<1>1. store \in [Tasks -> Status] /\ disk \in [Tasks -> Status]
    BY DEF TypeOK
<1>2. {"absent", "pending", "running", "completed", "failed"} \subseteq Status
    BY DEF Status, Terminal
<1>3. ASSUME NEW c \in Client, NEW t \in Tasks, CreateTask(c, t)
      PROVE  store' \in [Tasks -> Status]
    BY <1>1, <1>2, <1>3, WriteType DEF CreateTask
<1>4. ASSUME NEW t \in Tasks, SetRunning(t) \/ Complete(t) \/ Fail(t)
      PROVE  store' \in [Tasks -> Status]
    BY <1>1, <1>2, <1>4, WriteType DEF SetRunning, Complete, Fail, Publish
<1>5. CASE Restart
    BY <1>1, <1>2, <1>5 DEF Restart, Kept, NoTasks
<1>6. CASE UNCHANGED store
    BY <1>1, <1>6
<1> QED
    BY <1>3, <1>4, <1>5, <1>6 DEF Next, vars, process, Tick, UpdateBelief, TryConsumeBudget,
        Step, WriteSlow, ReplaceLast, ReleaseBudget, Reflect, OpenStream, PollTask

\* A request holds the id and value of its update.
LEMMA ClientKept ==
    ASSUME TypeOK, [Next]_vars
    PROVE  client' \in [Client -> Request]
<1>1. client \in [Client -> Request]
    BY DEF TypeOK
<1>2. NoClient \in Request
    BY DEF NoClient, Request
<1>3. ASSUME NEW c \in Client, NEW id \in Live(InitialQuad), NEW v \in Value,
             UpdateBelief(c, id, v)
      PROVE  client' \in [Client -> Request]
  <2>1. [pc |-> "consume", id |-> id] \in Request
      BY BeliefsTyped DEF Request
  <2> QED
      BY <1>1, <1>3, <2>1 DEF UpdateBelief
<1>4. ASSUME NEW c \in Client, TryConsumeBudget(c)
      PROVE  client' \in [Client -> Request]
  <2>1. [client[c] EXCEPT !.pc = "create"] \in Request
      BY <1>1 DEF Request
  <2> QED
      BY <1>1, <1>2, <1>4, <2>1 DEF TryConsumeBudget
<1>5. ASSUME NEW c \in Client, NEW t \in Tasks, CreateTask(c, t)
      PROVE  client' \in [Client -> Request]
    BY <1>1, <1>2, <1>5 DEF CreateTask
<1>6. CASE Restart
    BY <1>2, <1>6 DEF Restart
<1>7. CASE UNCHANGED client
    BY <1>1, <1>7
<1> QED
    BY <1>3, <1>4, <1>5, <1>6, <1>7 DEF Next, vars, Tick, Step, SetRunning, WriteSlow, ReplaceLast,
        Complete, ReleaseBudget, Fail, Reflect, OpenStream, PollTask

\* A phase is all that a step of a future changes, but for the attempts.
LEMMA GotoType ==
    ASSUME future \in [Tasks -> Reflection], NEW t \in Tasks, NEW pc \in Phase, Goto(t, pc)
    PROVE  future' \in [Tasks -> Reflection]
<1>0. 0 \in 0 .. MaxRetries - 1
    BY System2Assumption
<1>1. [future[t] EXCEPT !.pc = pc, !.attempt = 0] \in Reflection
    BY <1>0 DEF Reflection
<1>2. future' = [future EXCEPT ![t] = [future[t] EXCEPT !.pc = pc, !.attempt = 0]]
    BY DEF Goto, Reflection
<1> QED
    BY <1>1, <1>2

LEMMA FutureKept ==
    ASSUME TypeOK, [Next]_vars
    PROVE  future' \in [Tasks -> Reflection]
<1>1. future \in [Tasks -> Reflection] /\ client \in [Client -> Request]
    BY DEF TypeOK
<1>2. {"none", "spawned", "reflect", "write", "record", "complete", "refund", "fail", "gone",
       "completed", "failed"} \subseteq Phase
    BY DEF Phase, Terminal
<1>3. 0 \in 0 .. MaxRetries - 1 /\ MaxRetries \in Nat
    BY System2Assumption
<1>4. NoFuture \in Reflection
    BY <1>2, <1>3 DEF NoFuture, Reflection
<1>5. ASSUME NEW c \in Client, NEW t \in Tasks, CreateTask(c, t)
      PROVE  future' \in [Tasks -> Reflection]
  <2>1. client[c].id \in BeliefId \cup {None}
      BY <1>1 DEF Request
  <2>2. [pc |-> "spawned", id |-> client[c].id, attempt |-> 0] \in Reflection
      BY <1>2, <1>3, <2>1 DEF Reflection
  <2> QED
      BY <1>1, <1>5, <2>2 DEF CreateTask
<1>6. ASSUME NEW t \in Tasks, Step(t)
      PROVE  future' \in [Tasks -> Reflection]
    BY <1>1, <1>2, <1>6, GotoType DEF Step, SetRunning, WriteSlow, ReplaceLast, Complete,
        ReleaseBudget, Fail, Publish
<1>7. ASSUME NEW t \in Tasks, Reflect(t)
      PROVE  future' \in [Tasks -> Reflection]
  <2>1. CASE future[t].attempt + 1 < MaxRetries /\ future' = [future EXCEPT ![t].attempt = @ + 1]
    <3>1. future[t].attempt + 1 \in 0 .. MaxRetries - 1
        BY <1>1, <1>3, <2>1 DEF Reflection
    <3>2. [future[t] EXCEPT !.attempt = @ + 1] \in Reflection
        BY <1>1, <3>1 DEF Reflection
    <3> QED
        BY <1>1, <2>1, <3>2
  <2>2. CASE Goto(t, "write") \/ Goto(t, "refund")
      BY <1>1, <1>2, <2>2, GotoType
  <2> QED
      BY <1>7, <2>1, <2>2 DEF Reflect
<1>8. CASE Restart
  <2>1. [NoFuture EXCEPT !.pc = "gone"] \in Reflection
      BY <1>2, <1>4 DEF Reflection
  <2> QED
      BY <1>4, <1>8, <2>1 DEF Restart
<1>9. CASE UNCHANGED future
    BY <1>1, <1>9
<1> QED
    BY <1>5, <1>6, <1>7, <1>8, <1>9 DEF Next, vars, Tick, UpdateBelief, TryConsumeBudget,
        OpenStream, PollTask

\* A stream polls at most TickLimit + 1 times.
LEMMA StreamKept ==
    ASSUME TypeOK, [Next]_vars
    PROVE  stream' \in [Stream -> Watch]
<1>1. stream \in [Stream -> Watch] /\ store \in [Tasks -> Status]
    BY DEF TypeOK
<1>2. 0 \in 0 .. TickLimit + 1 /\ TickLimit \in Nat
    BY System2Assumption
<1>3. ASSUME NEW s \in Stream, NEW t \in Tasks, OpenStream(s, t)
      PROVE  stream' \in [Stream -> Watch]
  <2>1. [NoStream EXCEPT !.task = t] \in Watch
      BY <1>2 DEF NoStream, Watch
  <2> QED
      BY <1>1, <1>3, <2>1 DEF OpenStream
<1>4. ASSUME NEW s \in Stream, PollTask(s)
      PROVE  stream' \in [Stream -> Watch]
  <2> DEFINE next(status) == [task  |-> stream[s].task,
                              tick  |-> NextTick(stream[s].tick),
                              done  |-> status = "absent" \/ IsTerminal(status),
                              event |-> IF status = "absent" THEN "error" ELSE status]
  <2>1. stream[s] \in Watch /\ stream[s].task # None /\ stream[s].tick <= TickLimit
      BY <1>1, <1>4 DEF PollTask, Streaming
  <2>2. /\ stream[s].task \in Tasks /\ stream[s].tick \in Nat
        /\ store[stream[s].task] \in Status /\ "absent" \in Status
      BY <1>1, <2>1 DEF Watch, Status
  <2>3. NextTick(stream[s].tick) \in 0 .. TickLimit + 1
      BY <1>2, <2>1, <2>2 DEF NextTick
  <2>4. \A status \in Status : next(status) \in Watch
      BY <2>2, <2>3 DEF Watch
  <2>5. \/ stream' = [stream EXCEPT ![s] = next(store[stream[s].task])]
        \/ stream' = [stream EXCEPT ![s] = next("absent")]
    <3>1. PICK status \in {store[stream[s].task]} \cup
                             IF StoreErrors /\ durable THEN {"absent"} ELSE {} :
            stream' = [stream EXCEPT ![s] = next(status)]
        BY <1>4 DEF PollTask
    <3>2. status = store[stream[s].task] \/ status = "absent"
        OBVIOUS
    <3> HIDE DEF next
    <3> QED
        BY <3>1, <3>2
  <2> HIDE DEF next
  <2> QED
      BY <1>1, <2>2, <2>4, <2>5
<1>5. CASE Restart
  <2>1. NoStream \in Watch
      BY <1>2 DEF NoStream, Watch
  <2> QED
      BY <1>5, <2>1 DEF Restart
<1>6. CASE UNCHANGED stream
    BY <1>1, <1>6
<1> QED
    BY <1>3, <1>4, <1>5, <1>6 DEF Next, vars, Tick, UpdateBelief, TryConsumeBudget, CreateTask,
        Step, SetRunning, WriteSlow, ReplaceLast, Complete, ReleaseBudget, Fail, Reflect

\* What a step does to the counters.
LEMMA CountersKept ==
    ASSUME TypeOK, [Next]_vars
    PROVE  activations' \in Nat /\ updates' \in Nat /\ restarts' \in Nat
<1>1. activations \in Nat /\ updates \in Nat /\ restarts \in Nat
    BY DEF TypeOK
<1>2. activations' \in {activations, activations + 1, 0}
    BY DEF Next, vars, process, bounds, Tick, UpdateBelief, TryConsumeBudget, CreateTask,
        Step, SetRunning, WriteSlow, ReplaceLast, Complete, ReleaseBudget, Fail, Reflect,
        OpenStream, PollTask, Restart
<1>3. updates' \in {updates, updates + 1} /\ restarts' \in {restarts, restarts + 1}
    BY DEF Next, vars, process, bounds, Tick, UpdateBelief, TryConsumeBudget, CreateTask,
        Step, SetRunning, WriteSlow, ReplaceLast, Complete, ReleaseBudget, Fail, Reflect,
        OpenStream, PollTask, Restart
<1> QED
    BY <1>1, <1>2, <1>3

LEMMA TypeInit == Init => TypeOK
<1> SUFFICES ASSUME Init PROVE TypeOK
    OBVIOUS
<1>1. bucket \in Bucket /\ now \in Nat /\ bucket.last <= now
    BY BucketAssumption DEF Init, NewBucket, Bucket, Full
<1>2. /\ store \in [Tasks -> Status] /\ disk \in [Tasks -> Status]
      /\ client \in [Client -> Request]
    BY DEF Init, NoTasks, Status, NoClient, Request
<1>3. future \in [Tasks -> Reflection] /\ stream \in [Stream -> Watch]
    BY System2Assumption DEF Init, NoFuture, NoStream, Reflection, Watch, Phase
<1>4. history \in Seq(Entry)
    BY DEF Init
<1> QED
    BY <1>1, <1>2, <1>3, <1>4, System2Assumption DEF Init, TypeOK

LEMMA TypeKept == TypeOK /\ [Next]_vars => TypeOK'
    BY QuadKept, BucketKept, HistoryKept, StoreKept, ClientKept, FutureKept, StreamKept,
        CountersKept, BackendKept DEF TypeOK

\* Requests, reflections, streams, beliefs and the bucket are always well
\* formed, whatever the interleaving and however often the server restarts.
THEOREM TasksTypeCorrect == Spec => []TypeOK
    BY TypeInit, TypeKept, PTL DEF Spec

-----------------------------------------------------------------------------
(* The budget *)

Count == Cardinality(Paying) + Cardinality(Paid)

\* Whoever holds a token can be counted, before a step and after it.
LEMMA HoldersFinite ==
    /\ IsFiniteSet(Paying) /\ IsFiniteSet(Paid)
    /\ Cardinality(Paying) \in Nat /\ Cardinality(Paid) \in Nat
    /\ Count \in Nat /\ Count = Cardinality(Paying) + Cardinality(Paid)
    /\ Count' \in Nat /\ Count' = Cardinality(Paying') + Cardinality(Paid')
<1>1. IsFiniteSet(Client)
    BY System2Assumption
<1>2. IsFiniteSet(Tasks)
    BY FS_Interval, System2Assumption DEF Tasks
<1>3. ASSUME NEW P, NEW T, P \subseteq Client, T \subseteq Tasks
      PROVE  /\ IsFiniteSet(P) /\ IsFiniteSet(T)
             /\ Cardinality(P) \in Nat /\ Cardinality(T) \in Nat
    BY <1>1, <1>2, <1>3, FS_Subset, FS_CardinalityType
<1>4. Paying \subseteq Client /\ Paid \subseteq Tasks
    BY DEF Paying, Paid
<1>5. Paying' \subseteq Client /\ Paid' \subseteq Tasks
    BY DEF Paying, Paid
<1>6. /\ IsFiniteSet(Paying) /\ IsFiniteSet(Paid)
      /\ Cardinality(Paying) \in Nat /\ Cardinality(Paid) \in Nat
    BY <1>3, <1>4
<1>7. Cardinality(Paying') \in Nat /\ Cardinality(Paid') \in Nat
    BY <1>3, <1>5
<1>8. Count = Cardinality(Paying) + Cardinality(Paid)
    BY DEF Count
<1>9. Count' = Cardinality(Paying') + Cardinality(Paid')
    BY DEF Count
<1> QED
    BY <1>6, <1>7, <1>8, <1>9

\* Multiplication by Grain and by Rate, in the three forms the budget needs.
LEMMA Multiples ==
    ASSUME NEW n \in Nat
    PROVE  /\ n * Grain \in Nat /\ n * Rate \in Nat
           /\ (n + 1) * Grain = n * Grain + Grain
           /\ (n + 1) * Rate = n * Rate + Rate
BY BucketAssumption

\* Paying a token for one more holder, or giving one back for one less, keeps
\* the budget exact; so does time.
LEMMA BudgetSteps ==
    ASSUME NEW l \in Nat, NEW k \in Nat, NEW n \in Nat, NEW l2 \in Nat,
           Full <= l + k * Grain, l + k * Grain <= Full + n * Rate, l <= Full, l2 <= Full
    PROVE  /\ l2 = l - Grain =>
                Full <= l2 + (k + 1) * Grain /\ l2 + (k + 1) * Grain <= Full + n * Rate
           /\ \A j \in Nat : (k = j + 1 /\ l2 = UpToFull(l + Grain)) =>
                Full <= l2 + j * Grain /\ l2 + j * Grain <= Full + n * Rate
           /\ l <= l2 /\ l2 <= l + Rate =>
                Full <= l2 + k * Grain /\ l2 + k * Grain <= Full + (n + 1) * Rate
<1>1. /\ Full \in Nat /\ Grain \in Nat /\ Rate \in Nat
    BY BucketAssumption DEF Full
<1>2. PICK paid \in Nat : paid = k * Grain
    BY Multiples
<1>3. PICK gained \in Nat : gained = n * Rate
    BY Multiples
<1>4. (k + 1) * Grain = paid + Grain /\ (n + 1) * Rate = gained + Rate
    BY <1>2, <1>3, Multiples
<1>5. ASSUME NEW j \in Nat, k = j + 1, l2 = UpToFull(l + Grain)
      PROVE  Full <= l2 + j * Grain /\ l2 + j * Grain <= Full + n * Rate
  <2>1. PICK less \in Nat : less = j * Grain
      BY Multiples
  <2>2. paid = less + Grain
      BY <1>2, <1>5, <2>1, Multiples
  <2> QED
      BY <1>1, <1>2, <1>3, <1>5, <2>1, <2>2 DEF UpToFull
<1> QED
    BY <1>1, <1>2, <1>3, <1>4, <1>5

\* What a step does to the tokens held.
LEMMA CountSteps ==
    ASSUME TypeOK
    PROVE  /\ \A c \in Client :
                TryConsumeBudget(c) /\ Covers(bucket, now, 1) => Count' = Count + 1
           /\ \A c \in Client :
                TryConsumeBudget(c) /\ ~Covers(bucket, now, 1) => Count' = Count
           /\ \A c \in Client, t \in Tasks : CreateTask(c, t) => Count' = Count
           /\ \A t \in Tasks : ReleaseBudget(t) => Count = Count' + 1
<1>1. client \in [Client -> Request] /\ future \in [Tasks -> Reflection]
    BY DEF TypeOK
<1>2. ASSUME NEW c \in Client, TryConsumeBudget(c)
      PROVE  /\ Paid' = Paid /\ c \notin Paying
             /\ Covers(bucket, now, 1) => Paying' = Paying \cup {c}
             /\ ~Covers(bucket, now, 1) => Paying' = Paying
  <2>1. \A d \in Client : d # c => client'[d].pc = client[d].pc
      BY <1>1, <1>2 DEF TryConsumeBudget
  <2>2. Covers(bucket, now, 1) => client'[c].pc = "create"
      BY <1>1, <1>2 DEF TryConsumeBudget, Request
  <2>3. ~Covers(bucket, now, 1) => client'[c].pc = "idle"
      BY <1>1, <1>2 DEF TryConsumeBudget, NoClient
  <2>4. client[c].pc = "consume" /\ future' = future
      BY <1>2 DEF TryConsumeBudget
  <2> QED
      BY <2>1, <2>2, <2>3, <2>4 DEF Paying, Paid
<1>3. ASSUME NEW c \in Client, NEW t \in Tasks, CreateTask(c, t)
      PROVE  /\ c \in Paying /\ Paying' = Paying \ {c}
             /\ t \notin Paid /\ Paid' = Paid \cup {t}
  <2>1. \A d \in Client : client'[d].pc = IF d = c THEN "idle" ELSE client[d].pc
      BY <1>1, <1>3 DEF CreateTask, NoClient
  <2>2. \A u \in Tasks : future'[u].pc = IF u = t THEN "spawned" ELSE future[u].pc
      BY <1>1, <1>3 DEF CreateTask
  <2>3. client[c].pc = "create" /\ future[t].pc = "none"
      BY <1>3 DEF CreateTask
  <2> QED
      BY <2>1, <2>2, <2>3 DEF Paying, Paid
<1>4. ASSUME NEW t \in Tasks, ReleaseBudget(t)
      PROVE  t \in Paid /\ Paid' = Paid \ {t} /\ Paying' = Paying
  <2>1. \A u \in Tasks : future'[u].pc = IF u = t THEN "fail" ELSE future[u].pc
      BY <1>1, <1>4 DEF ReleaseBudget, Goto, Reflection
  <2>2. future[t].pc = "refund" /\ client' = client
      BY <1>4 DEF ReleaseBudget
  <2> QED
      BY <2>1, <2>2 DEF Paying, Paid
<1>5. ASSUME NEW c \in Client, NEW t \in Tasks, CreateTask(c, t)
      PROVE  Count' = Count
  <2>1. c \in Paying /\ Paying' = Paying \ {c} /\ t \notin Paid /\ Paid' = Paid \cup {t}
      BY <1>3, <1>5
  <2>2. Cardinality(Paying') = Cardinality(Paying) - 1
      BY <2>1, HoldersFinite, FS_RemoveElement
  <2>3. Cardinality(Paid') = Cardinality(Paid) + 1
      BY <2>1, HoldersFinite, FS_AddElement
  <2> QED
      BY <2>2, <2>3, HoldersFinite
<1>6. ASSUME NEW c \in Client, TryConsumeBudget(c), Covers(bucket, now, 1)
      PROVE  Count' = Count + 1
  <2>1. c \notin Paying /\ Paying' = Paying \cup {c} /\ Paid' = Paid
      BY <1>2, <1>6
  <2>2. Cardinality(Paying') = Cardinality(Paying) + 1
      BY <2>1, HoldersFinite, FS_AddElement
  <2> QED
      BY <2>1, <2>2, HoldersFinite
<1>7. ASSUME NEW t \in Tasks, ReleaseBudget(t)
      PROVE  Count = Count' + 1
  <2>1. t \in Paid /\ Paid' = Paid \ {t} /\ Paying' = Paying
      BY <1>4, <1>7
  <2>2. Cardinality(Paid') = Cardinality(Paid) - 1
      BY <2>1, HoldersFinite, FS_RemoveElement
  <2> QED
      BY <2>1, <2>2, HoldersFinite
<1> QED
    BY <1>2, <1>5, <1>6, <1>7 DEF Count

\* An update moves no token: the request has yet to ask for one.
LEMMA IdleUpdate ==
    ASSUME TypeOK, NEW c \in Client, NEW id \in Live(InitialQuad), NEW v \in Value,
           UpdateBelief(c, id, v)
    PROVE  Paying' = Paying /\ Paid' = Paid
<1>1. client \in [Client -> Request]
    BY DEF TypeOK
<1>2. client[c].pc = "idle" /\ future' = future
    BY DEF UpdateBelief
<1>3. \/ client' = client
      \/ client' = [client EXCEPT ![c] = [pc |-> "consume", id |-> id]]
    BY DEF UpdateBelief
<1>4. \A d \in Client : client'[d].pc = "create" <=> client[d].pc = "create"
    BY <1>1, <1>2, <1>3
<1> QED
    BY <1>2, <1>4 DEF Paying, Paid

\* A step of any other kind moves no token.
LEMMA NoTokenMoves ==
    ASSUME TypeOK, NEW t \in Tasks,
           \/ SetRunning(t) \/ WriteSlow(t) \/ ReplaceLast(t) \/ Complete(t) \/ Fail(t)
           \/ Reflect(t)
    PROVE  Paying' = Paying /\ Paid' = Paid
<1>1. client \in [Client -> Request] /\ future \in [Tasks -> Reflection]
    BY DEF TypeOK
<1>3. ASSUME NEW pc, Goto(t, pc), client' = client,
             pc \in {"spawned", "reflect", "write", "record", "complete", "completed", "refund"}
               <=> t \in Paid
      PROVE  Paying' = Paying /\ Paid' = Paid
  <2>1. \A u \in Tasks : future'[u].pc = IF u = t THEN pc ELSE future[u].pc
      BY <1>1, <1>3 DEF Goto, Reflection
  <2> QED
      BY <1>3, <2>1 DEF Paying, Paid
<1>4. CASE SetRunning(t)
    BY <1>3, <1>4 DEF SetRunning, Paid
<1>5. CASE WriteSlow(t)
    BY <1>3, <1>5 DEF WriteSlow, Paid
<1>6. CASE ReplaceLast(t)
    BY <1>3, <1>6 DEF ReplaceLast, Paid
<1>7. CASE Complete(t)
    BY <1>3, <1>7 DEF Complete, Publish, Paid
<1>8. CASE Fail(t)
  <2>1. Goto(t, "failed") /\ client' = client /\ t \notin Paid
      BY <1>8 DEF Fail, Publish, Paid
  <2> QED
      BY <1>3, <2>1
<1>9. CASE Reflect(t)
  <2>1. CASE future' = [future EXCEPT ![t].attempt = @ + 1]
    <3>1. \A u \in Tasks : future'[u].pc = future[u].pc
        BY <1>1, <2>1 DEF Reflection
    <3> QED
        BY <1>9, <3>1 DEF Reflect, Paying, Paid
  <2>2. CASE Goto(t, "write") \/ Goto(t, "refund")
      BY <1>3, <1>9, <2>2 DEF Reflect, Paid
  <2> QED
      BY <1>9, <2>1, <2>2 DEF Reflect
<1> QED
    BY <1>4, <1>5, <1>6, <1>7, <1>8, <1>9

LEMMA BudgetKept == TypeOK /\ BudgetExact /\ [Next]_vars => BudgetExact'
<1> SUFFICES ASSUME TypeOK, BudgetExact, [Next]_vars PROVE BudgetExact'
    OBVIOUS
<1> DEFINE l == Level(bucket, now)
<1>1. bucket \in Bucket /\ now \in Nat /\ bucket.last <= now
    BY DEF TypeOK
<1>2. l \in 0 .. Full /\ Full \in Nat /\ Count \in Nat /\ Count' \in Nat
    BY <1>1, TickLevel, HoldersFinite, BucketAssumption DEF Full, Count
<1>3. Full <= l + Count * Grain /\ l + Count * Grain <= Full + now * Rate
    BY DEF BudgetExact, Spent, Count
<1>4. SUFFICES /\ Full <= Level(bucket', now') + Count' * Grain
               /\ Level(bucket', now') + Count' * Grain <= Full + now' * Rate
    BY DEF BudgetExact, Spent, Count
<1>5. CASE Tick
  <2>1. bucket' = bucket /\ now' = now + 1 /\ Count' = Count
      BY <1>5 DEF Tick, process, Count, Paying, Paid
  <2>2. Level(bucket, now + 1) \in 0 .. Full /\ l <= Level(bucket, now + 1)
          /\ Level(bucket, now + 1) <= l + Rate
      BY <1>1, TickLevel DEF Bucket
  <2> QED
      BY <1>1, <1>2, <1>3, <2>1, <2>2, BudgetSteps
<1>6. ASSUME NEW c \in Client, TryConsumeBudget(c), Covers(bucket, now, 1)
      PROVE  /\ Full <= Level(bucket', now') + Count' * Grain
             /\ Level(bucket', now') + Count' * Grain <= Full + now' * Rate
  <2>1. bucket' = Consume(bucket, now, 1) /\ now' = now /\ Count' = Count + 1
      BY <1>6, CountSteps DEF TryConsumeBudget
  <2>2. Level(bucket', now) = l - Grain /\ Level(bucket', now) \in 0 .. Full
      BY <1>1, <1>6, <2>1, ConsumeLevel, TickLevel
  <2> QED
      BY <1>1, <1>2, <1>3, <2>1, <2>2, BudgetSteps
<1>7. ASSUME NEW c \in Client, TryConsumeBudget(c), ~Covers(bucket, now, 1)
      PROVE  /\ Full <= Level(bucket', now') + Count' * Grain
             /\ Level(bucket', now') + Count' * Grain <= Full + now' * Rate
  <2>1. bucket' = Refill(bucket, now) /\ now' = now /\ Count' = Count
      BY <1>7, CountSteps DEF TryConsumeBudget
  <2> QED
      BY <1>1, <1>3, <2>1, RefillLevel
<1>8. ASSUME NEW c \in Client, NEW t \in Tasks, CreateTask(c, t)
      PROVE  /\ Full <= Level(bucket', now') + Count' * Grain
             /\ Level(bucket', now') + Count' * Grain <= Full + now' * Rate
  <2>1. bucket' = bucket /\ now' = now /\ Count' = Count
      BY <1>8, CountSteps DEF CreateTask, process
  <2> QED
      BY <1>3, <2>1
<1>9. ASSUME NEW t \in Tasks, ReleaseBudget(t)
      PROVE  /\ Full <= Level(bucket', now') + Count' * Grain
             /\ Level(bucket', now') + Count' * Grain <= Full + now' * Rate
  <2>1. bucket' = Release(bucket, 1) /\ now' = now /\ Count = Count' + 1
      BY <1>9, CountSteps DEF ReleaseBudget
  <2>2. Level(bucket', now) = UpToFull(l + Grain) /\ Level(bucket', now) \in 0 .. Full
      BY <1>1, <2>1, ReleaseLevel, TickLevel
  <2> QED
      BY <1>1, <1>2, <1>3, <2>1, <2>2, BudgetSteps
<1>10. CASE Restart
  <2>1. bucket' = NewBucket(0) /\ now' = 0 /\ Paying' = {} /\ Paid' = {}
      BY <1>10 DEF Restart, Paying, Paid, NoClient, NoFuture
  <2>2. Count' = 0
      BY <2>1, FS_EmptySet DEF Count
  <2>3. (0 - 0) * Rate = 0 /\ 0 * Grain = 0 /\ 0 * Rate = 0
      BY BucketAssumption
  <2>4. Level(bucket', now') = Full
      BY <1>2, <2>1, <2>3 DEF Level, NewBucket, UpToFull
  <2> QED
      BY <1>2, <2>1, <2>2, <2>3, <2>4
<1>11. CASE UNCHANGED <<bucket, now>> /\ Paying' = Paying /\ Paid' = Paid
    BY <1>3, <1>11 DEF Count
<1>12. CASE UNCHANGED <<bucket, now, client, future>>
    BY <1>11, <1>12 DEF Paying, Paid
<1>13. ASSUME NEW c \in Client, NEW id \in Live(InitialQuad), NEW v \in Value,
              UpdateBelief(c, id, v)
       PROVE  UNCHANGED <<bucket, now>> /\ Paying' = Paying /\ Paid' = Paid
  <2>1. client[c].pc = "idle" /\ future' = future /\ UNCHANGED <<bucket, now>>
      BY <1>13 DEF UpdateBelief
  <2> QED
      BY <1>13, <2>1, IdleUpdate
<1>14. ASSUME NEW t \in Tasks,
              SetRunning(t) \/ WriteSlow(t) \/ ReplaceLast(t) \/ Complete(t) \/ Fail(t) \/ Reflect(t)
       PROVE  UNCHANGED <<bucket, now>> /\ Paying' = Paying /\ Paid' = Paid
    BY <1>14, NoTokenMoves DEF SetRunning, WriteSlow, ReplaceLast, Complete, Fail, Reflect, process
<1> QED
    BY <1>5, <1>6, <1>7, <1>8, <1>9, <1>10, <1>11, <1>12, <1>13, <1>14
        DEF Next, vars, process, Step, OpenStream, PollTask

\* The budget is exact: what a failed reflection paid is back, and what was
\* granted never exceeds the capacity and what the clock has refilled.
THEOREM BudgetIsExact == Spec => []BudgetExact
<1>1. Init => BudgetExact
  <2> SUFFICES ASSUME Init PROVE BudgetExact
      OBVIOUS
  <2>1. Paying = {} /\ Paid = {} /\ bucket = NewBucket(0) /\ now = 0
      BY DEF Init, Paying, Paid, NoClient, NoFuture
  <2>2. Full \in Nat /\ (0 - 0) * Rate = 0 /\ 0 * Grain = 0 /\ 0 * Rate = 0
      BY BucketAssumption DEF Full
  <2>3. Level(bucket, now) = Full
      BY <2>1, <2>2 DEF Level, NewBucket, UpToFull
  <2> QED
      BY <2>1, <2>2, <2>3, FS_EmptySet DEF BudgetExact, Spent
<1> QED
    BY <1>1, BudgetKept, TasksTypeCorrect, PTL DEF Spec

-----------------------------------------------------------------------------
(* The promise *)

\* The safety part of KeepsPromise; its fairness is TLC's to check.
KeepsPromiseSafely == Promise!Init /\ [][Promise!Next]_(Promise!promised)

\* What the store says of a task never runs ahead of its reflection.
StatusFollows ==
    \A t \in Tasks :
      /\ future[t].pc = "none" => store[t] = "absent" /\ disk[t] = "absent"
      /\ future[t].pc = "spawned" => store[t] \in {"absent", "pending"}
      /\ future[t].pc \in {"reflect", "write", "record", "complete", "refund", "fail"} =>
           store[t] \in {"absent", "pending", "running"}

\* The verdict, case by case.
LEMMA VerdictCases ==
    ASSUME NEW status, NEW pc
    PROVE  /\ status = "absent" => VerdictOf(status, pc) = "none"
           /\ status = "completed" => VerdictOf(status, pc) = "ok"
           /\ status = "failed" => VerdictOf(status, pc) = "error"
           /\ status \in {"pending", "running"} =>
                /\ pc \in {"spawned", "reflect"} => VerdictOf(status, pc) = "none"
                /\ pc \in {"write", "record", "complete"} => VerdictOf(status, pc) = "ok"
                /\ pc \in {"refund", "fail"} => VerdictOf(status, pc) = "error"
                /\ pc \in {"none", "gone", "completed", "failed"} =>
                     VerdictOf(status, pc) = "lost"
BY DEF VerdictOf

\* A step of one future changes the verdict of its task alone.
LEMMA OneVerdict ==
    ASSUME TypeOK, NEW t \in Tasks, NEW s, NEW pc,
           store' = [store EXCEPT ![t] = s],
           \A u \in Tasks : future'[u].pc = IF u = t THEN pc ELSE future[u].pc
    PROVE  Verdicts' = [Verdicts EXCEPT ![t] = VerdictOf(s, pc)]
<1>1. store \in [Tasks -> Status]
    BY DEF TypeOK
<1>2. \A u \in Tasks : VerdictOf(store'[u], future'[u].pc) =
                       IF u = t THEN VerdictOf(s, pc) ELSE VerdictOf(store[u], future[u].pc)
    BY <1>1
<1> QED
    BY <1>2 DEF Verdicts

\* A write of a task's status has no effect on a task that is absent, or when a
\* store on disk fails.
MayStay(t) == store[t] = "absent" \/ (durable /\ StoreErrors)

\* The writes a future makes to the store, and the phases it goes through.
LEMMA WriteCases ==
    ASSUME TypeOK, NEW t \in Tasks, NEW status
    PROVE  /\ Write(t, status) \/ UpdateStatus(t, status) =>
                \/ store' = [store EXCEPT ![t] = store[t]]
                \/ store' = [store EXCEPT ![t] = status]
           /\ store[t] = "absent" /\ UpdateStatus(t, status) =>
                store' = [store EXCEPT ![t] = store[t]]
           /\ UpdateStatus(t, status) =>
                \/ store' = [store EXCEPT ![t] = store[t]] /\ MayStay(t)
                \/ store[t] # "absent" /\ store' = [store EXCEPT ![t] = status]
<1>1. store = [store EXCEPT ![t] = store[t]]
    BY DEF TypeOK
<1> QED
    BY <1>1 DEF Write, UpdateStatus, MayStay

LEMMA PhaseOfOne ==
    ASSUME TypeOK, NEW t \in Tasks
    PROVE  /\ \A pc : Goto(t, pc) =>
                \A u \in Tasks : future'[u].pc = IF u = t THEN pc ELSE future[u].pc
           /\ \A c \in Client : CreateTask(c, t) =>
                \A u \in Tasks : future'[u].pc = IF u = t THEN "spawned" ELSE future[u].pc
           /\ future' = [future EXCEPT ![t].attempt = @ + 1] =>
                \A u \in Tasks : future'[u].pc = IF u = t THEN future[t].pc ELSE future[u].pc
<1>1. future \in [Tasks -> Reflection]
    BY DEF TypeOK
<1>2. ASSUME NEW pc, Goto(t, pc)
      PROVE  \A u \in Tasks : future'[u].pc = IF u = t THEN pc ELSE future[u].pc
    BY <1>1, <1>2 DEF Goto, Reflection
<1>3. ASSUME NEW c \in Client, CreateTask(c, t)
      PROVE  \A u \in Tasks : future'[u].pc = IF u = t THEN "spawned" ELSE future[u].pc
    BY <1>1, <1>3 DEF CreateTask
<1>4. ASSUME future' = [future EXCEPT ![t].attempt = @ + 1]
      PROVE  \A u \in Tasks : future'[u].pc = IF u = t THEN future[t].pc ELSE future[u].pc
    BY <1>1, <1>4 DEF Reflection
<1> QED
    BY <1>2, <1>3, <1>4

\* The steps that touch a task: the status and the phase they leave it with.
Moves(t, s, pc) ==
    /\ store' = [store EXCEPT ![t] = s]
    /\ \A u \in Tasks : future'[u].pc = IF u = t THEN pc ELSE future[u].pc

LEMMA TaskSteps ==
    ASSUME TypeOK, NEW t \in Tasks
    PROVE  /\ \A c \in Client : CreateTask(c, t) =>
                /\ future[t].pc = "none"
                /\ Moves(t, store[t], "spawned") \/ Moves(t, "pending", "spawned")
           /\ SetRunning(t) =>
                /\ future[t].pc = "spawned"
                /\ \/ Moves(t, store[t], "reflect")
                   \/ store[t] # "absent" /\ Moves(t, "running", "reflect")
           /\ Reflect(t) =>
                /\ future[t].pc = "reflect"
                /\ \E pc \in {"reflect", "write", "refund"} : Moves(t, store[t], pc)
           /\ WriteSlow(t) => future[t].pc = "write" /\ Moves(t, store[t], "record")
           /\ ReplaceLast(t) => future[t].pc = "record" /\ Moves(t, store[t], "complete")
           /\ ReleaseBudget(t) => future[t].pc = "refund" /\ Moves(t, store[t], "fail")
           /\ Complete(t) =>
                /\ future[t].pc = "complete"
                /\ \/ Moves(t, store[t], "completed") /\ MayStay(t)
                   \/ store[t] # "absent" /\ Moves(t, "completed", "completed")
           /\ Fail(t) =>
                /\ future[t].pc = "fail"
                /\ \/ Moves(t, store[t], "failed") /\ MayStay(t)
                   \/ store[t] # "absent" /\ Moves(t, "failed", "failed")
<1>0. store = [store EXCEPT ![t] = store[t]]
    BY DEF TypeOK
<1>1. ASSUME NEW c \in Client, CreateTask(c, t)
      PROVE  /\ future[t].pc = "none"
             /\ Moves(t, store[t], "spawned") \/ Moves(t, "pending", "spawned")
  <2>1. future[t].pc = "none" /\ Write(t, "pending")
      BY <1>1 DEF CreateTask
  <2> QED
      BY <1>1, <2>1, WriteCases, PhaseOfOne DEF Moves
<1>2. ASSUME SetRunning(t)
      PROVE  /\ future[t].pc = "spawned"
             /\ \/ Moves(t, store[t], "reflect")
                \/ store[t] # "absent" /\ Moves(t, "running", "reflect")
  <2>1. future[t].pc = "spawned" /\ UpdateStatus(t, "running") /\ Goto(t, "reflect")
      BY <1>2 DEF SetRunning
  <2> QED
      BY <2>1, WriteCases, PhaseOfOne DEF Moves
<1>3. ASSUME Reflect(t)
      PROVE  /\ future[t].pc = "reflect"
             /\ \E pc \in {"reflect", "write", "refund"} : Moves(t, store[t], pc)
  <2>1. future[t].pc = "reflect" /\ store' = store
      BY <1>3 DEF Reflect
  <2>2. \/ Goto(t, "write") \/ Goto(t, "refund")
        \/ future' = [future EXCEPT ![t].attempt = @ + 1]
      BY <1>3 DEF Reflect
  <2> QED
      BY <1>0, <2>1, <2>2, PhaseOfOne DEF Moves
<1>4. ASSUME WriteSlow(t)
      PROVE  future[t].pc = "write" /\ Moves(t, store[t], "record")
    BY <1>0, <1>4, PhaseOfOne DEF WriteSlow, Moves
<1>5. ASSUME ReplaceLast(t)
      PROVE  future[t].pc = "record" /\ Moves(t, store[t], "complete")
    BY <1>0, <1>5, PhaseOfOne DEF ReplaceLast, Moves
<1>6. ASSUME ReleaseBudget(t)
      PROVE  future[t].pc = "refund" /\ Moves(t, store[t], "fail")
    BY <1>0, <1>6, PhaseOfOne DEF ReleaseBudget, Moves
<1>7. ASSUME Complete(t)
      PROVE  /\ future[t].pc = "complete"
             /\ \/ Moves(t, store[t], "completed") /\ MayStay(t)
                \/ store[t] # "absent" /\ Moves(t, "completed", "completed")
  <2>1. future[t].pc = "complete" /\ UpdateStatus(t, "completed") /\ Goto(t, "completed")
      BY <1>7 DEF Complete, Publish
  <2> QED
      BY <2>1, WriteCases, PhaseOfOne DEF Moves
<1>8. ASSUME Fail(t)
      PROVE  /\ future[t].pc = "fail"
             /\ \/ Moves(t, store[t], "failed") /\ MayStay(t)
                \/ store[t] # "absent" /\ Moves(t, "failed", "failed")
  <2>1. future[t].pc = "fail" /\ UpdateStatus(t, "failed") /\ Goto(t, "failed")
      BY <1>8 DEF Fail, Publish
  <2> QED
      BY <2>1, WriteCases, PhaseOfOne DEF Moves
<1> QED
    BY <1>1, <1>2, <1>3, <1>4, <1>5, <1>6, <1>7, <1>8

\* What one step does to the tasks: nothing, one move, or a restart.
LEMMA StepKinds ==
    ASSUME TypeOK, [Next]_vars
    PROVE  \/ UNCHANGED <<store, future>>
           \/ \E c \in Client, t \in Tasks : CreateTask(c, t)
           \/ \E t \in Tasks : Step(t) \/ Reflect(t)
           \/ Restart
BY DEF Next, vars, Tick, UpdateBelief, TryConsumeBudget, OpenStream, PollTask

LEMMA StatusFollowsKept == TypeOK /\ StatusFollows /\ [Next]_vars => StatusFollows'
<1> SUFFICES ASSUME TypeOK, StatusFollows, [Next]_vars PROVE StatusFollows'
    OBVIOUS
<1>1. store \in [Tasks -> Status] /\ future \in [Tasks -> Reflection]
    BY DEF TypeOK
<1>2. ASSUME ~Restart, NEW t \in Tasks, NEW s, NEW pc, Moves(t, s, pc),
             pc # "none",
             pc = "spawned" => s \in {"absent", "pending"},
             pc \in {"reflect", "write", "record", "complete", "refund", "fail"} =>
                  s \in {"absent", "pending", "running"}
      PROVE  StatusFollows'
  <2>1. \A u \in Tasks : store'[u] = IF u = t THEN s ELSE store[u]
      BY <1>1, <1>2 DEF Moves
  <2>2. \A u \in Tasks : future'[u].pc = IF u = t THEN pc ELSE future[u].pc
      BY <1>2 DEF Moves
  <2>3. disk' = disk
      BY <1>2, BackendKept
  <2> QED
      BY <1>2, <2>1, <2>2, <2>3 DEF StatusFollows
<1>3. ASSUME ~Restart, NEW c \in Client, NEW t \in Tasks, CreateTask(c, t)
      PROVE  StatusFollows'
  <2>1. /\ future[t].pc = "none"
        /\ Moves(t, store[t], "spawned") \/ Moves(t, "pending", "spawned")
      BY <1>3, TaskSteps
  <2>2. store[t] = "absent"
      BY <2>1 DEF StatusFollows
  <2> QED
      BY <1>2, <1>3, <2>1, <2>2
<1>4. ASSUME ~Restart, NEW t \in Tasks, Step(t) \/ Reflect(t)
      PROVE  StatusFollows'
  <2>1. future[t].pc = "spawned" => store[t] \in {"absent", "pending"}
      BY DEF StatusFollows
  <2>2. future[t].pc \in {"reflect", "write", "record", "complete", "refund", "fail"} =>
          store[t] \in {"absent", "pending", "running"}
      BY DEF StatusFollows
  <2>3. CASE SetRunning(t)
      BY <1>2, <1>4, <2>1, <2>3, TaskSteps
  <2>4. CASE Reflect(t)
    <3>1. future[t].pc = "reflect"
        BY <2>4, TaskSteps
    <3>2. PICK pc \in {"reflect", "write", "refund"} : Moves(t, store[t], pc)
        BY <2>4, TaskSteps
    <3> QED
        BY <1>2, <1>4, <2>2, <3>1, <3>2
  <2>5. CASE WriteSlow(t)
      BY <1>2, <1>4, <2>2, <2>5, TaskSteps
  <2>6. CASE ReplaceLast(t)
      BY <1>2, <1>4, <2>2, <2>6, TaskSteps
  <2>7. CASE ReleaseBudget(t)
      BY <1>2, <1>4, <2>2, <2>7, TaskSteps
  <2>8. CASE Complete(t)
      BY <1>2, <1>4, <2>8, TaskSteps
  <2>9. CASE Fail(t)
      BY <1>2, <1>4, <2>9, TaskSteps
  <2> QED
      BY <1>4, <2>3, <2>4, <2>5, <2>6, <2>7, <2>8, <2>9 DEF Step
<1>5. CASE Restart
  <2>1. \A t \in Tasks : store[t] = "absent" /\ disk[t] = "absent" =>
                          store'[t] = "absent" /\ disk'[t] = "absent"
      BY <1>5 DEF Restart, Kept, NoTasks
  <2>2. \A t \in Tasks : /\ future[t].pc = "none" => future'[t].pc = "none"
                         /\ future[t].pc # "none" => future'[t].pc = "gone"
      BY <1>1, <1>5 DEF Restart, NoFuture
  <2> QED
      BY <2>1, <2>2 DEF StatusFollows
<1>6. CASE ~Restart /\ UNCHANGED <<store, future>>
    BY <1>6, BackendKept DEF StatusFollows
<1> QED
    BY <1>3, <1>4, <1>5, <1>6, StepKinds

\* A move that leaves the status and the verdict alone is a stutter.
LEMMA QuietMove ==
    ASSUME TypeOK, NEW t \in Tasks, NEW pc, Moves(t, store[t], pc),
           VerdictOf(store[t], pc) = VerdictOf(store[t], future[t].pc)
    PROVE  UNCHANGED <<store, Verdicts>>
<1>1. store' = store
    BY DEF Moves, TypeOK
<1>2. \A u \in Tasks : VerdictOf(store[u], future'[u].pc) = VerdictOf(store[u], future[u].pc)
    BY DEF Moves
<1> QED
    BY <1>1, <1>2 DEF Verdicts

\* Any other move changes the status and the verdict of one task.
LEMMA LoudMove ==
    ASSUME TypeOK, NEW t \in Tasks, NEW s, NEW pc, Moves(t, s, pc)
    PROVE  /\ store' = [store EXCEPT ![t] = s]
           /\ Verdicts' = [Verdicts EXCEPT ![t] = VerdictOf(s, pc)]
           /\ Verdicts[t] = VerdictOf(store[t], future[t].pc)
           /\ s = store[t] => store' = store
           /\ VerdictOf(s, pc) = Verdicts[t] => Verdicts' = Verdicts
<1>1. store' = [store EXCEPT ![t] = s] /\ (s = store[t] => store' = store)
    BY DEF Moves, TypeOK
<1>2. Verdicts' = [Verdicts EXCEPT ![t] = VerdictOf(s, pc)]
    BY OneVerdict DEF Moves
<1>3. Verdicts[t] = VerdictOf(store[t], future[t].pc)
    BY DEF Verdicts
<1>4. VerdictOf(s, pc) = Verdicts[t] => Verdicts' = Verdicts
    BY <1>2 DEF Verdicts
<1> QED
    BY <1>1, <1>2, <1>3, <1>4

\* Each step of the server is a step of the promise, or none.
LEMMA PromiseStep ==
    ASSUME TypeOK, StatusFollows, [Next]_vars
    PROVE  [Promise!Next]_(Promise!promised)
<1>1. store \in [Tasks -> Status] /\ future \in [Tasks -> Reflection]
    BY DEF TypeOK
<1>2. ASSUME Restart
      PROVE  Promise!Restart
  <2>1. \A t \in Tasks : future'[t].pc \in {"none", "gone"}
      BY <1>1, <1>2 DEF Restart, NoFuture
  <2>2. store' \in [Tasks -> Status] /\ durable' \in BOOLEAN
      BY StoreKept, BackendKept
  <2>3. \A t \in Tasks : VerdictOf(store'[t], future'[t].pc) = Promise!Verdict(store'[t])
      BY <2>1, <2>2, VerdictCases DEF Status, Terminal, Promise!Verdict
  <2>4. Verdicts' = [t \in Tasks |-> Promise!Verdict(store'[t])]
      BY <2>3 DEF Verdicts
  <2> QED
      BY <1>2, <2>2, <2>4 DEF Restart, Kept, NoTasks, Promise!Restart, Promise!Kept, Promise!NoTasks
<1>9. SUFFICES ASSUME ~Restart
               PROVE  \/ UNCHANGED <<store, Verdicts>>
                      \/ \E t \in Tasks : Promise!Accept(t) \/ Promise!Start(t)
                            \/ Promise!Answer(t) \/ Promise!Finish(t) \/ Promise!LoseWrite(t)
    BY <1>2, BackendKept DEF Promise!Next, Promise!promised
<1>0. durable' = durable /\ disk' = disk
    BY <1>9, BackendKept
<1>3. ASSUME NEW c \in Client, NEW t \in Tasks, CreateTask(c, t)
      PROVE  UNCHANGED <<store, Verdicts>> \/ Promise!Accept(t)
  <2>1. future[t].pc = "none" /\ store[t] = "absent" /\ disk[t] = "absent"
      BY <1>3, TaskSteps DEF StatusFollows
  <2>2. CASE Moves(t, store[t], "spawned")
      BY <2>1, <2>2, QuietMove, VerdictCases
  <2>3. CASE Moves(t, "pending", "spawned")
    <3>1. VerdictOf("pending", "spawned") = "none" /\ VerdictOf(store[t], future[t].pc) = "none"
        BY <2>1, VerdictCases
    <3> QED
        BY <2>1, <2>3, <1>0, <3>1, LoudMove DEF Promise!backend, Promise!Accept
  <2> QED
      BY <1>3, <2>2, <2>3, TaskSteps
<1>4. ASSUME NEW t \in Tasks, SetRunning(t)
      PROVE  UNCHANGED <<store, Verdicts>> \/ Promise!Start(t)
  <2>1. future[t].pc = "spawned" /\ store[t] \in {"absent", "pending"}
      BY <1>4, TaskSteps DEF StatusFollows
  <2>2. CASE Moves(t, store[t], "reflect")
      BY <2>1, <2>2, QuietMove, VerdictCases
  <2>3. CASE store[t] # "absent" /\ Moves(t, "running", "reflect")
    <3>1. VerdictOf("running", "reflect") = "none" /\ VerdictOf(store[t], future[t].pc) = "none"
        BY <2>1, VerdictCases
    <3> QED
        BY <2>1, <2>3, <1>0, <3>1, LoudMove DEF Promise!backend, Promise!Start
  <2> QED
      BY <1>4, <2>2, <2>3, TaskSteps
<1>5. ASSUME NEW t \in Tasks, Reflect(t)
      PROVE  UNCHANGED <<store, Verdicts>> \/ Promise!Answer(t)
  <2>1. future[t].pc = "reflect" /\ store[t] \in {"absent", "pending", "running"}
      BY <1>5, TaskSteps DEF StatusFollows
  <2>2. PICK pc \in {"reflect", "write", "refund"} : Moves(t, store[t], pc)
      BY <1>5, TaskSteps
  <2>3. CASE store[t] = "absent" \/ pc = "reflect"
      BY <2>1, <2>2, <2>3, QuietMove, VerdictCases
  <2>4. CASE store[t] # "absent" /\ pc # "reflect"
    <3>1. VerdictOf(store[t], pc) \in {"ok", "error"}
        BY <2>1, <2>2, <2>4, VerdictCases
    <3>2. VerdictOf(store[t], future[t].pc) = "none"
        BY <2>1, VerdictCases
    <3> QED
        BY <2>1, <2>2, <2>4, <1>0, <3>1, <3>2, LoudMove DEF Promise!backend, Promise!Answer
  <2> QED
      BY <2>3, <2>4
<1>6. ASSUME NEW t \in Tasks, WriteSlow(t) \/ ReplaceLast(t) \/ ReleaseBudget(t)
      PROVE  UNCHANGED <<store, Verdicts>>
  <2>1. CASE WriteSlow(t)
    <3>1. store[t] \in {"absent", "pending", "running"} /\ future[t].pc = "write"
        BY <2>1, TaskSteps DEF StatusFollows
    <3> QED
        BY <2>1, <3>1, TaskSteps, QuietMove, VerdictCases
  <2>2. CASE ReplaceLast(t)
    <3>1. store[t] \in {"absent", "pending", "running"} /\ future[t].pc = "record"
        BY <2>2, TaskSteps DEF StatusFollows
    <3> QED
        BY <2>2, <3>1, TaskSteps, QuietMove, VerdictCases
  <2>3. CASE ReleaseBudget(t)
    <3>1. store[t] \in {"absent", "pending", "running"} /\ future[t].pc = "refund"
        BY <2>3, TaskSteps DEF StatusFollows
    <3> QED
        BY <2>3, <3>1, TaskSteps, QuietMove, VerdictCases
  <2> QED
      BY <1>6, <2>1, <2>2, <2>3
<1>7. ASSUME NEW t \in Tasks, NEW final, NEW pc, NEW verdict,
             store[t] \in {"absent", "pending", "running"}, future[t].pc = pc,
             \/ Moves(t, store[t], final) /\ MayStay(t)
             \/ store[t] # "absent" /\ Moves(t, final, final),
             \/ pc = "complete" /\ final = "completed" /\ verdict = "ok"
             \/ pc = "fail" /\ final = "failed" /\ verdict = "error"
      PROVE  UNCHANGED <<store, Verdicts>> \/ Promise!Finish(t) \/ Promise!LoseWrite(t)
  <2>1. /\ store[t] # "absent" => VerdictOf(store[t], pc) = verdict
        /\ store[t] # "absent" => VerdictOf(store[t], final) = "lost"
        /\ store[t] = "absent" => VerdictOf(store[t], pc) = VerdictOf(store[t], final)
        /\ VerdictOf(final, final) = verdict
      BY <1>7, VerdictCases
  <2>2. CASE store[t] = "absent" /\ Moves(t, store[t], final)
      BY <1>7, <2>1, <2>2, QuietMove
  <2>3. CASE store[t] # "absent" /\ Moves(t, store[t], final) /\ MayStay(t)
      BY <1>0, <1>7, <2>1, <2>3, LoudMove DEF Promise!backend, Promise!LoseWrite, MayStay
  <2>4. CASE store[t] # "absent" /\ Moves(t, final, final)
      BY <1>0, <1>7, <2>1, <2>4, LoudMove DEF Promise!backend, Promise!Finish
  <2> QED
      BY <1>7, <2>2, <2>3, <2>4
<1>8. ASSUME NEW t \in Tasks, Complete(t) \/ Fail(t)
      PROVE  UNCHANGED <<store, Verdicts>> \/ Promise!Finish(t) \/ Promise!LoseWrite(t)
  <2>1. CASE Complete(t)
    <3>1. store[t] \in {"absent", "pending", "running"} /\ future[t].pc = "complete"
        BY <2>1, TaskSteps DEF StatusFollows
    <3> QED
        BY <1>7, <2>1, <3>1, TaskSteps
  <2>2. CASE Fail(t)
    <3>1. store[t] \in {"absent", "pending", "running"} /\ future[t].pc = "fail"
        BY <2>2, TaskSteps DEF StatusFollows
    <3> QED
        BY <1>7, <2>2, <3>1, TaskSteps
  <2> QED
      BY <1>8, <2>1, <2>2
<1>10. CASE UNCHANGED <<store, future>>
    BY <1>10 DEF Verdicts
<1> QED
    BY <1>3, <1>4, <1>5, <1>6, <1>8, <1>9, <1>10, StepKinds DEF Step

\* Whatever is interleaved, lost or restarted, a task goes from pending to
\* running to one final status, which is the one its reflection earned and
\* never changes.
THEOREM PromiseKept == Spec => KeepsPromiseSafely
<1>1. Init => StatusFollows /\ Promise!Init
  <2> SUFFICES ASSUME Init PROVE StatusFollows /\ Promise!Init
      OBVIOUS
  <2>1. \A t \in Tasks : store[t] = "absent" /\ disk[t] = "absent" /\ future[t].pc = "none"
      BY DEF Init, NoTasks, NoFuture
  <2>2. \A t \in Tasks : VerdictOf(store[t], future[t].pc) = "none"
      BY <2>1, VerdictCases
  <2> QED
      BY <2>1, <2>2 DEF Init, NoTasks, StatusFollows, Verdicts, Promise!Init, Promise!NoTasks
<1>2. TypeOK /\ StatusFollows /\ [Next]_vars => [Promise!Next]_(Promise!promised)
    BY PromiseStep
<1> QED
    BY <1>1, <1>2, StatusFollowsKept, TasksTypeCorrect, PTL DEF Spec, KeepsPromiseSafely
-----------------------------------------------------------------------------
(* Streams *)

\* An open stream has sent no final event, and no task has gone back behind
\* the last status it sent.
Watched ==
    \A s \in Stream :
      stream[s].task # None /\ ~stream[s].done =>
        /\ Rank(stream[s].event) < 3
        /\ stream[s].event # None =>
             /\ store[stream[s].task] # "absent"
             /\ Rank(stream[s].event) <= Rank(store[stream[s].task])

\* The order of the events of a stream.
LEMMA RankCases ==
    /\ Rank(None) = 0
    /\ \A event : Rank(event) \in 0 .. 3
    /\ \A event : event # None =>
         /\ event = "pending" => Rank(event) = 1
         /\ event = "running" => Rank(event) = 2
         /\ event \notin {"pending", "running"} => Rank(event) = 3
BY System2Assumption DEF Rank

\* While the server runs, a task that the store holds stays there, and its
\* status does not go back.
LEMMA StatusOnward ==
    ASSUME TypeOK, StatusFollows, [Next]_vars, ~Restart, NEW t \in Tasks, store[t] # "absent"
    PROVE  store'[t] # "absent" /\ Rank(store[t]) <= Rank(store'[t])
<1>1. store \in [Tasks -> Status] /\ Rank(store[t]) \in 0 .. 3
    BY RankCases DEF TypeOK
<1>2. ASSUME NEW u \in Tasks, NEW s, NEW pc, Moves(u, s, pc),
             u = t => s # "absent" /\ Rank(store[t]) <= Rank(s)
      PROVE  store'[t] # "absent" /\ Rank(store[t]) <= Rank(store'[t])
  <2>1. store'[t] = IF u = t THEN s ELSE store[t]
      BY <1>1, <1>2 DEF Moves
  <2> QED
      BY <1>1, <1>2, <2>1
<1>3. ASSUME NEW u \in Tasks, NEW pc, Moves(u, store[u], pc)
      PROVE  store'[t] # "absent" /\ Rank(store[t]) <= Rank(store'[t])
    BY <1>1, <1>2, <1>3
<1>4. ASSUME NEW c \in Client, NEW u \in Tasks, CreateTask(c, u)
      PROVE  store'[t] # "absent" /\ Rank(store[t]) <= Rank(store'[t])
  <2>1. /\ future[u].pc = "none"
        /\ Moves(u, store[u], "spawned") \/ Moves(u, "pending", "spawned")
      BY <1>4, TaskSteps
  <2>2. store[u] = "absent"
      BY <2>1 DEF StatusFollows
  <2> QED
      BY <1>2, <1>3, <2>1, <2>2
<1>5. ASSUME NEW u \in Tasks, Step(u) \/ Reflect(u)
      PROVE  store'[t] # "absent" /\ Rank(store[t]) <= Rank(store'[t])
  <2>1. ASSUME SetRunning(u), Moves(u, "running", "reflect")
        PROVE  store'[t] # "absent" /\ Rank(store[t]) <= Rank(store'[t])
    <3>1. store[u] \in {"absent", "pending"}
        BY <2>1, TaskSteps DEF StatusFollows
    <3>2. u = t => Rank(store[t]) = 1
        BY <1>1, <3>1, RankCases, System2Assumption DEF Status
    <3>3. Rank("running") = 2
        BY RankCases, System2Assumption DEF Status
    <3> QED
        BY <1>2, <2>1, <3>2, <3>3
  <2>2. ASSUME NEW final \in {"completed", "failed"}, Moves(u, final, final)
        PROVE  store'[t] # "absent" /\ Rank(store[t]) <= Rank(store'[t])
    <3>1. Rank(final) = 3
        BY RankCases, System2Assumption DEF Status, Terminal
    <3> QED
        BY <1>1, <1>2, <2>2, <3>1
  <2>3. \/ \E pc : Moves(u, store[u], pc)
        \/ SetRunning(u) /\ Moves(u, "running", "reflect")
        \/ \E final \in {"completed", "failed"} : Moves(u, final, final)
      BY <1>5, TaskSteps DEF Step
  <2> QED
      BY <1>3, <2>1, <2>2, <2>3
<1>6. CASE UNCHANGED <<store, future>>
    BY <1>1, <1>6
<1> QED
    BY <1>4, <1>5, <1>6, StepKinds

\* What a stream sends of a status it read; a poll that fails reads nothing.
Polled(s, status) ==
    /\ status = store[stream[s].task] \/ status = "absent"
    /\ stream'[s].done <=> (status = "absent" \/ status \in Terminal)
    /\ stream'[s].event = IF status = "absent" THEN "error" ELSE status

\* The step of a stream, and that there is no other while the server runs.
LEMMA StreamSteps ==
    ASSUME TypeOK, [Next]_vars, NEW s \in Stream
    PROVE  \/ stream'[s] = stream[s]
           \/ stream[s].task = None /\ stream'[s].event = None /\ ~stream'[s].done
           \/ /\ Streaming(s) /\ stream[s].task \in Tasks
              /\ stream'[s].task = stream[s].task
              /\ \E status : Polled(s, status)
              /\ store' = store
           \/ Restart /\ stream'[s] = NoStream
<1>1. stream \in [Stream -> Watch]
    BY DEF TypeOK
<1>2. ASSUME NEW r \in Stream, NEW t \in Tasks, OpenStream(r, t)
      PROVE  \/ stream'[s] = stream[s]
             \/ stream[s].task = None /\ stream'[s].event = None /\ ~stream'[s].done
    BY <1>1, <1>2 DEF OpenStream, NoStream
<1>3. ASSUME NEW r \in Stream, PollTask(r), r # s
      PROVE  stream'[s] = stream[s]
    BY <1>1, <1>3 DEF PollTask
<1>4. ASSUME PollTask(s)
      PROVE  /\ Streaming(s) /\ stream[s].task \in Tasks
             /\ stream'[s].task = stream[s].task
             /\ \E status : Polled(s, status)
             /\ store' = store
  <2>1. Streaming(s) /\ stream[s].task \in Tasks
      BY <1>1, <1>4 DEF PollTask, Streaming, Watch
  <2>2. PICK status \in {store[stream[s].task], "absent"} :
          stream'[s] = [task  |-> stream[s].task,
                        tick  |-> NextTick(stream[s].tick),
                        done  |-> status = "absent" \/ IsTerminal(status),
                        event |-> IF status = "absent" THEN "error" ELSE status]
      BY <1>1, <1>4 DEF PollTask
  <2>3. /\ stream'[s].task = stream[s].task
        /\ stream'[s].event = IF status = "absent" THEN "error" ELSE status
      BY <2>2
  <2>4. stream'[s].done = (status = "absent" \/ IsTerminal(status))
      BY <2>2
  <2>5. stream'[s].done <=> (status = "absent" \/ status \in Terminal)
      BY <2>4, Zenon DEF IsTerminal
  <2>6. Polled(s, status)
      BY <2>3, <2>5 DEF Polled
  <2> QED
      BY <1>4, <2>1, <2>3, <2>6 DEF PollTask
<1>5. CASE Restart
    BY <1>5 DEF Restart
<1>6. CASE UNCHANGED stream
    BY <1>6
<1> QED
    BY <1>2, <1>3, <1>4, <1>5, <1>6 DEF Next, vars, Tick, UpdateBelief, TryConsumeBudget,
        CreateTask, Step, SetRunning, WriteSlow, ReplaceLast, Complete, ReleaseBudget, Fail, Reflect

\* What a stream sends is no earlier than what it sent, if no task went back
\* behind that.
LEMMA EventsOrdered ==
    ASSUME TypeOK, Watched, NEW s \in Stream, Streaming(s), stream[s].task \in Tasks,
           NEW status, Polled(s, status)
    PROVE  Rank(stream[s].event) < 3 /\ Rank(stream[s].event) <= Rank(stream'[s].event)
<1>1. /\ Rank(stream[s].event) < 3
      /\ stream[s].event # None =>
           /\ store[stream[s].task] # "absent"
           /\ Rank(stream[s].event) <= Rank(store[stream[s].task])
    BY DEF Watched, Streaming
<1>2. /\ Rank(None) = 0 /\ \A event : Rank(event) \in 0 .. 3
      /\ Rank("error") = 3
    BY RankCases, System2Assumption
<1>3. stream'[s].event = "error" \/ stream'[s].event = store[stream[s].task]
    BY DEF Polled
<1> QED
    BY <1>1, <1>2, <1>3

LEMMA WatchedKept ==
    TypeOK /\ StatusFollows /\ Watched /\ [Next]_vars => Watched'
<1> SUFFICES ASSUME TypeOK, StatusFollows, Watched, [Next]_vars,
                    NEW s \in Stream, stream'[s].task # None, ~stream'[s].done
             PROVE  /\ Rank(stream'[s].event) < 3
                    /\ stream'[s].event # None =>
                         /\ store'[stream'[s].task] # "absent"
                         /\ Rank(stream'[s].event) <= Rank(store'[stream'[s].task])
    BY DEF Watched
<1>1. store \in [Tasks -> Status] /\ stream \in [Stream -> Watch]
    BY DEF TypeOK
<1>2. Rank(None) = 0 /\ \A event : Rank(event) \in 0 .. 3
    BY RankCases
<1>3. CASE Restart /\ stream'[s] = NoStream
    BY <1>2, <1>3 DEF NoStream
<1>4. CASE stream'[s] = stream[s] /\ ~Restart
  <2>1. stream[s].task \in Tasks
      BY <1>1, <1>4 DEF Watch
  <2>2. stream[s].event # None =>
          /\ store[stream[s].task] # "absent"
          /\ Rank(stream[s].event) <= Rank(store[stream[s].task])
      BY <1>4 DEF Watched
  <2>3. Rank(stream[s].event) < 3
      BY <1>4 DEF Watched
  <2>4. store[stream[s].task] # "absent" =>
          /\ store'[stream[s].task] # "absent"
          /\ Rank(store[stream[s].task]) <= Rank(store'[stream[s].task])
      BY <1>4, <2>1, StatusOnward
  <2> QED
      BY <1>2, <1>4, <2>2, <2>3, <2>4
<1>5. CASE stream'[s].event = None
    BY <1>2, <1>5
<1>6. ASSUME stream[s].task \in Tasks, stream'[s].task = stream[s].task,
             NEW status, Polled(s, status),
             store' = store
      PROVE  /\ Rank(stream'[s].event) < 3
             /\ stream'[s].event # None =>
                  /\ store'[stream'[s].task] # "absent"
                  /\ Rank(stream'[s].event) <= Rank(store'[stream'[s].task])
  <2>1. status = store[stream[s].task] /\ status \in {"pending", "running"}
      BY <1>1, <1>6 DEF Status, Polled
  <2>2. stream'[s].event = store[stream[s].task]
      BY <1>6, <2>1 DEF Polled
  <2>3. Rank(stream'[s].event) < 3
      BY <2>1, <2>2, RankCases, System2Assumption DEF Status
  <2> QED
      BY <1>2, <1>6, <2>1, <2>2, <2>3
<1>7. CASE Restart
  <2>1. stream'[s] = NoStream
      BY <1>7 DEF Restart
  <2> QED
      BY <1>3, <1>7, <2>1
<1> QED
    BY <1>4, <1>5, <1>6, <1>7, StreamSteps


\* Whatever the stores lose and wherever the stream is between two polls, its
\* events go forward, and it ends with the first final one.
THEOREM StreamsInOrder == Spec => StreamOrdered
<1> DEFINE Ordered ==
        \A s \in Stream :
          (stream[s].task # None /\ stream'[s] # stream[s] /\ stream'[s].task # None) =>
            Rank(stream[s].event) < 3 /\ Rank(stream[s].event) <= Rank(stream'[s].event)
<1>1. TypeOK /\ Watched /\ [Next]_vars => Ordered
  <2> SUFFICES ASSUME TypeOK, Watched, [Next]_vars, NEW s \in Stream,
                      stream[s].task # None, stream'[s] # stream[s], stream'[s].task # None
               PROVE  /\ Rank(stream[s].event) < 3
                      /\ Rank(stream[s].event) <= Rank(stream'[s].event)
      OBVIOUS
  <2>1. Streaming(s) /\ stream[s].task \in Tasks /\ \E status : Polled(s, status)
      BY StreamSteps DEF NoStream
  <2> QED
      BY <2>1, EventsOrdered
<1>2. Init => StatusFollows /\ Watched
    BY DEF Init, NoTasks, StatusFollows, NoFuture, Watched, NoStream
<1>3. [][Next]_vars /\ []TypeOK /\ []Watched => [][Ordered]_vars
  <2>1. TypeOK /\ Watched /\ [Next]_vars => [Ordered]_vars
      BY <1>1
  <2> QED
      BY <2>1, PTL
<1>4. Spec => [][Ordered]_vars
    BY <1>2, <1>3, StatusFollowsKept, WatchedKept, TasksTypeCorrect, PTL DEF Spec
<1> QED
    BY <1>4 DEF StreamOrdered

=============================================================================

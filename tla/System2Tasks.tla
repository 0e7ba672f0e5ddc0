---------------------------- MODULE System2Tasks ----------------------------
(***************************************************************************)
(* System 2 in the MCP server.  An update whose confidence diverges takes  *)
(* a token, records a task and spawns a future that asks the LLM, writes   *)
(* the answer back and publishes the task's status; clients poll or stream *)
(* it.  Every lock and every await is a step of its own.  The update       *)
(* itself, whose steps BeliefRuntime details, is one step here; the server *)
(* attaches no contract to its runtime.                                    *)
(* A revised confidence is represented by the task it is the answer of.    *)
(***************************************************************************)
EXTENDS QuadOps, TokenBucket

CONSTANTS Client,       \* concurrent POST /v1/beliefs requests
          Stream,       \* concurrent GET /v1/tasks/:id/stream requests
          InitialQuad,  \* the beliefs already in the runtime
          StoreErrors,  \* sled may fail to read or write
          MaxRetries,   \* attempts the LLM client makes
          TickLimit,    \* polls a stream makes, less one
          MaxTasks,     \* bound: tasks ever created
          MaxUpdates,   \* bound: updates ever made
          MaxNow,       \* bound: the clock
          MaxRestarts   \* bound: restarts of the server

ASSUME System2Assumption ==
    /\ StoreErrors \in BOOLEAN
    /\ MaxRetries \in Nat \ {0} /\ TickLimit \in Nat
    /\ MaxTasks \in Nat /\ MaxUpdates \in Nat /\ MaxNow \in Nat /\ MaxRestarts \in Nat
    /\ QuadInv(InitialQuad)
    /\ IsFiniteSet(Client)
    /\ None \notin {"absent", "pending", "running", "completed", "failed", "error"}

Tasks == 1 .. MaxTasks

VARIABLES quad,         \* the runtime's BeliefQuad
          history,      \* confidence records: [id, answer]
          activations,  \* system2_activations
          bucket,       \* the reflection budget
          now,          \* the monotonic clock since the process started
          durable,      \* the task store is sled, not the in-memory map
          store,        \* the task store: the status of each task
          disk,         \* what sled holds while the server runs without it
          future,       \* the spawned reflections
          client,       \* the requests being handled
          stream,       \* the open streams
          updates,      \* updates made so far
          restarts      \* restarts so far

vars == <<quad, history, activations, bucket, now, durable, disk, store, future, client,
          stream, updates, restarts>>

process == <<quad, history, activations, bucket>>
backend == <<durable, disk>>
bounds  == <<updates, restarts>>

Terminal == {"completed", "failed"}

NoTasks == [t \in Tasks |-> "absent"]

NoFuture == [pc |-> "none", id |-> None, attempt |-> 0]
NoClient == [pc |-> "idle", id |-> None]
NoStream == [task |-> None, tick |-> 0, done |-> FALSE, event |-> None]

Init ==
    /\ quad = InitialQuad
    /\ history = <<>>
    /\ activations = 0
    /\ bucket = NewBucket(0)
    /\ now = 0
    /\ durable \in BOOLEAN
    /\ store = NoTasks
    /\ disk = NoTasks
    /\ future = [t \in Tasks |-> NoFuture]
    /\ client = [c \in Client |-> NoClient]
    /\ stream = [s \in Stream |-> NoStream]
    /\ updates = 0
    /\ restarts = 0

Tick ==
    /\ now < MaxNow
    /\ now' = now + 1
    /\ UNCHANGED <<process, backend, store, future, client, stream, bounds>>

-----------------------------------------------------------------------------
(* The task store.  Its errors are ignored by every caller. *)

Write(t, status) ==
    \/ store' = [store EXCEPT ![t] = status]
    \/ StoreErrors /\ durable /\ store' = store

\* update_status does nothing when the task is absent.
UpdateStatus(t, status) ==
    IF store[t] = "absent" THEN store' = store ELSE Write(t, status)

-----------------------------------------------------------------------------
(* handle_belief_set *)

UpdateBelief(c, id, v) ==
    /\ client[c].pc = "idle"
    /\ updates < MaxUpdates
    /\ updates' = updates + 1
    /\ \E out \in Revise(quad, id, v, Scale) :
         /\ quad' = out.quad
         /\ IF out.result \in {"Expanded", "Revised"}
            THEN /\ history' = Append(history, [id |-> id, answer |-> None])
                 /\ client' = [client EXCEPT ![c] = [pc |-> "consume", id |-> id]]
            ELSE UNCHANGED <<history, client>>
    /\ UNCHANGED <<activations, bucket, now, backend, store, future, stream, restarts>>

\* Without a token the request is answered as if System 2 had not triggered.
TryConsumeBudget(c) ==
    /\ client[c].pc = "consume"
    /\ IF Covers(bucket, now, 1)
       THEN /\ bucket' = Consume(bucket, now, 1)
            /\ client' = [client EXCEPT ![c].pc = "create"]
       ELSE /\ bucket' = Refill(bucket, now)
            /\ client' = [client EXCEPT ![c] = NoClient]
    /\ UNCHANGED <<quad, history, activations, now, backend, store, future, stream, bounds>>

\* A fresh UUID: the task's number is one no task had before.
CreateTask(c, t) ==
    /\ client[c].pc = "create"
    /\ future[t].pc = "none"
    /\ \A u \in Tasks : u < t => future[u].pc # "none"
    /\ Write(t, "pending")
    /\ future' = [future EXCEPT ![t] = [pc |-> "spawned", id |-> client[c].id, attempt |-> 0]]
    /\ client' = [client EXCEPT ![c] = NoClient]
    /\ UNCHANGED <<process, now, backend, stream, bounds>>

-----------------------------------------------------------------------------
(* The spawned future *)

Goto(t, pc) == future' = [future EXCEPT ![t].pc = pc, ![t].attempt = 0]

SetRunning(t) ==
    /\ future[t].pc = "spawned"
    /\ UpdateStatus(t, "running")
    /\ Goto(t, "reflect")
    /\ UNCHANGED <<process, now, backend, client, stream, bounds>>

\* One attempt of the LLM client; rate limits and network errors are retried.
Reflect(t) ==
    /\ future[t].pc = "reflect"
    /\ \/ Goto(t, "write")
       \/ Goto(t, "refund")
       \/ IF future[t].attempt + 1 < MaxRetries
          THEN future' = [future EXCEPT ![t].attempt = @ + 1]
          ELSE Goto(t, "refund")
    /\ UNCHANGED <<process, now, backend, store, client, stream, bounds>>

\* apply_system2_result, under the quad's lock; the belief may be gone.
WriteSlow(t) ==
    /\ future[t].pc = "write"
    /\ quad' = IF future[t].id \in Live(quad)
               THEN [quad EXCEPT !.nodes[future[t].id].slow = t]
               ELSE quad
    /\ activations' = activations + 1
    /\ Goto(t, "record")
    /\ UNCHANGED <<history, bucket, now, backend, store, client, stream, bounds>>

\* replace_last_confidence, under the history's lock.
ReplaceLast(t) ==
    /\ future[t].pc = "record"
    /\ LET mine == {i \in DOMAIN history : history[i].id = future[t].id}
           last == CHOOSE i \in mine : \A j \in mine : j <= i
       IN  history' = IF mine = {} THEN history
                      ELSE [history EXCEPT ![last].answer = t]
    /\ Goto(t, "complete")
    /\ UNCHANGED <<quad, activations, bucket, now, backend, store, client, stream, bounds>>

\* The last step of a future; a write that is lost is never tried again.
Publish(t, status) == UpdateStatus(t, status) /\ Goto(t, status)

Complete(t) ==
    /\ future[t].pc = "complete"
    /\ Publish(t, "completed")
    /\ UNCHANGED <<process, now, backend, client, stream, bounds>>

ReleaseBudget(t) ==
    /\ future[t].pc = "refund"
    /\ bucket' = Release(bucket, 1)
    /\ Goto(t, "fail")
    /\ UNCHANGED <<quad, history, activations, now, backend, store, client, stream, bounds>>

SilentFail(t) ==  \* mutant: the failure is not published
    /\ future[t].pc = "fail"
    /\ Goto(t, "failed")
    /\ UNCHANGED <<process, now, backend, store, client, stream, bounds>>
Fail(t) ==
    /\ future[t].pc = "fail"
    /\ Publish(t, "failed")
    /\ UNCHANGED <<process, now, backend, client, stream, bounds>>

Step(t) ==
    SetRunning(t) \/ WriteSlow(t) \/ ReplaceLast(t) \/ Complete(t) \/ ReleaseBudget(t) \/ Fail(t)

-----------------------------------------------------------------------------
(* handle_task_stream *)

OpenStream(s, t) ==
    /\ stream[s].task = None
    /\ stream' = [stream EXCEPT ![s] = [NoStream EXCEPT !.task = t]]
    /\ UNCHANGED <<process, now, backend, store, future, client, bounds>>

OnlySuccess(status) == status = "completed"  \* mutant: a failure does not end the stream
IsTerminal(status)  == status \in Terminal

SameTick(tick) == tick  \* mutant: the polls are not counted
NextTick(tick) == tick + 1

Streaming(s) == stream[s].task # None /\ ~stream[s].done /\ stream[s].tick <= TickLimit

\* An unknown task, or one that cannot be read, gets one error event.
PollTask(s) ==
    /\ Streaming(s)
    /\ \E status \in {store[stream[s].task]} \cup IF StoreErrors /\ durable THEN {"absent"} ELSE {} :
         stream' = [stream EXCEPT ![s] =
                      [task  |-> stream[s].task,
                       tick  |-> NextTick(stream[s].tick),
                       done  |-> status = "absent" \/ IsTerminal(status),
                       event |-> IF status = "absent" THEN "error" ELSE status]]
    /\ UNCHANGED <<process, now, backend, store, future, client, bounds>>

-----------------------------------------------------------------------------
\* What the next process finds on disk.
Kept == IF durable THEN store ELSE disk

\* The process ends and is started again: futures, requests, streams and
\* beliefs are gone, the bucket is new.  The new process has the tasks of sled
\* when it is asked to open it and can; otherwise it falls back to an empty map
\* and leaves them on disk.  Nothing resumes a task.
Restart ==
    /\ restarts < MaxRestarts
    /\ restarts' = restarts + 1
    /\ quad' = InitialQuad
    /\ history' = <<>>
    /\ activations' = 0
    /\ bucket' = NewBucket(0)
    /\ now' = 0
    /\ durable' \in BOOLEAN
    /\ store' = IF durable' THEN Kept ELSE NoTasks
    /\ disk' = IF durable' THEN NoTasks ELSE Kept
    /\ future' = [t \in Tasks |-> IF future[t].pc = "none" THEN NoFuture
                                  ELSE [NoFuture EXCEPT !.pc = "gone"]]
    /\ client' = [c \in Client |-> NoClient]
    /\ stream' = [s \in Stream |-> NoStream]
    /\ UNCHANGED updates

Next ==
    \/ Tick
    \/ \E c \in Client, id \in Live(InitialQuad), v \in Value : UpdateBelief(c, id, v)
    \/ \E c \in Client : TryConsumeBudget(c)
    \/ \E c \in Client, t \in Tasks : CreateTask(c, t)
    \/ \E t \in Tasks : Step(t) \/ Reflect(t)
    \/ \E s \in Stream, t \in Tasks : OpenStream(s, t)
    \/ \E s \in Stream : PollTask(s)
    \/ Restart

\* tokio polls a future that is ready and a timer that is due; whether and
\* when the provider answers is not up to the program.
Fairness ==
    /\ \A t \in Tasks : WF_vars(Step(t))
    /\ \A s \in Stream : WF_vars(PollTask(s))

Spec == Init /\ [][Next]_vars /\ Fairness

-----------------------------------------------------------------------------
(* Properties *)

\* Type invariant: well-formed beliefs, statuses, futures, requests and streams,
\* and a bucket that is never fuller than its capacity.
Status  == {"absent", "pending", "running"} \cup Terminal
Phase   == {"none", "spawned", "reflect", "write", "record", "complete", "refund", "fail",
            "gone"} \cup Terminal
Request == [pc : {"idle", "consume", "create"}, id : BeliefId \cup {None}]
Reflection == [pc : Phase, id : BeliefId \cup {None}, attempt : 0 .. MaxRetries - 1]
Watch   == [task : Tasks \cup {None}, tick : 0 .. TickLimit + 1, done : BOOLEAN,
            event : Status \cup {"error", None}]
Entry   == [id : BeliefId, answer : Tasks \cup {None}]

TypeOK ==
    /\ QuadInv(quad)
    /\ bucket \in Bucket /\ now \in Nat /\ bucket.last <= now
    /\ history \in Seq(Entry)
    /\ activations \in Nat /\ updates \in Nat /\ restarts \in Nat
    /\ durable \in BOOLEAN
    /\ store \in [Tasks -> Status] /\ disk \in [Tasks -> Status]
    /\ future \in [Tasks -> Reflection]
    /\ client \in [Client -> Request]
    /\ stream \in [Stream -> Watch]

\* Who holds a token: requests about to create their task, and reflections of
\* this process that have not failed, or not given their token back yet.
Paying == {c \in Client : client[c].pc = "create"}
Paid   == {t \in Tasks : future[t].pc \in {"spawned", "reflect", "write", "record",
                                           "complete", "completed", "refund"}}
Spent  == (Cardinality(Paying) + Cardinality(Paid)) * Grain

\* The budget is exact: a failed reflection costs nothing whenever it fails
\* ("transient errors must not drain the session budget"), and whatever fails
\* and refills, what was granted is bounded by the capacity and the time.
BudgetExact ==
    /\ Full <= Level(bucket, now) + Spent
    /\ Level(bucket, now) + Spent <= Full + now * Rate

\* The promise made to clients, refined: the status is the store's, and the
\* verdict is where the future is.
VerdictOf(status, pc) ==
    CASE status = "absent"    -> "none"
      [] status = "completed" -> "ok"
      [] status = "failed"    -> "error"
      [] OTHER -> CASE pc \in {"spawned", "reflect"}          -> "none"
                    [] pc \in {"write", "record", "complete"} -> "ok"
                    [] pc \in {"refund", "fail"}              -> "error"
                    [] OTHER                                  -> "lost"

Verdicts == [t \in Tasks |-> VerdictOf(store[t], future[t].pc)]

Promise == INSTANCE TaskPromise WITH status <- store, verdict <- Verdicts

KeepsPromise == Promise!Spec

\* The events of a stream never go back to an earlier status, and none follows
\* a final one or an error.
Rank(event) == CASE event = None -> 0 [] event = "pending" -> 1 [] event = "running" -> 2
                 [] OTHER -> 3

StreamOrdered ==
    [][\A s \in Stream :
         (stream[s].task # None /\ stream'[s] # stream[s] /\ stream'[s].task # None) =>
           Rank(stream[s].event) < 3 /\ Rank(stream[s].event) <= Rank(stream'[s].event)]_vars

\* A stream ends, even when the provider never answers.
StreamsEnd == \A s \in Stream : Streaming(s) ~> ~Streaming(s)

=============================================================================

---------------------------- MODULE TaskPromise ----------------------------
(***************************************************************************)
(* What a client is promised about a System 2 task: it is pending, then    *)
(* running, then it has one final status, the one the reflection earned,   *)
(* and that never changes.  A reflection that was answered is published,   *)
(* unless the server restarts or a store on disk loses the write first.    *)
(* A server that comes back without its store knows no task; one that      *)
(* opens it again has them as they were, and nobody works on them.         *)
(* Nobody promises that the provider answers: the HTTP clients set no      *)
(* timeout.                                                                *)
(***************************************************************************)
CONSTANTS Tasks, StoreErrors

VARIABLES status,   \* what a poll of the task returns
          verdict,  \* how the reflection went
          durable,  \* the store is on disk; it may fail to write
          disk      \* what is there while the server runs without it

promised == <<status, verdict, durable, disk>>
backend  == <<durable, disk>>

Terminal == {"completed", "failed"}
NoTasks  == [t \in Tasks |-> "absent"]

Init ==
    /\ status = NoTasks
    /\ disk = NoTasks
    /\ verdict = [t \in Tasks |-> "none"]
    /\ durable \in BOOLEAN

Accept(t) ==
    /\ status[t] = "absent" /\ disk[t] = "absent"
    /\ verdict[t] = "none"
    /\ status' = [status EXCEPT ![t] = "pending"]
    /\ UNCHANGED <<verdict, backend>>

Start(t) ==
    /\ status[t] = "pending"
    /\ verdict[t] = "none"
    /\ status' = [status EXCEPT ![t] = "running"]
    /\ UNCHANGED <<verdict, backend>>

Answer(t) ==
    /\ status[t] \in {"pending", "running"}
    /\ verdict[t] = "none"
    /\ \E v \in {"ok", "error"} : verdict' = [verdict EXCEPT ![t] = v]
    /\ UNCHANGED <<status, backend>>

Finish(t) ==
    /\ status[t] \in {"pending", "running"}
    /\ \/ verdict[t] = "ok"    /\ status' = [status EXCEPT ![t] = "completed"]
       \/ verdict[t] = "error" /\ status' = [status EXCEPT ![t] = "failed"]
    /\ UNCHANGED <<verdict, backend>>

LoseWrite(t) ==
    /\ durable /\ StoreErrors
    /\ status[t] \in {"pending", "running"}
    /\ verdict[t] \in {"ok", "error"}
    /\ verdict' = [verdict EXCEPT ![t] = "lost"]
    /\ UNCHANGED <<status, backend>>

\* How a reflection went, as far as anyone can tell once it is gone.
Verdict(s) == CASE s = "absent"    -> "none"
                [] s = "completed" -> "ok"
                [] s = "failed"    -> "error"
                [] OTHER           -> "lost"

Kept == IF durable THEN status ELSE disk

Restart ==
    /\ durable' \in BOOLEAN
    /\ status' = IF durable' THEN Kept ELSE NoTasks
    /\ disk' = IF durable' THEN NoTasks ELSE Kept
    /\ verdict' = [t \in Tasks |-> Verdict(status'[t])]

Next ==
    \/ \E t \in Tasks : Accept(t) \/ Start(t) \/ Answer(t) \/ Finish(t) \/ LoseWrite(t)
    \/ Restart

Spec == Init /\ [][Next]_promised /\ \A t \in Tasks : WF_promised(Finish(t))

=============================================================================

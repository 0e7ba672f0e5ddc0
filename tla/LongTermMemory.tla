--------------------------- MODULE LongTermMemory ---------------------------
(***************************************************************************)
(* What a session believes beyond the session: beliefs flushed snapshot by *)
(* snapshot to a Redis working memory or a Neo4j graph, by calls that fail *)
(* half way, and loaded key by key into a new session while others write;  *)
(* and beliefs erased by a ForgetPolicy, which sees neither the stores nor *)
(* the checkpoints.  The callers of flush, load and execute are external.  *)
(***************************************************************************)
EXTENDS Propagation

CONSTANTS Flusher,       \* flushes that may be in progress at a time
          InitialQuads,  \* quads a session may begin with
          Inserted,      \* beliefs callers insert
          Policies,      \* retention policies: [kind, ticks]
          LoadPolicy,    \* the policy of the Neo4j store, used by its loads
          DecayIn,       \* recency_decay arguments of loads
          Schema,        \* keys of the schema descriptor of loads
          Second,        \* clock ticks of a second
          SessionTtl,    \* seconds a session-scoped belief stays in Redis
          MaxClock,      \* bound: clock
          MaxOps         \* bound: calls of every kind together, restarts apart

ASSUME MemoryAssumption ==
    /\ \A q \in InitialQuads : QuadInv(q)
    /\ \A p \in Policies \cup {LoadPolicy} :
         /\ p.kind \in {"Permanent", "Duration", "SessionScoped", "Until"}
         /\ p.ticks \in Nat
    /\ Inserted \subseteq Node /\ Schema \subseteq Key
    /\ DecayIn \subseteq Conf
    /\ {Second, SessionTtl} \subseteq Nat \ {0} /\ {MaxClock, MaxOps} \subseteq Nat

VARIABLES quad, checkpoints, clock,
          redis,    \* key -> [value, fast, slow, expires, written, policy]
          neo4j,    \* key -> [value, fast, updated]
          flush,    \* what each flush is doing, or did
          load,     \* what the load in progress is doing
          erased,   \* [key, value] of beliefs erased and not inserted again
          verdict,  \* the last ForgetVerificationResult
          ops

vars == <<quad, checkpoints, clock, redis, neo4j, flush, load, erased, verdict, ops>>

Store == {"redis", "neo4j"}
NoFlush == [pc |-> "idle", store |-> "redis", policy |-> LoadPolicy, started |-> 0,
            snaps |-> <<>>, n |-> 0, before |-> [k \in {} |-> None], alone |-> FALSE]
NoLoad == [pc |-> "idle", store |-> "redis", decay |-> 0, keys |-> <<>>,
           rows |-> [k \in {} |-> None], got |-> <<>>]
NoVerdict == [result |-> "none", remaining |-> {}, backends |-> {}]

Init ==
    /\ quad \in InitialQuads
    /\ checkpoints = <<>>
    /\ clock = 0
    /\ redis = [k \in {} |-> None]
    /\ neo4j = [k \in {} |-> None]
    /\ flush = [w \in Flusher |-> NoFlush]
    /\ load = NoLoad
    /\ erased = {}
    /\ verdict = NoVerdict
    /\ ops = 0

Call == ops < MaxOps /\ ops' = ops + 1

-----------------------------------------------------------------------------
(* The session *)

Content(node) == [key |-> node.key, value |-> node.value]

InsertBelief(node) ==
    /\ Call
    /\ quad' = Insert(quad, node)
    /\ erased' = erased \ {Content(node)}
    /\ UNCHANGED <<checkpoints, clock, redis, neo4j, flush, load, verdict>>

TakeCheckpoint ==
    /\ Call
    /\ checkpoints' = Append(checkpoints, [id |-> ops, quad |-> quad])
    /\ UNCHANGED <<quad, clock, redis, neo4j, flush, load, erased, verdict>>

RollbackTo(cp) ==
    /\ Call
    /\ LET out == Rollback(quad, checkpoints, cp)
       IN  quad' = out.quad /\ checkpoints' = out.checkpoints
    /\ UNCHANGED <<clock, redis, neo4j, flush, load, erased, verdict>>

\* The process ends, with every call it was in, and another one starts.
Restart ==
    /\ quad' = EmptyQuad
    /\ checkpoints' = <<>>
    /\ flush' = [w \in Flusher |-> IF flush[w].pc = "writing"
                                   THEN [flush[w] EXCEPT !.pc = "failed"] ELSE flush[w]]
    /\ load' = NoLoad
    /\ UNCHANGED <<clock, redis, neo4j, erased, verdict, ops>>

-----------------------------------------------------------------------------
(* ForgetPolicy *)

\* default_causal_verify_fn
CausalVerify(id, q) ==
    IF id \notin Live(q)
    THEN [NoVerdict EXCEPT !.result = "VerificationError"]
    ELSE LET below == Descendants(q, id)
         IN  [NoVerdict EXCEPT !.result = IF below = {} THEN "Verified" ELSE "PartialDeletion",
                               !.remaining = below]

VerifyAfter(id) ==  \* mutant: the quad is verified after the removal
    [verdict |-> CausalVerify(id, RemoveOne(quad, id)), quad |-> RemoveOne(quad, id)]
Execute(id) == [verdict |-> CausalVerify(id, quad), quad |-> RemoveOne(quad, id)]

\* execute_with_backends; without backends it is execute.
Forget(id, backends) ==
    /\ Call
    /\ LET out == Execute(id)
       IN  /\ quad' = out.quad
           /\ verdict' = IF backends # {} /\ out.verdict.result = "Verified"
                         THEN [NoVerdict EXCEPT !.result = "PersistenceNotVerified",
                                                !.backends = backends]
                         ELSE out.verdict
    /\ erased' = erased \cup {Content(quad.nodes[i]) : i \in {id} \cap Live(quad)}
    /\ UNCHANGED <<checkpoints, clock, redis, neo4j, flush, load>>

-----------------------------------------------------------------------------
(* flush *)

\* Snapshots of the session's beliefs, in slot order.
SessionSnapshots ==
    LET upto[s \in 0 .. Len(quad.gens)] ==
          IF s = 0 THEN <<>>
          ELSE IF <<s, quad.gens[s]>> \in Live(quad)
               THEN Append(upto[s - 1], quad.nodes[<<s, quad.gens[s]>>])
               ELSE upto[s - 1]
    IN  upto[Len(quad.gens)]

Kept(store) == IF store = "redis" THEN redis ELSE neo4j

ResumeFailed(w, store, policy) ==  \* mutant: what a failed call had left is flushed
    /\ Call
    /\ flush[w].pc # "writing"
    /\ LET snaps == IF flush[w].pc = "failed" THEN flush[w].snaps ELSE SessionSnapshots
       IN  flush' = [flush EXCEPT ![w] =
                       [pc |-> IF snaps = <<>> THEN "done" ELSE "writing", store |-> store,
                        policy |-> policy, started |-> clock, snaps |-> snaps, n |-> 0,
                        before |-> Kept(store), alone |-> TRUE]]
    /\ UNCHANGED <<quad, checkpoints, clock, redis, neo4j, load, erased, verdict>>

\* An empty list of snapshots is answered without a write.
BeginFlush(w, store, policy) ==
    /\ Call
    /\ flush[w].pc # "writing"
    /\ flush' = [flush EXCEPT ![w] =
                   [pc |-> IF SessionSnapshots = <<>> THEN "done" ELSE "writing",
                    store |-> store, policy |-> policy, started |-> clock,
                    snaps |-> SessionSnapshots, n |-> 0,
                    before |-> Kept(store), alone |-> TRUE]]
    /\ UNCHANGED <<quad, checkpoints, clock, redis, neo4j, load, erased, verdict>>

\* Redis counts in whole seconds; None is a key without a time to live.
TtlSeconds(policy) ==
    CASE policy.kind = "Duration"      -> policy.ticks \div Second
      [] policy.kind = "SessionScoped" -> SessionTtl
      [] OTHER                         -> None

\* SETEX refuses a time to live of zero.
Refused(frame) == frame.store = "redis" /\ TtlSeconds(frame.policy) = 0

\* SET and SETEX replace the key with its time to live; MERGE ... SET gives
\* every row of one call the time the call began.
SetKey(table, key, kept) ==
    [k \in DOMAIN table \cup {key} |-> IF k = key THEN kept ELSE table[k]]

Put(frame) ==
    LET snap == frame.snaps[frame.n + 1]
        ttl  == TtlSeconds(frame.policy)
    IN  IF frame.store = "redis"
        THEN /\ redis' = SetKey(redis, snap.key,
                   [value |-> snap.value, fast |-> snap.fast, slow |-> snap.slow,
                    expires |-> IF ttl = None THEN None ELSE clock + ttl * Second,
                    written |-> clock, policy |-> frame.policy])
             /\ UNCHANGED neo4j
        ELSE /\ neo4j' = SetKey(neo4j, snap.key,
                   [value |-> snap.value, fast |-> snap.fast, updated |-> frame.started])
             /\ UNCHANGED redis

\* Ghost: nobody else wrote to the store of a call since it began.
Disturb(w, frame) ==
    flush' = [v \in Flusher |->
                IF v = w THEN frame
                ELSE [flush[v] EXCEPT !.alone = @ /\ flush[v].store # frame.store]]

WriteSnapshot(w) ==
    /\ flush[w].pc = "writing"
    /\ ~Refused(flush[w])
    /\ Put(flush[w])
    /\ Disturb(w, [flush[w] EXCEPT !.n = @ + 1,
                                   !.pc = IF flush[w].n + 1 = Len(flush[w].snaps) THEN "done" ELSE @])
    /\ UNCHANGED <<quad, checkpoints, clock, load, erased, verdict, ops>>

SkipSnapshot(w) ==  \* mutant: the loop goes on after an error
    /\ flush[w].pc = "writing"
    /\ flush' = [flush EXCEPT ![w].n = @ + 1,
                              ![w].pc = IF flush[w].n + 1 = Len(flush[w].snaps) THEN "done" ELSE @]
    /\ UNCHANGED <<quad, checkpoints, clock, redis, neo4j, load, erased, verdict, ops>>

\* The first error ends the call: the connection broke before the write, or
\* after it.
FailWrite(w) ==
    /\ flush[w].pc = "writing"
    /\ \/ /\ flush' = [flush EXCEPT ![w].pc = "failed"]
          /\ UNCHANGED <<redis, neo4j>>
       \/ /\ ~Refused(flush[w])
          /\ Put(flush[w])
          /\ Disturb(w, [flush[w] EXCEPT !.pc = "failed", !.n = @ + 1])
    /\ UNCHANGED <<quad, checkpoints, clock, load, erased, verdict, ops>>

-----------------------------------------------------------------------------
(* load *)

Decayed(c, decay) == (c * decay) \div Scale

\* KEYS, or the rows of the schema's keys.
BeginLoad(store, decay) ==
    /\ Call
    /\ load.pc = "idle"
    /\ IF store = "redis"
       THEN \E keys \in SetToSeqs(DOMAIN redis) :
              load' = [NoLoad EXCEPT !.pc = "get", !.decay = decay, !.keys = keys]
       ELSE load' = [NoLoad EXCEPT !.pc = "gate", !.store = "neo4j", !.decay = decay,
                                   !.rows = Restrict(neo4j, DOMAIN neo4j \cap Schema)]
    /\ UNCHANGED <<quad, checkpoints, clock, redis, neo4j, flush, erased, verdict>>

LoadedNode(k, kept, slow) ==
    [key |-> k, value |-> kept.value, fast |-> Clamp(Decayed(kept.fast, load.decay)), slow |-> slow]

\* GET of the next key; one that is gone by now is passed over.
GetKey ==
    /\ load.pc = "get" /\ load.keys # <<>>
    /\ LET k == Head(load.keys)
       IN  load' = [load EXCEPT
             !.keys = Tail(@),
             !.got = IF k \notin DOMAIN redis THEN @
                     ELSE Append(@, [node |-> LoadedNode(k, redis[k],
                                                IF redis[k].slow = None THEN None
                                                ELSE Decayed(redis[k].slow, load.decay)),
                                     age  |-> clock - redis[k].written,
                                     policy |-> redis[k].policy])]
    /\ UNCHANGED <<quad, checkpoints, clock, redis, neo4j, flush, erased, verdict, ops>>

\* RetentionPolicy::is_expired
IsExpired(policy, since, now) == policy.kind = "Duration" /\ now - since > policy.ticks

UngatedRows == DOMAIN load.rows  \* mutant: the rows are not filtered
LiveRows == {k \in DOMAIN load.rows : ~IsExpired(LoadPolicy, load.rows[k].updated, clock)}

\* The rows are filtered by the clock after they were fetched.
GateRows ==
    /\ load.pc = "gate"
    /\ \E keys \in SetToSeqs(LiveRows) :
         load' = [load EXCEPT !.pc = "get", !.keys = <<>>,
                    !.got = [i \in DOMAIN keys |->
                               [node |-> LoadedNode(keys[i], load.rows[keys[i]], None),
                                age  |-> clock - load.rows[keys[i]].updated,
                                policy |-> LoadPolicy]]]
    /\ UNCHANGED <<quad, checkpoints, clock, redis, neo4j, flush, erased, verdict, ops>>

\* The caller puts what it got into its session.
InsertAll(q, entries) ==
    LET after[i \in 0 .. Len(entries)] ==
          IF i = 0 THEN q ELSE Insert(after[i - 1], entries[i].node)
    IN  after[Len(entries)]

FinishLoad ==
    /\ load.pc = "get" /\ load.keys = <<>>
    /\ quad' = InsertAll(quad, load.got)
    /\ load' = NoLoad
    /\ UNCHANGED <<checkpoints, clock, redis, neo4j, flush, erased, verdict, ops>>

\* One error, or one belief that cannot be decoded, fails the whole load.
FailLoad ==
    /\ load.pc # "idle"
    /\ load' = NoLoad
    /\ UNCHANGED <<quad, checkpoints, clock, redis, neo4j, flush, erased, verdict, ops>>

-----------------------------------------------------------------------------
\* Redis drops a key when its time to live is over.
Tick ==
    /\ clock < MaxClock
    /\ clock' = clock + 1
    /\ redis' = Restrict(redis, {k \in DOMAIN redis : redis[k].expires = None \/ redis[k].expires > clock'})
    /\ UNCHANGED <<quad, checkpoints, neo4j, flush, load, erased, verdict, ops>>

\* Every id a caller may have been given.
Handles == {<<s, g>> : s \in DOMAIN quad.gens, g \in 1 .. Max({1} \cup Range(quad.gens))}

Next ==
    \/ \E node \in Inserted : InsertBelief(node)
    \/ TakeCheckpoint
    \/ \E i \in DOMAIN checkpoints : RollbackTo(checkpoints[i].id)
    \/ Restart
    \/ \E id \in Handles, backends \in {{}, Store} : Forget(id, backends)
    \/ \E w \in Flusher, policy \in Policies : BeginFlush(w, "redis", policy)
    \/ \E w \in Flusher : BeginFlush(w, "neo4j", LoadPolicy)  \* which is not looked at
    \/ \E w \in Flusher : WriteSnapshot(w) \/ FailWrite(w)
    \/ \E store \in Store, decay \in DecayIn : BeginLoad(store, decay)
    \/ GetKey \/ GateRows \/ FinishLoad \/ FailLoad
    \/ Tick

Spec == Init /\ [][Next]_vars

-----------------------------------------------------------------------------
(* Properties *)

\* Type invariant; a key in Redis has time left to live.
TypeOK ==
    /\ quad.nodes \in [Live(quad) -> Node]
    /\ DOMAIN redis \cup DOMAIN neo4j \subseteq Key
    /\ \A k \in DOMAIN redis :
         /\ redis[k].value \in Value /\ redis[k].fast \in Conf
         /\ redis[k].expires # None => redis[k].expires > clock
    /\ \A k \in DOMAIN neo4j : neo4j[k].fast \in Conf /\ neo4j[k].updated <= clock
    /\ \A w \in Flusher : flush[w].n <= Len(flush[w].snaps)
    /\ verdict.remaining \subseteq BeliefId

\* What a store holds of a key, its time to live aside.
Shown(kept) == [value |-> kept.value, fast |-> kept.fast]

\* Of a call whose store nobody else wrote to since it began, whether it is
\* going on, was answered Ok or failed, the store holds the first n snapshots
\* and nothing else of it: of snapshots with one key the later, of other keys
\* what was there before, and nothing that was there is missing but what
\* expired.  Ok means every snapshot.
PrefixWritten ==
    \A w \in Flusher : LET call == flush[w] IN
      (call.pc # "idle" /\ call.alone) =>
        /\ call.pc = "done" => call.n = Len(call.snaps)
        /\ \A k \in Key :
             LET mine == {i \in 1 .. call.n : call.snaps[i].key = k}
                 kept == Kept(call.store)
             IN  IF mine # {}
                 THEN IF k \in DOMAIN kept
                      THEN Shown(kept[k]) = Shown(call.snaps[Max(mine)])
                      ELSE call.store = "redis" /\ TtlSeconds(call.policy) # None
                 ELSE IF k \in DOMAIN kept
                      THEN k \in DOMAIN call.before /\ kept[k] = call.before[k]
                      ELSE k \in DOMAIN call.before =>
                             call.store = "redis" /\ call.before[k].expires # None

\* No load hands out a belief that was kept longer than the retention policy
\* says: with Redis that of the last flush of its key, rounded down to seconds,
\* counted from the write; with Neo4j that of the store, counted from the
\* beginning of the last flush of its key.
LoadedWithinRetention ==
    \A i \in DOMAIN load.got :
      load.got[i].policy.kind = "Duration" => load.got[i].age <= load.got[i].policy.ticks

Nodes(q) == {Content(q.nodes[id]) : id \in Live(q)}

InTable(table) == {[key |-> k, value |-> table[k].value] : k \in DOMAIN table}
Marked(list)   == UNION {Nodes(list[i].quad) : i \in DOMAIN list}
Got(got)       == {Content(got[i].node) : i \in DOMAIN got}
Pending(frame) == {Content(frame.snaps[i]) : i \in frame.n + 1 .. Len(frame.snaps)}
Underway(fs)   == UNION {Pending(fs[w]) : w \in {v \in Flusher : fs[v].pc = "writing"}}

\* Where something erased may still be: the session, its checkpoints, the
\* stores, the calls in progress.
Somewhere ==
    Nodes(quad) \cup Marked(checkpoints) \cup InTable(redis) \cup InTable(neo4j)
      \cup InTable(load.rows) \cup Got(load.got) \cup Underway(flush)

\* An erasure is complete once the checkpoints, the stores and the calls in
\* progress have lost the belief too: from then on only a caller who states it
\* again brings it back, no rollback, load, failed call or restart does.
ErasedForGood ==
    [][\A belief \in erased \cap erased' : belief \notin Somewhere => belief \notin Somewhere']_vars

\* A verdict reports every belief that loses a path of support by the
\* erasure, so after Verified, with or without backends, no belief has lost
\* any; it claims Verified only of a belief that was there and is gone.
LostSupportIsReported ==
    [][\A id \in Handles, backends \in {{}, Store} : Forget(id, backends) =>
         /\ \A other \in Live(quad') :
              SupportPaths(quad', other) # SupportPaths(quad, other) => other \in verdict'.remaining
         /\ verdict'.result = "Verified" => backends = {}
         /\ verdict'.result # "VerificationError" => id \in Live(quad) \ Live(quad')]_vars
=============================================================================

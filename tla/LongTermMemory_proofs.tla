----------------------- MODULE LongTermMemory_proofs -----------------------
(***************************************************************************)
(* What a session leaves behind: a flush that fails, races or expires still *)
(* leaves a prefix of its snapshots, no load outlives the retention policy, *)
(* and what was erased everywhere does not come back.                      *)
(***************************************************************************)
EXTENDS LongTermMemory, QuadOps_proofs

Retention  == Policies \cup {LoadPolicy}
RedisEntry == [value : Value, fast : Conf, slow : Int \cup {None},
               expires : Nat \cup {None}, written : Nat, policy : Retention]
Neo4jEntry == [value : Value, fast : Conf, updated : Nat]
Tables(E)  == UNION {[D -> E] : D \in SUBSET Key}
Loaded     == [node : Node, age : Int, policy : Retention]

-----------------------------------------------------------------------------
(* The session *)

\* insert() of a whole node, as a load makes it.
LEMMA InsertNodeInv ==
    ASSUME NEW q, QuadInv(q), NEW node \in Node
    PROVE  QuadInv(Insert(q, node))
<1> DEFINE k == node.key
           v == node.value
           c == node.fast
           slow == node.slow
<1>1. k \in Key /\ v \in Value /\ c \in Int /\ slow \in Int \cup {None}
    BY QuadAssumption DEF Node, Conf
<1>2. node = [key |-> k, value |-> v, fast |-> c, slow |-> slow]
    BY DEF Node
<1> HIDE DEF k, v, c, slow
<1> QED
    BY <1>1, <1>2, InsertInv

\* ... which adds its content to the session and nothing else.
LEMMA InsertContents ==
    ASSUME NEW q, NEW node \in Node
    PROVE  Nodes(Insert(q, node)) \subseteq Nodes(q) \cup {Content(node)}
<1> DEFINE id == NextId(q)
           r  == Insert(q, node)
<1>1. r.nodes = [i \in Live(q) \cup {id} |->
                   IF i = id THEN [node EXCEPT !.fast = Clamp(@)] ELSE q.nodes[i]]
    BY Zenon DEF Insert
<1> HIDE DEF id, r
<1>2. ASSUME NEW i \in Live(r)
      PROVE  \/ i \in Live(q) /\ r.nodes[i] = q.nodes[i]
             \/ Content(r.nodes[i]) = Content(node)
  <2>1. i \in Live(q) \cup {id}
      BY <1>1 DEF Live
  <2>2. CASE i = id
    <3>1. r.nodes[i] = [node EXCEPT !.fast = Clamp(@)]
        BY <1>1, <2>1, <2>2
    <3> QED
        BY <3>1 DEF Content, Node
  <2>3. CASE i # id
      BY <1>1, <2>1, <2>3
  <2> QED
      BY <2>2, <2>3
<1>3. Nodes(r) \subseteq Nodes(q) \cup {Content(node)}
    BY <1>2 DEF Nodes
<1> QED
    BY <1>3 DEF r

\* A load puts what it got into the session, belief by belief.
LEMMA InsertAllOutcome ==
    ASSUME NEW q, QuadInv(q), NEW entries \in Seq(Loaded)
    PROVE  /\ QuadInv(InsertAll(q, entries))
           /\ Nodes(InsertAll(q, entries))
                \subseteq Nodes(q) \cup {Content(entries[i].node) : i \in DOMAIN entries}
<1> DEFINE n    == Len(entries)
           News == {Content(entries[i].node) : i \in DOMAIN entries}
           S    == {r \in Sound : Nodes(r) \subseteq Nodes(q) \cup News}
           step == [x \in (1 .. n) \X S |-> Insert(x[2], entries[x[1]].node)]
           Inserts(m) == m = [i \in 0 .. n |-> IF i = 0 THEN q
                                               ELSE Insert(m[i - 1], entries[i].node)]
<1>1. n \in Nat /\ DOMAIN entries = 1 .. n /\ \A i \in 1 .. n : entries[i].node \in Node
  <2>1. \A e \in Loaded : e.node \in Node
      BY DEF Loaded
  <2>2. n \in Nat /\ DOMAIN entries = 1 .. n /\ \A i \in 1 .. n : entries[i] \in Loaded
      OBVIOUS
  <2> QED
      BY <2>1, <2>2
<1>2. ASSUME NEW i \in 1 .. n, NEW r \in S PROVE Insert(r, entries[i].node) \in S
  <2>1. QuadInv(r) /\ Nodes(r) \subseteq Nodes(q) \cup News
      BY DEF Sound
  <2> HIDE DEF n
  <2>2. entries[i].node \in Node /\ Content(entries[i].node) \in News
      BY <1>1
  <2>3. QuadInv(Insert(r, entries[i].node))
      BY <2>1, <2>2, InsertNodeInv
  <2>4. Nodes(Insert(r, entries[i].node)) \subseteq Nodes(r) \cup {Content(entries[i].node)}
      BY <2>2, InsertContents
  <2> HIDE DEF News
  <2> QED
      BY <2>1, <2>2, <2>3, <2>4, SoundQuads
<1>3. step \in Steps(n, S) /\ q \in S
    BY <1>2, SoundQuads DEF Steps
<1>4. \A i \in 1 .. n, r \in S : step[<<i, r>>] = Insert(r, entries[i].node)
    OBVIOUS
<1> HIDE DEF step, S, n
<1>5. PICK f : Iterates(f, n, S, q, step)
    BY <1>1, <1>3, SegmentRecursion
<1>6. Inserts(f)
  <2> SUFFICES ASSUME NEW i \in 0 .. n
               PROVE  f[i] = IF i = 0 THEN q ELSE Insert(f[i - 1], entries[i].node)
      BY <1>5 DEF Iterates
  <2>1. CASE i = 0
      BY <1>5, <2>1 DEF Iterates
  <2>2. CASE i # 0
    <3>1. i \in 1 .. n /\ i - 1 \in 0 .. n
        BY <1>1, <2>2
    <3>2. f[i - 1] \in S /\ f[i] = step[<<i, f[i - 1]>>]
        BY <1>5, <3>1 DEF Iterates
    <3> QED
        BY <1>4, <2>2, <3>1, <3>2
  <2> QED
      BY <2>1, <2>2
<1>7. ASSUME NEW m, Inserts(m) PROVE m[n] \in S
  <2> DEFINE T == {i \in 0 .. n : m[i] \in S}
  <2>1. \A i \in 0 .. n : m[i] = IF i = 0 THEN q ELSE Insert(m[i - 1], entries[i].node)
      BY <1>7
  <2>2. 0 \in T
    <3>1. 0 \in 0 .. n /\ m[0] = q
        BY <1>1, <2>1
    <3> QED
        BY <1>3, <3>1
  <2>3. ASSUME NEW i \in 0 .. n - 1, i \in T PROVE i + 1 \in T
    <3>1. i + 1 \in 0 .. n /\ i + 1 \in 1 .. n /\ i + 1 # 0 /\ (i + 1) - 1 = i
        BY <1>1
    <3>2. m[i + 1] = Insert(m[i], entries[i + 1].node)
        BY <2>1, <3>1
    <3> QED
        BY <1>2, <2>3, <3>1, <3>2
  <2> HIDE DEF T
  <2>4. 0 .. n \subseteq T
      BY <1>1, <2>2, <2>3, SegmentInduction
  <2> QED
      BY <1>1, <2>4 DEF T
<1> DEFINE after == CHOOSE m : Inserts(m)
<1>8. InsertAll(q, entries) = after[n]
    BY Zenon DEF InsertAll, n
<1>9. Inserts(after)
  <2> HIDE DEF Inserts
  <2> QED
      BY <1>6, Zenon
<1> HIDE DEF Inserts, after
<1>10. InsertAll(q, entries) \in S
    BY <1>7, <1>8, <1>9
<1> QED
    BY <1>10 DEF S, Sound

\* The snapshots of a session are of beliefs it holds.
LEMMA SnapshotsType ==
    ASSUME QuadInv(quad)
    PROVE  SessionSnapshots \in Seq({quad.nodes[id] : id \in Live(quad)})
<1> DEFINE gens == quad.gens
           n == Len(gens)
           M == {quad.nodes[id] : id \in Live(quad)}
           Next1(s, t) == IF <<s, gens[s]>> \in Live(quad)
                          THEN Append(t, quad.nodes[<<s, gens[s]>>]) ELSE t
           step == [x \in (1 .. n) \X Seq(M) |-> Next1(x[1], x[2])]
           Takes(m) == m = [s \in 0 .. n |-> IF s = 0 THEN <<>> ELSE Next1(s, m[s - 1])]
<1>1. n \in Nat
    BY DEF QuadInv, IsQuad
<1>2. \A s : \A t \in Seq(M) : Next1(s, t) \in Seq(M)
    OBVIOUS
<1> HIDE DEF Next1, M, n
<1>3. step \in Steps(n, Seq(M)) /\ <<>> \in Seq(M)
    BY <1>2 DEF Steps
<1>4. \A i \in 1 .. n, t \in Seq(M) : step[<<i, t>>] = Next1(i, t)
    OBVIOUS
<1> HIDE DEF step
<1>5. PICK f : Iterates(f, n, Seq(M), <<>>, step)
    BY <1>1, <1>3, SegmentRecursion
<1>6. Takes(f)
  <2> SUFFICES ASSUME NEW i \in 0 .. n
               PROVE  f[i] = IF i = 0 THEN <<>> ELSE Next1(i, f[i - 1])
      BY <1>5 DEF Iterates
  <2>1. CASE i = 0
      BY <1>5, <2>1 DEF Iterates
  <2>2. CASE i # 0
    <3>1. i \in 1 .. n /\ i - 1 \in 0 .. n
        BY <1>1, <2>2
    <3>2. f[i - 1] \in Seq(M) /\ f[i] = step[<<i, f[i - 1]>>]
        BY <1>5, <3>1 DEF Iterates
    <3> QED
        BY <1>4, <2>2, <3>1, <3>2
  <2> QED
      BY <2>1, <2>2
<1>7. ASSUME NEW m, Takes(m) PROVE m[n] \in Seq(M)
  <2> DEFINE T == {i \in 0 .. n : m[i] \in Seq(M)}
  <2>1. \A i \in 0 .. n : m[i] = IF i = 0 THEN <<>> ELSE Next1(i, m[i - 1])
      BY <1>7
  <2>2. 0 \in T
    <3>1. 0 \in 0 .. n /\ m[0] = <<>>
        BY <1>1, <2>1
    <3> QED
        BY <1>3, <3>1
  <2>3. ASSUME NEW i \in 0 .. n - 1, i \in T PROVE i + 1 \in T
    <3>1. i + 1 \in 0 .. n /\ i + 1 # 0 /\ (i + 1) - 1 = i
        BY <1>1
    <3>2. m[i + 1] = Next1(i + 1, m[i])
        BY <2>1, <3>1
    <3> QED
        BY <1>2, <2>3, <3>1, <3>2
  <2> HIDE DEF T
  <2>4. 0 .. n \subseteq T
      BY <1>1, <2>2, <2>3, SegmentInduction
  <2> QED
      BY <1>1, <2>4 DEF T
<1> DEFINE upto == CHOOSE m : Takes(m)
<1>8. SessionSnapshots = upto[n]
    BY Zenon DEF SessionSnapshots, n, Next1
<1>9. Takes(upto)
  <2> HIDE DEF Takes
  <2> QED
      BY <1>6, Zenon
<1> HIDE DEF Takes, upto
<1> QED
    BY <1>7, <1>8, <1>9 DEF M

-----------------------------------------------------------------------------
(* The invariant *)

Frames == [pc : {"idle", "writing", "done", "failed"}, store : Store,
           policy : Retention, started : Nat, snaps : Seq(Node), n : Nat,
           before : Tables(RedisEntry \cup Neo4jEntry), alone : BOOLEAN]
Loads  == [pc : {"idle", "get", "gate"}, store : Store, decay : Conf,
           keys : Seq(Key), rows : Tables(Neo4jEntry), got : Seq(Loaded)]

SessionOK == QuadInv(quad) /\ checkpoints \in Seq(Marks) /\ ops \in Nat

\* A key in Redis has time left to live, what its policy gave it when it was
\* written, in whole seconds.
StoresOK ==
    /\ clock \in Nat
    /\ redis \in Tables(RedisEntry) /\ IsFiniteSet(DOMAIN redis)
    /\ neo4j \in Tables(Neo4jEntry) /\ IsFiniteSet(DOMAIN neo4j)
    /\ \A k \in DOMAIN redis :
         /\ redis[k].expires # None => redis[k].expires > clock
         /\ redis[k].policy.kind = "Duration" =>
              redis[k].expires
                = redis[k].written + Second * (redis[k].policy.ticks \div Second)
    /\ \A k \in DOMAIN neo4j : neo4j[k].updated <= clock

\* What a call that nobody disturbed has left of a key in what its store has
\* kept: its last snapshot of it, with a time to live if its policy has one, or
\* what was there before.
Left(call, kept, k) ==
    LET mine == {i \in 1 .. call.n : call.snaps[i].key = k}
    IN  IF mine # {}
        THEN IF k \in DOMAIN kept
             THEN /\ Shown(kept[k]) = Shown(call.snaps[Max(mine)])
                  /\ call.store = "redis" =>
                       (kept[k].expires = None <=> TtlSeconds(call.policy) = None)
             ELSE call.store = "redis" /\ TtlSeconds(call.policy) # None
        ELSE IF k \in DOMAIN kept
             THEN k \in DOMAIN call.before /\ kept[k] = call.before[k]
             ELSE k \in DOMAIN call.before =>
                    call.store = "redis" /\ call.before[k].expires # None

CallOK(call, kept, now) ==
    /\ call.n <= Len(call.snaps) /\ call.started <= now
    /\ call.pc = "writing" => call.n < Len(call.snaps)
    /\ call.pc = "done" => call.n = Len(call.snaps)
    /\ (call.pc # "idle" /\ call.alone) => \A k \in Key : Left(call, kept, k)

FlushOK ==
    /\ flush \in [Flusher -> Frames]
    /\ \A w \in Flusher : CallOK(flush[w], Kept(flush[w].store), clock)

LoadOK == load \in Loads /\ IsFiniteSet(DOMAIN load.rows) /\ LoadedWithinRetention

VerdictOK == verdict.remaining \subseteq BeliefId

Inv == SessionOK /\ StoresOK /\ FlushOK /\ LoadOK /\ VerdictOK

LEMMA PolicyType ==
    /\ \A p \in Retention : p.ticks \in Nat /\ TtlSeconds(p) \in Nat \cup {None}
    /\ \A p \in Retention : p.kind = "Duration" => TtlSeconds(p) = p.ticks \div Second
    /\ Second \in Nat \ {0} /\ LoadPolicy \in Retention /\ Policies \subseteq Retention
    /\ None \notin Int
<1>1. Second \in Nat \ {0} /\ SessionTtl \in Nat
    BY MemoryAssumption
<1>2. \A p \in Retention : p.ticks \in Nat
    BY MemoryAssumption DEF Retention
<1>3. \A p \in Retention : TtlSeconds(p) \in Nat \cup {None}
    BY <1>1, <1>2, DivFloor DEF TtlSeconds
<1> QED
    BY <1>1, <1>2, <1>3, QuadAssumption DEF TtlSeconds, Retention

LEMMA InitInv == Init => Inv
<1> SUFFICES ASSUME Init PROVE Inv
    OBVIOUS
<1> USE DEF Init
<1>1. SessionOK
    BY MemoryAssumption DEF SessionOK
<1> DEFINE none == [k \in {} |-> None]
<1>2. \A E : none \in Tables(E)
    BY DEF Tables
<1>3. DOMAIN none = {} /\ IsFiniteSet(DOMAIN none)
    BY FS_EmptySet
<1>4. StoresOK
    BY <1>2, <1>3 DEF StoresOK
<1>5. FlushOK
  <2>1. NoFlush \in Frames
      BY <1>2, PolicyType DEF NoFlush, Frames, Store
  <2>2. \A kept : CallOK(NoFlush, kept, clock)
      BY DEF NoFlush, CallOK
  <2> QED
      BY <2>1, <2>2 DEF FlushOK
<1>6. LoadOK
  <2>1. NoLoad \in Loads
      BY <1>2, QuadAssumption DEF NoLoad, Loads, Store, Conf
  <2>2. load.got = <<>> /\ load.rows = none
      BY DEF NoLoad
  <2> QED
      BY <1>3, <2>1, <2>2 DEF LoadOK, LoadedWithinRetention
<1>7. VerdictOK
    BY DEF VerdictOK, NoVerdict
<1> QED
    BY <1>1, <1>4, <1>5, <1>6, <1>7 DEF Inv

-----------------------------------------------------------------------------
(* The session and the verdicts *)

LEMMA SessionStep == Inv /\ [Next]_vars => SessionOK'
<1> SUFFICES ASSUME Inv, [Next]_vars PROVE SessionOK'
    OBVIOUS
<1>1. QuadInv(quad) /\ checkpoints \in Seq(Marks) /\ ops \in Nat
    BY DEF Inv, SessionOK
<1>2. \/ UNCHANGED <<quad, checkpoints, ops>>
      \/ \E node \in Inserted : InsertBelief(node)
      \/ TakeCheckpoint
      \/ \E i \in DOMAIN checkpoints : RollbackTo(checkpoints[i].id)
      \/ Restart
      \/ \E id \in Handles, backends \in {{}, Store} : Forget(id, backends)
      \/ UNCHANGED <<quad, checkpoints>> /\ Call
      \/ FinishLoad
  <2>1. CASE UNCHANGED vars
      BY <2>1 DEF vars
  <2>2. CASE Next
      BY <2>2, Zenon DEF Next, BeginFlush, WriteSnapshot, FailWrite, BeginLoad, GetKey, GateRows,
                         FailLoad, Tick
  <2> QED
      BY <2>1, <2>2
<1>3. ASSUME Call PROVE ops' \in Nat
    BY <1>1, <1>3 DEF Call
<1>4. ASSUME QuadInv(quad'), checkpoints' \in Seq(Marks), ops' \in Nat PROVE SessionOK'
    BY <1>4 DEF SessionOK, QuadInv, IsQuad, Finite, ArenaSound, ProjectionsAgree, Live
<1>5. CASE UNCHANGED <<quad, checkpoints, ops>>
    BY <1>1, <1>4, <1>5
<1>6. ASSUME NEW node \in Inserted, InsertBelief(node) PROVE SessionOK'
  <2>1. node \in Node
      BY MemoryAssumption
  <2> QED
      BY <1>1, <1>3, <1>4, <1>6, <2>1, InsertNodeInv DEF InsertBelief
<1>7. CASE TakeCheckpoint
  <2> DEFINE mark == [id |-> ops, quad |-> quad]
  <2>1. mark \in Marks
      BY <1>1, SoundQuads DEF Marks
  <2>2. checkpoints' = Append(checkpoints, mark)
      BY <1>7 DEF TakeCheckpoint
  <2> HIDE DEF mark
  <2>3. checkpoints' \in Seq(Marks)
      BY <1>1, <2>1, <2>2
  <2> QED
      BY <1>1, <1>3, <1>4, <1>7, <2>3 DEF TakeCheckpoint
<1>8. ASSUME NEW cp, RollbackTo(cp) PROVE SessionOK'
  <2> DEFINE out == Rollback(quad, checkpoints, cp)
  <2>1. QuadInv(out.quad) /\ out.checkpoints \in Seq(Marks)
      BY <1>1, RollbackType
  <2>2. quad' = out.quad /\ checkpoints' = out.checkpoints /\ Call
      BY <1>8 DEF RollbackTo
  <2> HIDE DEF out
  <2> QED
      BY <1>3, <1>4, <2>1, <2>2
<1>9. CASE Restart
    BY <1>1, <1>4, <1>9, EmptyQuadInv DEF Restart
<1>10. ASSUME NEW id, NEW backends, Forget(id, backends) PROVE SessionOK'
  <2>1. quad' = RemoveOne(quad, id) /\ checkpoints' = checkpoints /\ Call
      BY <1>10 DEF Forget, Execute
  <2> QED
      BY <1>1, <1>3, <1>4, <2>1, RemoveOneInv
<1>11. CASE UNCHANGED <<quad, checkpoints>> /\ Call
    BY <1>1, <1>3, <1>4, <1>11
<1>12. CASE FinishLoad
  <2>1. load.got \in Seq(Loaded)
      BY DEF Inv, LoadOK, Loads
  <2> QED
      BY <1>1, <1>4, <1>12, <2>1, InsertAllOutcome DEF FinishLoad
<1> QED
    BY <1>2, <1>5, <1>6, <1>7, <1>8, <1>9, <1>10, <1>11, <1>12

LEMMA VerdictStep == Inv /\ [Next]_vars => VerdictOK'
<1> SUFFICES ASSUME Inv, [Next]_vars PROVE VerdictOK'
    OBVIOUS
<1>1. \/ UNCHANGED verdict
      \/ \E id \in Handles, backends \in {{}, Store} : Forget(id, backends)
  <2>1. CASE UNCHANGED vars
      BY <2>1 DEF vars
  <2>2. CASE Next
      BY <2>2, Zenon DEF Next, InsertBelief, TakeCheckpoint, RollbackTo, Restart, BeginFlush,
                         WriteSnapshot, FailWrite, BeginLoad, GetKey, GateRows, FinishLoad,
                         FailLoad, Tick
  <2> QED
      BY <2>1, <2>2
<1>2. ASSUME NEW id, NEW backends, Forget(id, backends) PROVE VerdictOK'
  <2> DEFINE v == CausalVerify(id, quad)
  <2>1. v.remaining \subseteq BeliefId
    <3>1. Descendants(quad, id) \subseteq BeliefId
        BY DescendantsLive DEF Inv, SessionOK, QuadInv, IsQuad
    <3> QED
        BY <3>1 DEF CausalVerify, NoVerdict
  <2>2. verdict' = IF backends # {} /\ v.result = "Verified"
                   THEN [NoVerdict EXCEPT !.result = "PersistenceNotVerified",
                                          !.backends = backends]
                   ELSE v
      BY <1>2 DEF Forget, Execute
  <2> HIDE DEF v
  <2> QED
      BY <2>1, <2>2 DEF VerdictOK, NoVerdict
<1> QED
    BY <1>1, <1>2 DEF Inv, VerdictOK

-----------------------------------------------------------------------------
(* The stores *)

LEMMA TableType ==
    ASSUME NEW E, NEW f \in Tables(E)
    PROVE  /\ DOMAIN f \in SUBSET Key /\ \A k \in DOMAIN f : f[k] \in E
           /\ \A D : Restrict(f, DOMAIN f \cap D) \in Tables(E)
           /\ \A D \in SUBSET DOMAIN f : Restrict(f, D) \in Tables(E)
           /\ \A k \in Key, x \in E : SetKey(f, k, x) \in Tables(E)
<1>1. PICK A \in SUBSET Key : f \in [A -> E]
    BY DEF Tables
<1>2. \A D \in SUBSET A : Restrict(f, D) \in [D -> E]
    BY <1>1 DEF Restrict
<1>3. \A k \in Key, x \in E : SetKey(f, k, x) \in [A \cup {k} -> E]
    BY <1>1 DEF SetKey
<1>4. \A D \in SUBSET Key : [D -> E] \subseteq Tables(E)
    BY DEF Tables
<1>5. DOMAIN f = A /\ \A k \in A : f[k] \in E
    BY <1>1
<1>6. \A D \in SUBSET A : Restrict(f, D) \in Tables(E)
    BY <1>2, <1>4
<1>7. ASSUME NEW k \in Key, NEW x \in E PROVE SetKey(f, k, x) \in Tables(E)
  <2>1. SetKey(f, k, x) \in [A \cup {k} -> E]
      BY <1>3
  <2>2. A \cup {k} \in SUBSET Key
      OBVIOUS
  <2>3. [A \cup {k} -> E] \subseteq Tables(E)
      BY <1>4, <2>2, Zenon
  <2> QED
      BY <2>1, <2>3, Zenon
<1> QED
    BY <1>5, <1>6, <1>7

\* What a write of a frame's next snapshot puts into Redis.
Written(frame) ==
    LET snap == frame.snaps[frame.n + 1]
        ttl  == TtlSeconds(frame.policy)
    IN  [value |-> snap.value, fast |-> snap.fast, slow |-> snap.slow,
         expires |-> IF ttl = None THEN None ELSE clock + ttl * Second,
         written |-> clock, policy |-> frame.policy]

\* ... and into Neo4j.
Merged(frame) ==
    LET snap == frame.snaps[frame.n + 1]
    IN  [value |-> snap.value, fast |-> snap.fast, updated |-> frame.started]

LEMMA PutSets ==
    ASSUME NEW frame, Put(frame)
    PROVE  LET k == frame.snaps[frame.n + 1].key
           IN  /\ frame.store = "redis" => redis' = SetKey(redis, k, Written(frame)) /\ neo4j' = neo4j
               /\ frame.store # "redis" => neo4j' = SetKey(neo4j, k, Merged(frame)) /\ redis' = redis
BY DEF Put, Written, Merged

\* An entry Redis accepts has time to live, counted from now.
LEMMA EntryType ==
    ASSUME StoresOK, NEW frame \in Frames, frame.n < Len(frame.snaps), frame.started <= clock
    PROVE  /\ frame.snaps[frame.n + 1] \in Node
           /\ Merged(frame) \in Neo4jEntry /\ Merged(frame).updated <= clock
           /\ Written(frame) \in RedisEntry
           /\ Written(frame).policy.kind = "Duration" =>
                Written(frame).expires
                  = Written(frame).written + Second * (Written(frame).policy.ticks \div Second)
           /\ (Written(frame).expires = None <=> TtlSeconds(frame.policy) = None)
           /\ (frame.store = "redis" /\ ~Refused(frame)) =>
                (Written(frame).expires # None => Written(frame).expires > clock)
<1> DEFINE snap == frame.snaps[frame.n + 1]
           ttl  == TtlSeconds(frame.policy)
           x    == Written(frame)
           until == IF ttl = None THEN None ELSE clock + ttl * Second
<1>1. frame.snaps \in Seq(Node) /\ frame.n \in Nat /\ frame.policy \in Retention
        /\ frame.started \in Nat /\ clock \in Nat
    BY DEF Frames, StoresOK
<1>2. snap \in Node
    BY <1>1
<1>3. snap.value \in Value /\ snap.fast \in Conf /\ snap.slow \in Int \cup {None}
    BY <1>2 DEF Node
<1>4. ttl \in Nat \cup {None} /\ Second \in Nat \ {0} /\ None \notin Int
    BY <1>1, PolicyType
<1>5. frame.policy.kind = "Duration" => ttl = frame.policy.ticks \div Second
    BY <1>1, PolicyType
<1>6. frame.policy.ticks \in Nat
    BY <1>1, PolicyType
<1>7. x = [value |-> snap.value, fast |-> snap.fast, slow |-> snap.slow,
           expires |-> until, written |-> clock, policy |-> frame.policy]
    BY DEF Written
<1>8. Merged(frame) = [value |-> snap.value, fast |-> snap.fast, updated |-> frame.started]
    BY DEF Merged
<1>9. (frame.store = "redis" /\ ~Refused(frame)) => ttl # 0
    BY DEF Refused
<1> HIDE DEF snap, ttl, x
<1>10. ttl # None => /\ ttl * Second \in Nat /\ ttl * Second = Second * ttl
                     /\ ttl # 0 => ttl * Second > 0
  <2> SUFFICES ASSUME ttl # None
               PROVE  ttl * Second \in Nat /\ ttl * Second = Second * ttl
                      /\ (ttl # 0 => ttl * Second > 0)
      OBVIOUS
  <2>1. ttl \in Nat /\ Second \in Nat
      BY <1>4
  <2>2. ttl # 0 => ttl * Second \in Nat \ {0}
      BY <1>4, <2>1, TimesPositive
  <2> QED
      BY <2>1, <2>2
<1>11. until \in Nat \cup {None} /\ (until = None <=> ttl = None)
    BY <1>1, <1>4, <1>10
<1>12. ttl # 0 => (until # None => until > clock)
    BY <1>1, <1>10
<1>13. frame.policy.kind = "Duration" =>
         until = clock + Second * (frame.policy.ticks \div Second)
  <2> SUFFICES ASSUME frame.policy.kind = "Duration"
               PROVE  until = clock + Second * (frame.policy.ticks \div Second)
      OBVIOUS
  <2>1. ttl = frame.policy.ticks \div Second /\ ttl \in Nat
      BY <1>4, <1>5, <1>6, DivFloor
  <2>2. ttl # None
      BY <1>4, <2>1
  <2> QED
      BY <1>10, <2>1, <2>2
<1> HIDE DEF until
<1>14. x \in RedisEntry
    BY <1>1, <1>3, <1>7, <1>11 DEF RedisEntry
<1>15. Merged(frame) \in Neo4jEntry /\ Merged(frame).updated <= clock
    BY <1>1, <1>3, <1>8 DEF Neo4jEntry
<1>16. x.policy = frame.policy /\ x.expires = until /\ x.written = clock
    BY <1>7
<1> QED
    BY <1>2, <1>9, <1>11, <1>12, <1>13, <1>14, <1>15, <1>16 DEF snap, ttl, x

\* A write leaves a store it may have.
LEMMA PutStores ==
    ASSUME StoresOK, NEW frame \in Frames, frame.n < Len(frame.snaps), frame.started <= clock,
           ~Refused(frame), Put(frame), clock' = clock
    PROVE  StoresOK'
<1> DEFINE k == frame.snaps[frame.n + 1].key
           x == Written(frame)
           y == Merged(frame)
<1>1. frame.snaps[frame.n + 1] \in Node
    BY EntryType
<1>2. k \in Key
    BY <1>1 DEF Node
<1>3. y \in Neo4jEntry /\ y.updated <= clock
    BY EntryType
<1>4. x \in RedisEntry /\ (x.policy.kind = "Duration" =>
                             x.expires = x.written + Second * (x.policy.ticks \div Second))
    BY EntryType
<1>5. frame.store = "redis" => (x.expires # None => x.expires > clock)
    BY EntryType
<1>6. /\ frame.store = "redis" => redis' = SetKey(redis, k, x) /\ neo4j' = neo4j
      /\ frame.store # "redis" => neo4j' = SetKey(neo4j, k, y) /\ redis' = redis
    BY PutSets
<1> HIDE DEF k, x, y
<1>7. CASE frame.store = "redis"
  <2>1. redis' \in Tables(RedisEntry)
      BY <1>2, <1>4, <1>6, <1>7, TableType DEF StoresOK
  <2>2. DOMAIN redis' = DOMAIN redis \cup {k}
      BY <1>6, <1>7 DEF SetKey
  <2>3. IsFiniteSet(DOMAIN redis')
      BY <2>2, FS_AddElement DEF StoresOK
  <2>4. \A j \in DOMAIN redis' : redis'[j] = IF j = k THEN x ELSE redis[j]
      BY <1>6, <1>7 DEF SetKey
  <2> QED
      BY <1>4, <1>5, <1>6, <1>7, <2>1, <2>2, <2>3, <2>4 DEF StoresOK
<1>8. CASE frame.store # "redis"
  <2>1. neo4j' \in Tables(Neo4jEntry)
      BY <1>2, <1>3, <1>6, <1>8, TableType DEF StoresOK
  <2>2. DOMAIN neo4j' = DOMAIN neo4j \cup {k}
      BY <1>6, <1>8 DEF SetKey
  <2>3. IsFiniteSet(DOMAIN neo4j')
      BY <2>2, FS_AddElement DEF StoresOK
  <2>4. \A j \in DOMAIN neo4j' : neo4j'[j] = IF j = k THEN y ELSE neo4j[j]
      BY <1>6, <1>8 DEF SetKey
  <2> QED
      BY <1>3, <1>6, <1>8, <2>1, <2>2, <2>3, <2>4 DEF StoresOK
<1> QED
    BY <1>7, <1>8

LEMMA StoresStep == Inv /\ [Next]_vars => StoresOK'
<1> SUFFICES ASSUME Inv, [Next]_vars PROVE StoresOK'
    OBVIOUS
<1>1. \/ UNCHANGED <<clock, redis, neo4j>>
      \/ \E w \in Flusher : WriteSnapshot(w) \/ FailWrite(w)
      \/ Tick
  <2>1. CASE UNCHANGED vars
      BY <2>1 DEF vars
  <2>2. CASE Next
      BY <2>2, Zenon DEF Next, InsertBelief, TakeCheckpoint, RollbackTo, Restart, Forget,
                         BeginFlush, BeginLoad, GetKey, GateRows, FinishLoad, FailLoad
  <2> QED
      BY <2>1, <2>2
<1>2. CASE UNCHANGED <<clock, redis, neo4j>>
    BY <1>2 DEF Inv, StoresOK
<1>3. ASSUME NEW w \in Flusher, WriteSnapshot(w) \/ FailWrite(w) PROVE StoresOK'
  <2>1. flush[w] \in Frames /\ CallOK(flush[w], Kept(flush[w].store), clock) /\ StoresOK
      BY DEF Inv, FlushOK
  <2>2. flush[w].pc = "writing" /\ clock' = clock
      BY <1>3 DEF WriteSnapshot, FailWrite
  <2>3. flush[w].n < Len(flush[w].snaps) /\ flush[w].started <= clock
      BY <2>1, <2>2 DEF CallOK
  <2>4. \/ UNCHANGED <<redis, neo4j>>
        \/ ~Refused(flush[w]) /\ Put(flush[w])
      BY <1>3 DEF WriteSnapshot, FailWrite
  <2>5. CASE UNCHANGED <<redis, neo4j>>
      BY <2>1, <2>2, <2>5 DEF StoresOK
  <2>6. CASE ~Refused(flush[w]) /\ Put(flush[w])
      BY <2>1, <2>2, <2>3, <2>6, PutStores
  <2> QED
      BY <2>4, <2>5, <2>6
<1>4. CASE Tick
  <2> DEFINE D == {k \in DOMAIN redis : redis[k].expires = None \/ redis[k].expires > clock'}
  <2>1. StoresOK /\ clock' = clock + 1 /\ redis' = Restrict(redis, D) /\ neo4j' = neo4j
      BY <1>4 DEF Tick, Inv
  <2>2. D \in SUBSET DOMAIN redis /\ DOMAIN redis' = D /\ \A k \in D : redis'[k] = redis[k]
      BY <2>1 DEF Restrict
  <2>3. \A k \in D : redis[k].expires # None => redis[k].expires > clock'
      OBVIOUS
  <2> HIDE DEF D
  <2>4. redis' \in Tables(RedisEntry) /\ IsFiniteSet(DOMAIN redis')
      BY <2>1, <2>2, TableType, FS_Subset DEF StoresOK
  <2>5. \A k \in DOMAIN neo4j : neo4j[k].updated <= clock'
    <3>1. \A k \in DOMAIN neo4j : neo4j[k] \in Neo4jEntry
        BY <2>1, TableType DEF StoresOK
    <3> QED
        BY <2>1, <3>1 DEF StoresOK, Neo4jEntry
  <2> QED
      BY <2>1, <2>2, <2>3, <2>4, <2>5 DEF StoresOK
<1> QED
    BY <1>1, <1>2, <1>3, <1>4

-----------------------------------------------------------------------------
(* Loads *)

\* A confidence decays to one.
LEMMA DecayedType ==
    ASSUME NEW decay \in Conf, NEW c \in Int
    PROVE  Decayed(c, decay) \in Int
<1>1. decay \in Int /\ Scale \in Nat \ {0}
    BY QuadAssumption DEF Conf
<1>2. c * decay \in Int
    BY <1>1
<1> DEFINE p == c * decay
<1> HIDE DEF p
<1>3. p \in Int => p \div Scale \in Int
    BY <1>1
<1> QED
    BY <1>2, <1>3 DEF Decayed, p

LEMMA LoadedNodeType ==
    ASSUME NEW k \in Key, NEW kept, kept.value \in Value, kept.fast \in Conf,
           NEW slow \in Int \cup {None}, load.decay \in Conf
    PROVE  LoadedNode(k, kept, slow) \in Node
<1>1. Decayed(kept.fast, load.decay) \in Int
    BY DecayedType, QuadAssumption DEF Conf
<1>2. Clamp(Decayed(kept.fast, load.decay)) \in Conf
    BY <1>1, ClampType
<1> QED
    BY <1>2 DEF LoadedNode, Node

\* What GET of a key yields has not outlived its policy: its time to live is
\* the whole seconds of it.
LEMMA GotInTime ==
    ASSUME StoresOK, load.decay \in Conf, NEW k \in DOMAIN redis
    PROVE  LET entry == [node |-> LoadedNode(k, redis[k],
                                     IF redis[k].slow = None THEN None
                                     ELSE Decayed(redis[k].slow, load.decay)),
                         age  |-> clock - redis[k].written,
                         policy |-> redis[k].policy]
           IN  /\ entry \in Loaded
               /\ entry.policy.kind = "Duration" => entry.age <= entry.policy.ticks
<1> DEFINE x    == redis[k]
           slow == IF x.slow = None THEN None ELSE Decayed(x.slow, load.decay)
           node == LoadedNode(k, x, slow)
           t    == x.policy.ticks
<1>1. x \in RedisEntry /\ k \in Key /\ clock \in Nat
    BY TableType DEF StoresOK
<1>2. x.value \in Value /\ x.fast \in Conf /\ x.slow \in Int \cup {None} /\ x.written \in Nat
        /\ x.policy \in Retention /\ x.expires \in Nat \cup {None}
    BY <1>1 DEF RedisEntry
<1>3. /\ x.expires # None => x.expires > clock
      /\ x.policy.kind = "Duration" => x.expires = x.written + Second * (t \div Second)
    BY DEF StoresOK
<1> HIDE DEF x
<1>4. slow \in Int \cup {None}
    BY <1>2, DecayedType
<1> HIDE DEF slow
<1>5. node \in Node
    BY <1>1, <1>2, <1>4, LoadedNodeType
<1> HIDE DEF node
<1>6. t \in Nat /\ Second \in Nat \ {0} /\ None \notin Int
    BY <1>2, PolicyType
<1>7. t \div Second \in Nat /\ Second * (t \div Second) <= t
    BY <1>6, DivFloor
<1> HIDE DEF t
<1>8. x.policy.kind = "Duration" => clock - x.written <= t
  <2> SUFFICES ASSUME x.policy.kind = "Duration" PROVE clock - x.written <= t
      OBVIOUS
  <2> DEFINE m == Second * (t \div Second)
  <2>1. m \in Int /\ m <= t
      BY <1>6, <1>7
  <2>2. x.expires = x.written + m
      BY <1>3
  <2> HIDE DEF m
  <2>3. x.expires # None
      BY <1>2, <1>6, <2>1, <2>2
  <2> QED
      BY <1>1, <1>2, <1>3, <1>6, <2>1, <2>2, <2>3
<1>9. clock - x.written \in Int
    BY <1>1, <1>2
<1> QED
    BY <1>2, <1>5, <1>8, <1>9 DEF Loaded, node, slow, x, t

\* The rows a load keeps are within the store's policy when they are handed on.
LEMMA RowInTime ==
    ASSUME clock \in Nat, load \in Loads, NEW k \in LiveRows
    PROVE  LET entry == [node |-> LoadedNode(k, load.rows[k], None),
                         age  |-> clock - load.rows[k].updated, policy |-> LoadPolicy]
           IN  /\ entry \in Loaded
               /\ entry.policy.kind = "Duration" => entry.age <= entry.policy.ticks
<1> DEFINE x == load.rows[k]
<1>1. load.rows \in Tables(Neo4jEntry) /\ load.decay \in Conf /\ k \in DOMAIN load.rows
    BY DEF Loads, LiveRows
<1>2. x \in Neo4jEntry /\ k \in Key
    BY <1>1, TableType
<1>3. x.value \in Value /\ x.fast \in Conf /\ x.updated \in Nat
    BY <1>2 DEF Neo4jEntry
<1>4. ~IsExpired(LoadPolicy, x.updated, clock)
    BY DEF LiveRows
<1>5. LoadPolicy \in Retention /\ LoadPolicy.ticks \in Nat
    BY PolicyType
<1> HIDE DEF x
<1>6. LoadedNode(k, x, None) \in Node
    BY <1>1, <1>2, <1>3, LoadedNodeType
<1>7. clock - x.updated \in Int
    BY <1>3
<1>8. LoadPolicy.kind = "Duration" => clock - x.updated <= LoadPolicy.ticks
    BY <1>3, <1>4, <1>5 DEF IsExpired
<1> QED
    BY <1>5, <1>6, <1>7, <1>8 DEF Loaded, x

\* A load that keeps what it got, or gets something within its retention, stays
\* well-formed.
LEMMA LoadGets ==
    ASSUME load' \in Loads, IsFiniteSet(DOMAIN load'.rows),
           \A i \in DOMAIN load'.got :
             load'.got[i].policy.kind = "Duration" =>
               load'.got[i].age <= load'.got[i].policy.ticks
    PROVE  LoadOK'
BY DEF LoadOK, LoadedWithinRetention

LEMMA LoadStep == Inv /\ [Next]_vars => LoadOK'
<1> SUFFICES ASSUME Inv, [Next]_vars PROVE LoadOK'
    OBVIOUS
<1>1. \/ UNCHANGED load
      \/ load' = NoLoad
      \/ \E store \in Store, decay \in DecayIn : BeginLoad(store, decay)
      \/ GetKey
      \/ GateRows
  <2>1. CASE UNCHANGED vars
      BY <2>1 DEF vars
  <2>2. CASE Next
      BY <2>2, Zenon DEF Next, InsertBelief, TakeCheckpoint, RollbackTo, Restart, Forget,
                         BeginFlush, WriteSnapshot, FailWrite, FinishLoad, FailLoad, Tick
  <2> QED
      BY <2>1, <2>2
<1>2. /\ load \in Loads /\ IsFiniteSet(DOMAIN load.rows)
      /\ StoresOK /\ clock \in Nat
      /\ \A i \in DOMAIN load.got :
           load.got[i].policy.kind = "Duration" => load.got[i].age <= load.got[i].policy.ticks
    BY DEF Inv, LoadOK, StoresOK, LoadedWithinRetention
<1>3. /\ NoLoad \in Loads /\ NoLoad.got = <<>> /\ DOMAIN NoLoad.rows = {} /\ IsFiniteSet({})
      /\ NoLoad = [pc |-> "idle", store |-> "redis", decay |-> 0, keys |-> <<>>,
                   rows |-> [k \in {} |-> None], got |-> <<>>]
  <2>1. [k \in {} |-> None] \in Tables(Neo4jEntry)
    <3>1. [k \in {} |-> None] \in [{} -> Neo4jEntry]
        OBVIOUS
    <3>2. [{} -> Neo4jEntry] \subseteq Tables(Neo4jEntry)
        BY DEF Tables
    <3> QED
        BY <3>1, <3>2
  <2> QED
      BY <2>1, FS_EmptySet, QuadAssumption DEF NoLoad, Loads, Store, Conf
<1>4. load = [pc |-> load.pc, store |-> load.store, decay |-> load.decay, keys |-> load.keys,
              rows |-> load.rows, got |-> load.got]
    BY <1>2 DEF Loads
<1>5. CASE UNCHANGED load
    BY <1>2, <1>5, LoadGets
<1>6. CASE load' = NoLoad
    BY <1>3, <1>6, LoadGets
<1>7. ASSUME NEW store \in Store, NEW decay \in DecayIn, BeginLoad(store, decay) PROVE LoadOK'
  <2>1. decay \in Conf
      BY MemoryAssumption
  <2>2. CASE store = "redis"
    <3>1. PICK keys \in SetToSeqs(DOMAIN redis) :
            load' = [NoLoad EXCEPT !.pc = "get", !.decay = decay, !.keys = keys]
        BY <1>7, <2>2 DEF BeginLoad
    <3>2. IsFiniteSet(DOMAIN redis) /\ DOMAIN redis \subseteq Key
        BY <1>2, TableType DEF StoresOK
    <3>3. keys \in Seq(Key)
        BY <3>1, <3>2, ListsOfASet
    <3>4. load' = [pc |-> "get", store |-> "redis", decay |-> decay, keys |-> keys,
                   rows |-> NoLoad.rows, got |-> <<>>]
        BY <1>3, <3>1
    <3>5. NoLoad.rows \in Tables(Neo4jEntry)
        BY <1>3 DEF Loads
    <3>6. load' \in Loads
        BY <2>1, <3>3, <3>4, <3>5 DEF Loads, Store
    <3> QED
        BY <1>3, <3>4, <3>6, LoadGets
  <2>3. CASE store # "redis"
    <3> DEFINE rows == Restrict(neo4j, DOMAIN neo4j \cap Schema)
    <3>1. load' = [NoLoad EXCEPT !.pc = "gate", !.store = "neo4j", !.decay = decay, !.rows = rows]
        BY <1>7, <2>3 DEF BeginLoad
    <3>2. rows \in Tables(Neo4jEntry)
        BY <1>2, TableType DEF StoresOK
    <3>3. DOMAIN rows \in SUBSET DOMAIN neo4j
        BY DEF Restrict
    <3> HIDE DEF rows
    <3>4. IsFiniteSet(DOMAIN rows)
        BY <1>2, <3>3, FS_Subset DEF StoresOK
    <3>5. load' = [pc |-> "gate", store |-> "neo4j", decay |-> decay, keys |-> <<>>,
                   rows |-> rows, got |-> <<>>]
        BY <1>3, <3>1
    <3>6. load' \in Loads
        BY <2>1, <3>2, <3>5 DEF Loads, Store
    <3> QED
        BY <3>4, <3>5, <3>6, LoadGets
  <2> QED
      BY <2>2, <2>3
<1>8. CASE GetKey
  <2> DEFINE k == Head(load.keys)
             entry == [node |-> LoadedNode(k, redis[k], IF redis[k].slow = None THEN None
                                                        ELSE Decayed(redis[k].slow, load.decay)),
                       age  |-> clock - redis[k].written,
                       policy |-> redis[k].policy]
             got  == IF k \notin DOMAIN redis THEN load.got ELSE Append(load.got, entry)
             keys == Tail(load.keys)
  <2>1. load.keys # <<>> /\ load' = [load EXCEPT !.keys = keys, !.got = got]
      BY <1>8 DEF GetKey
  <2>2. keys \in Seq(Key) /\ load.got \in Seq(Loaded) /\ load.decay \in Conf
      BY <1>2, <2>1 DEF Loads
  <2>3. k \in DOMAIN redis => /\ entry \in Loaded
                              /\ entry.policy.kind = "Duration" => entry.age <= entry.policy.ticks
      BY <1>2, <2>2, GotInTime
  <2> HIDE DEF k, entry, keys
  <2>4. got \in Seq(Loaded)
      BY <2>2, <2>3
  <2>5. \A i \in DOMAIN got : got[i].policy.kind = "Duration" => got[i].age <= got[i].policy.ticks
    <3>1. CASE k \notin DOMAIN redis
        BY <1>2, <3>1
    <3>2. CASE k \in DOMAIN redis
      <4>1. got = Append(load.got, entry)
          BY <3>2
      <4> HIDE DEF got
      <4>2. \A i \in DOMAIN got : (i \in DOMAIN load.got /\ got[i] = load.got[i]) \/ got[i] = entry
          BY <2>2, <4>1
      <4> QED
          BY <1>2, <2>3, <3>2, <4>2
    <3> QED
        BY <3>1, <3>2
  <2> HIDE DEF got
  <2>6. load' = [pc |-> load.pc, store |-> load.store, decay |-> load.decay, keys |-> keys,
                 rows |-> load.rows, got |-> got]
      BY <1>4, <2>1
  <2>7. load' \in Loads
      BY <1>2, <2>2, <2>4, <2>6 DEF Loads
  <2> QED
      BY <1>2, <2>5, <2>6, <2>7, LoadGets
<1>9. CASE GateRows
  <2>1. PICK keys \in SetToSeqs(LiveRows) :
          load' = [load EXCEPT !.pc = "get", !.keys = <<>>,
                     !.got = [i \in DOMAIN keys |->
                                [node |-> LoadedNode(keys[i], load.rows[keys[i]], None),
                                 age  |-> clock - load.rows[keys[i]].updated,
                                 policy |-> LoadPolicy]]]
      BY <1>9, Zenon DEF GateRows
  <2> DEFINE entry(i) == [node |-> LoadedNode(keys[i], load.rows[keys[i]], None),
                          age  |-> clock - load.rows[keys[i]].updated,
                          policy |-> LoadPolicy]
             got == [i \in DOMAIN keys |-> entry(i)]
  <2>2. LiveRows \in SUBSET DOMAIN load.rows
      BY DEF LiveRows
  <2>3. IsFiniteSet(LiveRows)
      BY <1>2, <2>2, FS_Subset
  <2>4. keys \in Seq(LiveRows)
      BY <2>1, <2>3, ListsOfASet
  <2>5. \A i \in DOMAIN keys : keys[i] \in LiveRows
      BY <2>4
  <2>6. \A i \in DOMAIN keys : /\ entry(i) \in Loaded
                               /\ entry(i).policy.kind = "Duration" =>
                                    entry(i).age <= entry(i).policy.ticks
      BY <1>2, <2>5, RowInTime
  <2>7. load' = [load EXCEPT !.pc = "get", !.keys = <<>>, !.got = got]
      BY <2>1
  <2> HIDE DEF entry
  <2>8. got \in Seq(Loaded)
    <3>1. DOMAIN keys = 1 .. Len(keys) /\ Len(keys) \in Nat
        BY <2>4
    <3>2. got \in [1 .. Len(keys) -> Loaded]
        BY <2>6, <3>1
    <3> QED
        BY <3>1, <3>2, FunctionIsSeq
  <2>9. \A i \in DOMAIN got : got[i].policy.kind = "Duration" => got[i].age <= got[i].policy.ticks
      BY <2>6
  <2> HIDE DEF got
  <2>10. load' = [pc |-> "get", store |-> load.store, decay |-> load.decay, keys |-> <<>>,
                  rows |-> load.rows, got |-> got]
      BY <1>4, <2>7
  <2>11. load' \in Loads
      BY <1>2, <2>8, <2>10 DEF Loads
  <2> QED
      BY <1>2, <2>9, <2>10, <2>11, LoadGets
<1> QED
    BY <1>1, <1>5, <1>6, <1>7, <1>8, <1>9

-----------------------------------------------------------------------------
(* Flushes *)

LEMMA TopOfSegment ==
    ASSUME NEW n \in Nat, NEW S \in SUBSET (1 .. n + 1), n + 1 \in S
    PROVE  Max(S) = n + 1
<1>1. \A x \in S : (\A y \in S : x >= y) => x = n + 1
    OBVIOUS
<1>2. n + 1 \in S /\ \A y \in S : n + 1 >= y
    OBVIOUS
<1> QED
    BY <1>1, <1>2 DEF Max

\* A frame with its place, its cursor and its promise replaced.
Remade(f, pc, n, alone) ==
    [pc |-> pc, store |-> f.store, policy |-> f.policy, started |-> f.started,
     snaps |-> f.snaps, n |-> n, before |-> f.before, alone |-> alone]

\* A frame that has got to its snapshot n and to a place.
Moved(f, pc, n) == [f EXCEPT !.n = n, !.pc = pc]

\* A frame is the record of its fields.
LEMMA FrameShape ==
    ASSUME NEW f \in Frames
    PROVE  f = Remade(f, f.pc, f.n, f.alone)
<1> DEFINE B == Tables(RedisEntry \cup Neo4jEntry)
<1>1. f \in [pc : {"idle", "writing", "done", "failed"}, store : Store,
             policy : Retention, started : Nat, snaps : Seq(Node), n : Nat,
             before : B, alone : BOOLEAN]
    BY Zenon DEF Frames
<1> HIDE DEF B
<1>2. f = [pc |-> f.pc, store |-> f.store, policy |-> f.policy, started |-> f.started,
           snaps |-> f.snaps, n |-> f.n, before |-> f.before, alone |-> f.alone]
    BY ONLY <1>1
<1> QED
    BY <1>2, Zenon DEF Remade

\* A frame with fields replaced is a frame.
LEMMA FrameRemade ==
    ASSUME NEW f \in Frames, NEW pc \in {"idle", "writing", "done", "failed"}, NEW n \in Nat,
           NEW alone \in BOOLEAN
    PROVE  Remade(f, pc, n, alone) \in Frames
<1> DEFINE B == Tables(RedisEntry \cup Neo4jEntry)
<1>1. Frames = [pc : {"idle", "writing", "done", "failed"}, store : Store,
                policy : Retention, started : Nat, snaps : Seq(Node), n : Nat,
                before : B, alone : BOOLEAN]
    BY Zenon DEF Frames
<1> HIDE DEF B
<1>2. f.store \in Store /\ f.policy \in Retention /\ f.started \in Nat /\ f.snaps \in Seq(Node)
        /\ f.before \in B
    BY <1>1
<1>3. [pc |-> pc, store |-> f.store, policy |-> f.policy, started |-> f.started,
       snaps |-> f.snaps, n |-> n, before |-> f.before, alone |-> alone]
        \in [pc : {"idle", "writing", "done", "failed"}, store : Store,
             policy : Retention, started : Nat, snaps : Seq(Node), n : Nat,
             before : B, alone : BOOLEAN]
    BY ONLY <1>2, pc \in {"idle", "writing", "done", "failed"}, n \in Nat, alone \in BOOLEAN
<1> QED
    BY <1>1, <1>3, Zenon DEF Remade

LEMMA FrameMoved ==
    ASSUME NEW f \in Frames, NEW pc \in {"idle", "writing", "done", "failed"}, NEW n \in Nat
    PROVE  Moved(f, pc, n) = Remade(f, pc, n, f.alone) /\ Moved(f, pc, n) \in Frames
<1> DEFINE g == [f EXCEPT !.n = n]
<1>1. f = Remade(f, f.pc, f.n, f.alone)
    BY FrameShape
<1>2. g = Remade(f, f.pc, n, f.alone)
    BY ONLY <1>1 DEF Remade
<1>3. Moved(f, pc, n) = [g EXCEPT !.pc = pc]
    BY DEF Moved
<1> HIDE DEF g
<1>4. Moved(f, pc, n) = Remade(f, pc, n, f.alone)
    BY ONLY <1>2, <1>3 DEF Remade
<1>5. f.alone \in BOOLEAN
    BY DEF Frames
<1>6. Remade(f, pc, n, f.alone) \in Frames
    BY <1>5, FrameRemade, Zenon
<1> QED
    BY <1>4, <1>6, Zenon

LEMMA FrameFailed ==
    ASSUME NEW f \in Frames, NEW d, d = [f EXCEPT !.pc = "failed"]
    PROVE  /\ d = [pc |-> "failed", store |-> f.store, policy |-> f.policy,
                   started |-> f.started, snaps |-> f.snaps, n |-> f.n, before |-> f.before,
                   alone |-> f.alone]
           /\ d \in Frames
<1>1. f.n \in Nat /\ f.alone \in BOOLEAN
    BY DEF Frames
<1>2. f = Remade(f, f.pc, f.n, f.alone)
    BY FrameShape
<1>3. d = [f EXCEPT !.pc = "failed"]
    OBVIOUS
<1>4. d = Remade(f, "failed", f.n, f.alone)
    BY ONLY <1>2, <1>3 DEF Remade
<1>5. Remade(f, "failed", f.n, f.alone) \in Frames
  <2>1. "failed" \in {"idle", "writing", "done", "failed"}
      OBVIOUS
  <2> QED
      BY <1>1, <2>1, FrameRemade, Zenon
<1>6. d \in Frames
    BY <1>4, <1>5, Zenon
<1> QED
    BY <1>4, <1>6, Zenon DEF Remade

LEMMA FrameDisturbed ==
    ASSUME NEW f \in Frames, NEW alone \in BOOLEAN, NEW d, d = [f EXCEPT !.alone = alone]
    PROVE  /\ d = [pc |-> f.pc, store |-> f.store, policy |-> f.policy, started |-> f.started,
                   snaps |-> f.snaps, n |-> f.n, before |-> f.before, alone |-> alone]
           /\ d \in Frames
<1>1. f.n \in Nat /\ f.pc \in {"idle", "writing", "done", "failed"}
    BY DEF Frames
<1>2. f = Remade(f, f.pc, f.n, f.alone)
    BY FrameShape
<1>3. d = [f EXCEPT !.alone = alone]
    OBVIOUS
<1>4. d = Remade(f, f.pc, f.n, alone)
    BY ONLY <1>2, <1>3 DEF Remade
<1>5. Remade(f, f.pc, f.n, alone) \in Frames
    BY <1>1, FrameRemade, Zenon
<1>6. d \in Frames
    BY <1>4, <1>5, Zenon
<1> QED
    BY <1>4, <1>6, Zenon DEF Remade

\* Alone is what a call may become, never what it becomes again: what it has
\* left stays, while nobody writes to its store.
LEMMA CallKept ==
    ASSUME NEW c, NEW d, NEW kept, NEW now, NEW later,
           CallOK(c, kept, now), c.started \in Nat, now \in Nat, later \in Nat, now <= later,
           c.pc = d.pc \/ (c.pc # "idle" /\ d.pc = "failed"), d.alone => c.alone,
           c.store = d.store, c.policy = d.policy, c.started = d.started, c.snaps = d.snaps,
           c.n = d.n, c.before = d.before
    PROVE  CallOK(d, kept, later)
<1>1. \A k : Left(c, kept, k) => Left(d, kept, k)
    BY DEF Left
<1> QED
    BY <1>1 DEF CallOK

\* A call that is not alone has nothing to answer for.
LEMMA CallDisturbed ==
    ASSUME NEW c, NEW d, NEW kept, NEW other, NEW now, CallOK(c, kept, now), ~d.alone,
           c.pc = d.pc, c.started = d.started, c.snaps = d.snaps, c.n = d.n
    PROVE  CallOK(d, other, now)
BY DEF CallOK

\* A call that writes its next snapshot has left one more.
LEMMA OwnWrite ==
    ASSUME NEW f \in Frames, NEW kept, NEW now, CallOK(f, kept, now),
           f.pc = "writing", f.n < Len(f.snaps),
           NEW entry, Shown(entry) = Shown(f.snaps[f.n + 1]),
           f.store = "redis" => (entry.expires = None <=> TtlSeconds(f.policy) = None),
           NEW pc \in {"writing", "done", "failed"},
           pc = "writing" => f.n + 1 < Len(f.snaps), pc = "done" => f.n + 1 = Len(f.snaps)
    PROVE  /\ CallOK(Moved(f, pc, f.n + 1), SetKey(kept, f.snaps[f.n + 1].key, entry), now)
           /\ Moved(f, pc, f.n + 1) \in Frames /\ Moved(f, pc, f.n + 1).store = f.store
<1> DEFINE d    == Moved(f, pc, f.n + 1)
           k0   == f.snaps[f.n + 1].key
           left == SetKey(kept, k0, entry)
           n    == f.n + 1
<1>1. f.n \in Nat /\ n \in Nat /\ Len(f.snaps) \in Nat /\ n <= Len(f.snaps)
    BY DEF Frames
<1>2. d \in Frames /\ d = [pc |-> pc, store |-> f.store, policy |-> f.policy, started |-> f.started,
           snaps |-> f.snaps, n |-> n, before |-> f.before, alone |-> f.alone]
  <2>1. d = Moved(f, pc, n)
      OBVIOUS
  <2>2. pc \in {"idle", "writing", "done", "failed"}
      OBVIOUS
  <2> HIDE DEF n, d
  <2>3. d = Remade(f, pc, n, f.alone) /\ d \in Frames
      BY <1>1, <2>1, <2>2, FrameMoved, Zenon
  <2> QED
      BY <2>3, Zenon DEF Remade
<1> HIDE DEF d
<1>3. /\ DOMAIN left = DOMAIN kept \cup {k0} /\ left[k0] = entry
      /\ \A k \in DOMAIN kept \ {k0} : left[k] = kept[k]
    BY DEF SetKey
<1> HIDE DEF left
<1>4. ASSUME NEW k \in Key, Left(f, kept, k) PROVE Left(d, left, k)
  <2> DEFINE mine == {i \in 1 .. f.n : f.snaps[i].key = k}
             ours == {i \in 1 .. n : f.snaps[i].key = k}
  <2>1. Left(d, left, k) <=>
          IF ours # {}
          THEN IF k \in DOMAIN left
               THEN /\ Shown(left[k]) = Shown(f.snaps[Max(ours)])
                    /\ f.store = "redis" =>
                         (left[k].expires = None <=> TtlSeconds(f.policy) = None)
               ELSE f.store = "redis" /\ TtlSeconds(f.policy) # None
          ELSE IF k \in DOMAIN left
               THEN k \in DOMAIN f.before /\ left[k] = f.before[k]
               ELSE k \in DOMAIN f.before =>
                      f.store = "redis" /\ f.before[k].expires # None
    <3>1. /\ d.n = n /\ d.snaps = f.snaps /\ d.store = f.store /\ d.policy = f.policy
          /\ d.before = f.before
        BY <1>2
    <3> HIDE DEF n
    <3> QED
        BY <3>1 DEF Left
  <2>2. CASE k = k0
    <3>1. n \in ours /\ ours \in SUBSET (1 .. f.n + 1) /\ f.n + 1 \in ours
        BY <1>1, <2>2
    <3> HIDE DEF ours
    <3>2. Max(ours) = f.n + 1
        BY <1>1, <3>1, TopOfSegment
    <3> QED
        BY <1>3, <2>1, <2>2, <3>1, <3>2
  <2>3. CASE k # k0
    <3>1. \A i : i \in 1 .. n <=> i \in 1 .. f.n \/ i = n
        BY <1>1
    <3>2. mine = ours
        BY <2>3, <3>1
    <3>3. k \in DOMAIN left <=> k \in DOMAIN kept
        BY <1>3, <2>3
    <3>4. k \in DOMAIN kept => left[k] = kept[k]
        BY <1>3, <2>3
    <3>5. IF mine # {}
          THEN IF k \in DOMAIN kept
               THEN /\ Shown(kept[k]) = Shown(f.snaps[Max(mine)])
                    /\ f.store = "redis" =>
                         (kept[k].expires = None <=> TtlSeconds(f.policy) = None)
               ELSE f.store = "redis" /\ TtlSeconds(f.policy) # None
          ELSE IF k \in DOMAIN kept
               THEN k \in DOMAIN f.before /\ kept[k] = f.before[k]
               ELSE k \in DOMAIN f.before =>
                      f.store = "redis" /\ f.before[k].expires # None
        BY <1>4 DEF Left
    <3> HIDE DEF mine, ours
    <3> QED
        BY <2>1, <3>2, <3>3, <3>4, <3>5
  <2> QED
      BY <2>2, <2>3
<1>5. CallOK(d, left, now)
    BY <1>1, <1>2, <1>4 DEF CallOK
<1> QED
    BY <1>2, <1>5 DEF d, left, k0

\* What expires had a time to live, of the call's or of what was there before.
LEMMA Expired ==
    ASSUME NEW call, NEW kept, NEW now, NEW later, CallOK(call, kept, now),
           now \in Nat, later \in Nat, now <= later, call.started \in Nat,
           call.store = "redis", NEW D \in SUBSET DOMAIN kept,
           \A k \in DOMAIN kept \ D : kept[k].expires # None
    PROVE  CallOK(call, Restrict(kept, D), later)
<1> DEFINE left == Restrict(kept, D)
<1>1. DOMAIN left = D /\ \A k \in D : left[k] = kept[k]
    BY DEF Restrict
<1> HIDE DEF left
<1>2. \A k : Left(call, kept, k) => Left(call, left, k)
    BY <1>1 DEF Left
<1> QED
    BY <1>2 DEF CallOK, left

\* A store, of what the two hold.
Holding(store, r, n) == IF store = "redis" THEN r ELSE n

LEMMA FlushStep == Inv /\ [Next]_vars => FlushOK'
<1> SUFFICES ASSUME Inv, [Next]_vars PROVE FlushOK'
    OBVIOUS
<1>1. /\ flush \in [Flusher -> Frames] /\ clock \in Nat /\ StoresOK /\ SessionOK
      /\ \A w \in Flusher : CallOK(flush[w], Kept(flush[w].store), clock)
    BY DEF Inv, FlushOK, StoresOK
<1>2. \A w \in Flusher : flush[w].started \in Nat /\ flush[w].n \in Nat
                           /\ flush[w].store \in Store /\ flush[w].alone \in BOOLEAN
                           /\ flush[w].pc \in {"idle", "writing", "done", "failed"}
    BY <1>1 DEF Frames
<1>3. \/ UNCHANGED <<flush, clock, redis, neo4j>>
      \/ Restart
      \/ \E w \in Flusher, policy \in Policies : BeginFlush(w, "redis", policy)
      \/ \E w \in Flusher : BeginFlush(w, "neo4j", LoadPolicy)
      \/ \E w \in Flusher : WriteSnapshot(w) \/ FailWrite(w)
      \/ Tick
  <2>1. CASE UNCHANGED vars
      BY <2>1 DEF vars
  <2>2. CASE Next
      BY <2>2, Zenon DEF Next, InsertBelief, TakeCheckpoint, RollbackTo, Forget, BeginLoad,
                         GetKey, GateRows, FinishLoad, FailLoad
  <2> QED
      BY <2>1, <2>2
<1>4. ASSUME flush' \in [Flusher -> Frames],
             \A w \in Flusher : CallOK(flush'[w], Holding(flush'[w].store, redis', neo4j'), clock')
      PROVE  FlushOK'
  <2>1. \A w \in Flusher : CallOK(flush'[w], IF flush'[w].store = "redis" THEN redis' ELSE neo4j', clock')
      BY <1>4 DEF Holding, Kept
  <2> QED
      BY <1>4, <2>1 DEF FlushOK, Holding, Kept
<1>5. ASSUME UNCHANGED <<redis, neo4j>>, NEW store PROVE Holding(store, redis', neo4j') = Kept(store)
    BY <1>5 DEF Holding, Kept
<1>6. CASE UNCHANGED <<flush, clock, redis, neo4j>>
    BY <1>1, <1>4, <1>5, <1>6
<1>7. CASE Restart
  <2>1. flush' = [w \in Flusher |-> IF flush[w].pc = "writing"
                                    THEN [flush[w] EXCEPT !.pc = "failed"] ELSE flush[w]]
      BY <1>7 DEF Restart
  <2>2. UNCHANGED <<clock, redis, neo4j>>
      BY <1>7 DEF Restart
  <2>3. ASSUME NEW w \in Flusher
        PROVE  flush'[w] \in Frames /\ CallOK(flush'[w], Holding(flush'[w].store, redis', neo4j'), clock')
    <3> DEFINE c == flush[w]
               d == flush'[w]
    <3>1. c \in Frames /\ CallOK(c, Kept(c.store), clock) /\ c.started \in Nat
        BY <1>1, <1>2
    <3>2. d = c \/ (c.pc = "writing" /\ d = [c EXCEPT !.pc = "failed"])
        BY <2>1
    <3> HIDE DEF c, d
    <3>3. CASE d = c
        BY <1>5, <2>2, <3>1, <3>3 DEF d
    <3>4. CASE c.pc = "writing" /\ d = [c EXCEPT !.pc = "failed"]
      <4>1. /\ d = [pc |-> "failed", store |-> c.store, policy |-> c.policy,
                    started |-> c.started, snaps |-> c.snaps, n |-> c.n, before |-> c.before,
                    alone |-> c.alone]
            /\ d \in Frames
          BY <3>1, <3>4, FrameFailed
      <4>2. CallOK(d, Kept(c.store), clock)
        <5>1. /\ d.pc = "failed" /\ c.pc # "idle" /\ d.alone = c.alone /\ c.store = d.store
              /\ c.policy = d.policy /\ c.started = d.started /\ c.snaps = d.snaps
              /\ c.n = d.n /\ c.before = d.before
            BY <3>4, <4>1
        <5> QED
            BY <1>1, <3>1, <5>1, CallKept
      <4>3. Holding(d.store, redis', neo4j') = Kept(c.store)
          BY <1>5, <2>2, <4>1
      <4> QED
          BY <2>2, <4>1, <4>2, <4>3 DEF d
    <3> QED
        BY <3>2, <3>3, <3>4
  <2>4. flush' \in [Flusher -> Frames]
      BY <2>1, <2>3
  <2> QED
      BY <1>4, <2>3, <2>4
<1>8. ASSUME NEW w \in Flusher, NEW store \in Store, NEW policy \in Retention,
             BeginFlush(w, store, policy)
      PROVE  FlushOK'
  <2> DEFINE snaps == SessionSnapshots
             f == [pc |-> IF snaps = <<>> THEN "done" ELSE "writing",
                   store |-> store, policy |-> policy, started |-> clock, snaps |-> snaps,
                   n |-> 0, before |-> Kept(store), alone |-> TRUE]
  <2>1. flush' = [flush EXCEPT ![w] = f] /\ UNCHANGED <<clock, redis, neo4j>>
      BY <1>8 DEF BeginFlush
  <2>2. snaps \in Seq(Node)
    <3>1. snaps \in Seq({quad.nodes[id] : id \in Live(quad)})
        BY <1>1, SnapshotsType DEF SessionOK
    <3>2. {quad.nodes[id] : id \in Live(quad)} \subseteq Node
        BY <1>1 DEF SessionOK, QuadInv, IsQuad
    <3> HIDE DEF snaps
    <3> QED
        BY <3>1, <3>2
  <2> HIDE DEF snaps
  <2>3. Kept(store) \in Tables(RedisEntry \cup Neo4jEntry)
    <3>1. \A E, F : E \subseteq F => Tables(E) \subseteq Tables(F)
        BY DEF Tables
    <3> QED
        BY <1>1, <3>1 DEF Holding, Kept, StoresOK
  <2>4. f \in Frames
      BY <1>1, <2>2, <2>3 DEF Frames
  <2>5. CallOK(f, Kept(store), clock)
    <3>1. Len(snaps) \in Nat /\ (snaps # <<>> => Len(snaps) > 0) /\ Len(<<>>) = 0
        BY <2>2
    <3>2. \A k \in Key : Left(f, Kept(store), k)
      <4>1. f.n = 0 /\ f.before = Kept(store)
          OBVIOUS
      <4> HIDE DEF f
      <4>2. {i \in 1 .. f.n : f.snaps[i].key \in Key} = {} /\ 1 .. f.n = {}
          BY <4>1
      <4> QED
          BY <4>1, <4>2 DEF Left
    <3>3. /\ f.n = 0 /\ f.snaps = snaps /\ f.started = clock
          /\ f.pc = IF snaps = <<>> THEN "done" ELSE "writing"
        OBVIOUS
    <3> HIDE DEF f
    <3> QED
        BY <1>1, <3>1, <3>2, <3>3 DEF CallOK
  <2>6. f.store = store
      OBVIOUS
  <2> HIDE DEF f
  <2>7. flush' \in [Flusher -> Frames]
      BY <1>1, <2>1, <2>4
  <2>8. ASSUME NEW v \in Flusher PROVE CallOK(flush'[v], Holding(flush'[v].store, redis', neo4j'), clock')
    <3>1. CASE v = w
      <4>1. flush'[v] = f
          BY <1>1, <2>1, <3>1
      <4> QED
          BY <1>5, <2>1, <2>5, <2>6, <4>1
    <3>2. CASE v # w
      <4>1. flush'[v] = flush[v]
          BY <1>1, <2>1, <3>2
      <4> QED
          BY <1>1, <1>5, <2>1, <4>1
    <3> QED
        BY <3>1, <3>2
  <2> QED
      BY <1>4, <2>7, <2>8
<1>9. ASSUME NEW w \in Flusher, NEW pc \in {"writing", "done", "failed"},
             flush[w].pc = "writing", ~Refused(flush[w]), Put(flush[w]), clock' = clock,
             Disturb(w, [flush[w] EXCEPT !.n = @ + 1, !.pc = pc]),
             pc = "writing" => flush[w].n + 1 < Len(flush[w].snaps),
             pc = "done" => flush[w].n + 1 = Len(flush[w].snaps)
      PROVE  FlushOK'
  <2> DEFINE f == flush[w]
             d == [f EXCEPT !.n = @ + 1, !.pc = pc]
             k == f.snaps[f.n + 1].key
  <2>1. f \in Frames /\ CallOK(f, Kept(f.store), clock)
      BY <1>1
  <2>2. f.n < Len(f.snaps) /\ f.started <= clock
      BY <1>9, <2>1 DEF CallOK
  <2>3. /\ f.store = "redis" => redis' = SetKey(redis, k, Written(f)) /\ neo4j' = neo4j
        /\ f.store # "redis" => neo4j' = SetKey(neo4j, k, Merged(f)) /\ redis' = redis
      BY <1>9, PutSets
  <2>4. f.store \in {"redis", "neo4j"}
      BY <1>2 DEF Store
  <2> DEFINE entry == IF f.store = "redis" THEN Written(f) ELSE Merged(f)
  <2>5. Shown(entry) = Shown(f.snaps[f.n + 1])
      BY DEF Shown, Written, Merged
  <2>6. f.store = "redis" => (entry.expires = None <=> TtlSeconds(f.policy) = None)
    <3>1. Written(f).expires = None <=> TtlSeconds(f.policy) = None
        BY <1>1, <2>1, <2>2, EntryType
    <3> QED
        BY <3>1
  <2>7. Holding(f.store, redis', neo4j') = SetKey(Kept(f.store), k, entry)
      BY <2>3, <2>4 DEF Holding, Kept
  <2>8. \A store \in Store : store # f.store => Holding(store, redis', neo4j') = Kept(store)
      BY <2>3, <2>4 DEF Holding, Kept, Store
  <2>9. flush' = [v \in Flusher |->
                    IF v = w THEN d
                    ELSE [flush[v] EXCEPT !.alone = @ /\ flush[v].store # d.store]]
    <3>1. Disturb(w, d)
        BY <1>9, Zenon
    <3> HIDE DEF d, f
    <3> QED
        BY <3>1, Zenon DEF Disturb
  <2> HIDE DEF entry
  <2>10. CallOK(d, SetKey(Kept(f.store), k, entry), clock) /\ d \in Frames /\ d.store = f.store
    <3>1. f.pc = "writing" /\ d = Moved(f, pc, f.n + 1)
        BY <1>9, Zenon DEF Moved
    <3>2. /\ pc = "writing" => f.n + 1 < Len(f.snaps)
          /\ pc = "done" => f.n + 1 = Len(f.snaps)
        BY <1>9, Zenon
    <3> HIDE DEF d, f
    <3>3. /\ CallOK(Moved(f, pc, f.n + 1), SetKey(Kept(f.store), f.snaps[f.n + 1].key, entry), clock)
          /\ Moved(f, pc, f.n + 1) \in Frames /\ Moved(f, pc, f.n + 1).store = f.store
        BY <2>1, <2>2, <2>5, <2>6, <3>1, <3>2, OwnWrite
    <3> QED
        BY <3>1, <3>3, Zenon
  <2> HIDE DEF d, f, k
  <2>11. ASSUME NEW v \in Flusher
         PROVE  flush'[v] \in Frames /\ CallOK(flush'[v], Holding(flush'[v].store, redis', neo4j'), clock')
    <3>1. CASE v = w
      <4>1. flush'[v] = d
          BY <2>9, <3>1
      <4> QED
          BY <1>9, <2>7, <2>10, <4>1
    <3>2. CASE v # w
      <4> DEFINE c == flush[v]
                 a == c.alone /\ c.store # d.store
                 e == flush'[v]
      <4>1. c \in Frames /\ CallOK(c, Kept(c.store), clock) /\ c.started \in Nat
              /\ c.alone \in BOOLEAN /\ c.n \in Nat /\ c.store \in Store
              /\ c.pc \in {"idle", "writing", "done", "failed"}
          BY <1>1, <1>2
      <4>2. e = [c EXCEPT !.alone = a] /\ a \in BOOLEAN
          BY <2>9, <3>2
      <4>3. a => c.alone /\ c.store # f.store
          BY <2>10
      <4> HIDE DEF a, c, e
      <4>4. e = [pc |-> c.pc, store |-> c.store, policy |-> c.policy, started |-> c.started,
                 snaps |-> c.snaps, n |-> c.n, before |-> c.before, alone |-> a]
          BY <4>1, <4>2, FrameDisturbed
      <4>5. e \in Frames
          BY <4>1, <4>2, FrameDisturbed
      <4>6. CASE a
        <5>1. Holding(c.store, redis', neo4j') = Kept(c.store)
            BY <2>8, <4>1, <4>3, <4>6
        <5>2. CallOK(e, Kept(c.store), clock)
            BY <1>1, <4>1, <4>3, <4>4, <4>6, CallKept
        <5>3. e.store = c.store
            BY <4>4
        <5> QED
            BY <1>9, <4>5, <5>1, <5>2, <5>3 DEF e
      <4>7. CASE ~a
        <5>1. ~e.alone /\ e.pc = c.pc /\ e.started = c.started /\ e.snaps = c.snaps /\ e.n = c.n
            BY <4>4, <4>7
        <5>2. \A other : CallOK(e, other, clock)
            BY <4>1, <5>1, CallDisturbed
        <5> QED
            BY <1>9, <4>5, <5>2 DEF e
      <4> QED
          BY <4>6, <4>7
    <3> QED
        BY <3>1, <3>2
  <2>12. flush' \in [Flusher -> Frames]
      BY <2>9, <2>11
  <2> QED
      BY <1>4, <2>11, <2>12
<1>10. ASSUME NEW w \in Flusher, flush[w].pc = "writing", UNCHANGED <<clock, redis, neo4j>>,
              flush' = [flush EXCEPT ![w].pc = "failed"]
       PROVE  FlushOK'
  <2> DEFINE f == flush[w]
             d == [f EXCEPT !.pc = "failed"]
  <2>1. f \in Frames /\ CallOK(f, Kept(f.store), clock) /\ f.started \in Nat
          /\ f.n \in Nat /\ f.alone \in BOOLEAN /\ f.pc = "writing"
      BY <1>1, <1>2, <1>10
  <2>2. flush' = [flush EXCEPT ![w] = d]
      BY <1>10
  <2> HIDE DEF f
  <2>3. /\ d = [pc |-> "failed", store |-> f.store, policy |-> f.policy, started |-> f.started,
                snaps |-> f.snaps, n |-> f.n, before |-> f.before, alone |-> f.alone]
        /\ d \in Frames
      BY <2>1, FrameFailed
  <2> HIDE DEF d
  <2>4. CallOK(d, Kept(f.store), clock) /\ d.store = f.store
      BY <1>1, <2>1, <2>3, CallKept
  <2>5. flush' \in [Flusher -> Frames]
      BY <1>1, <2>2, <2>3
  <2>6. ASSUME NEW v \in Flusher PROVE CallOK(flush'[v], Holding(flush'[v].store, redis', neo4j'), clock')
    <3>1. CASE v = w
      <4>1. flush'[v] = d
          BY <1>1, <2>2, <3>1
      <4> QED
          BY <1>5, <1>10, <2>4, <4>1
    <3>2. CASE v # w
      <4>1. flush'[v] = flush[v]
          BY <1>1, <2>2, <3>2
      <4> QED
          BY <1>1, <1>5, <1>10, <4>1
    <3> QED
        BY <3>1, <3>2
  <2> QED
      BY <1>4, <2>5, <2>6
<1>11. ASSUME NEW w \in Flusher, WriteSnapshot(w) \/ FailWrite(w) PROVE FlushOK'
  <2> DEFINE f  == flush[w]
             pc == IF f.n + 1 = Len(f.snaps) THEN "done" ELSE f.pc
  <2>1. f.pc = "writing" /\ clock' = clock /\ f \in Frames /\ f.n < Len(f.snaps)
    <3>1. f.pc = "writing" /\ clock' = clock
        BY <1>11, Zenon DEF WriteSnapshot, FailWrite
    <3>2. f \in Frames /\ CallOK(f, Kept(f.store), clock)
        BY <1>1, Zenon
    <3> HIDE DEF f
    <3>3. f.n < Len(f.snaps)
        BY <3>1, <3>2 DEF CallOK
    <3> QED
        BY <3>1, <3>2, <3>3, Zenon
  <2>2. CASE WriteSnapshot(w)
    <3>1. ~Refused(f) /\ Put(f) /\ Disturb(w, [f EXCEPT !.n = @ + 1, !.pc = pc])
      <4>1. [f EXCEPT !.n = @ + 1, !.pc = IF f.n + 1 = Len(f.snaps) THEN "done" ELSE @]
              = [f EXCEPT !.n = @ + 1, !.pc = pc]
          BY <2>1 DEF Frames
      <4> QED
          BY <2>2, <4>1 DEF WriteSnapshot
    <3>2. f.n \in Nat /\ Len(f.snaps) \in Nat
        BY <2>1 DEF Frames
    <3>3. /\ pc \in {"writing", "done", "failed"}
          /\ pc = "writing" => f.n + 1 < Len(f.snaps)
          /\ pc = "done" => f.n + 1 = Len(f.snaps)
        BY <2>1, <3>2
    <3> HIDE DEF pc
    <3> QED
        BY <1>9, <2>1, <3>1, <3>3, Zenon
  <2>3. CASE FailWrite(w)
    <3>1. CASE flush' = [flush EXCEPT ![w].pc = "failed"] /\ UNCHANGED <<redis, neo4j>>
        BY <1>10, <2>1, <3>1
    <3>2. CASE /\ ~Refused(f) /\ Put(f)
               /\ Disturb(w, [f EXCEPT !.pc = "failed", !.n = @ + 1])
      <4>1. [f EXCEPT !.pc = "failed", !.n = @ + 1] = [f EXCEPT !.n = @ + 1, !.pc = "failed"]
          BY <2>1 DEF Frames
      <4> QED
          BY <1>9, <2>1, <3>2, <4>1, Zenon
    <3> QED
        BY <2>3, <3>1, <3>2 DEF FailWrite
  <2> QED
      BY <1>11, <2>2, <2>3
<1>12. CASE Tick
  <2> DEFINE D == {k \in DOMAIN redis : redis[k].expires = None \/ redis[k].expires > clock'}
  <2>1. clock' = clock + 1 /\ redis' = Restrict(redis, D) /\ neo4j' = neo4j /\ flush' = flush
      BY <1>12 DEF Tick
  <2>2. D \in SUBSET DOMAIN redis /\ \A k \in DOMAIN redis \ D : redis[k].expires # None
      OBVIOUS
  <2> HIDE DEF D
  <2>3. ASSUME NEW w \in Flusher PROVE CallOK(flush[w], Holding(flush[w].store, redis', neo4j'), clock')
    <3> DEFINE c == flush[w]
    <3>1. c \in Frames /\ CallOK(c, Kept(c.store), clock) /\ c.started \in Nat
            /\ c.store \in {"redis", "neo4j"} /\ clock' \in Nat /\ clock <= clock'
        BY <1>1, <1>2, <2>1 DEF Store
    <3> HIDE DEF c
    <3>2. CASE c.store = "redis"
      <4>1. Kept(c.store) = redis /\ Holding(c.store, redis', neo4j') = Restrict(redis, D)
          BY <2>1, <3>2 DEF Holding, Kept
      <4>2. CallOK(c, Restrict(redis, D), clock')
          BY <1>1, <2>2, <3>1, <3>2, <4>1, Expired
      <4> QED
          BY <4>1, <4>2 DEF c
    <3>3. CASE c.store # "redis"
      <4>1. Holding(c.store, redis', neo4j') = Kept(c.store)
          BY <2>1, <3>3 DEF Holding, Kept
      <4>2. CallOK(c, Kept(c.store), clock')
          BY <1>1, <3>1, CallKept
      <4> QED
          BY <4>1, <4>2 DEF c
    <3> QED
        BY <3>2, <3>3
  <2> QED
      BY <1>1, <1>4, <2>1, <2>3
<1> QED
  <2>1. {"redis", "neo4j"} \subseteq Store /\ Policies \subseteq Retention
          /\ LoadPolicy \in Retention
      BY PolicyType DEF Store
  <2> QED
      BY <1>3, <1>6, <1>7, <1>8, <1>11, <1>12, <2>1

LEMMA NextInv == Inv /\ [Next]_vars => Inv'
BY SessionStep, StoresStep, FlushStep, LoadStep, VerdictStep DEF Inv

-----------------------------------------------------------------------------
(* Erasures *)

\* What the session or its checkpoints hold they held, or a load or a caller
\* brings it.
LEMMA SessionForgets ==
    ASSUME Inv, [Next]_vars, NEW b \in erased', b \in Nodes(quad)' \cup Marked(checkpoints)'
    PROVE  b \in Nodes(quad) \cup Marked(checkpoints) \cup Got(load.got)
<1>1. QuadInv(quad)
    BY DEF Inv, SessionOK
<1>2. \/ UNCHANGED <<quad, checkpoints>>
      \/ \E node \in Inserted : InsertBelief(node)
      \/ TakeCheckpoint
      \/ \E i \in DOMAIN checkpoints : RollbackTo(checkpoints[i].id)
      \/ Restart
      \/ \E id \in Handles, backends \in {{}, Store} : Forget(id, backends)
      \/ FinishLoad
  <2>1. CASE UNCHANGED vars
      BY <2>1 DEF vars
  <2>2. CASE Next
      BY <2>2, Zenon DEF Next, BeginFlush, WriteSnapshot, FailWrite, BeginLoad, GetKey, GateRows,
                         FailLoad, Tick
  <2> QED
      BY <2>1, <2>2
<1>3. CASE UNCHANGED <<quad, checkpoints>>
    BY <1>3 DEF Nodes, Marked
<1>4. ASSUME NEW node \in Inserted, InsertBelief(node)
      PROVE  b \in Nodes(quad) \cup Marked(checkpoints)
  <2>1. node \in Node
      BY MemoryAssumption
  <2>2. b # Content(node) /\ quad' = Insert(quad, node) /\ checkpoints' = checkpoints
      BY <1>4 DEF InsertBelief
  <2>3. Nodes(Insert(quad, node)) \subseteq Nodes(quad) \cup {Content(node)}
      BY <2>1, InsertContents
  <2> QED
      BY <2>2, <2>3 DEF Marked
<1>5. CASE TakeCheckpoint
  <2> DEFINE mark == [id |-> ops, quad |-> quad]
  <2>1. quad' = quad /\ checkpoints' = Append(checkpoints, mark) /\ mark.quad = quad
      BY <1>5 DEF TakeCheckpoint
  <2> HIDE DEF mark
  <2>2. \A i \in DOMAIN checkpoints' :
          checkpoints'[i] = mark \/ (i \in DOMAIN checkpoints /\ checkpoints'[i] = checkpoints[i])
      BY <2>1 DEF Inv, SessionOK
  <2>3. Marked(checkpoints)' \subseteq Nodes(quad) \cup Marked(checkpoints)
      BY <2>1, <2>2 DEF Marked
  <2> QED
      BY <2>1, <2>3
<1>6. ASSUME NEW cp, RollbackTo(cp) PROVE b \in Nodes(quad) \cup Marked(checkpoints)
  <2> DEFINE out == Rollback(quad, checkpoints, cp)
  <2>1. \/ out.quad = quad /\ out.checkpoints = checkpoints
        \/ out.checkpoints = <<>> /\ \E i \in DOMAIN checkpoints : out.quad = checkpoints[i].quad
      BY RollbackOutcome
  <2>2. quad' = out.quad /\ checkpoints' = out.checkpoints
      BY <1>6 DEF RollbackTo
  <2> HIDE DEF out
  <2>3. DOMAIN <<>> = {}
      OBVIOUS
  <2> QED
      BY <2>1, <2>2, <2>3 DEF Marked
<1>7. CASE Restart
  <2>1. Nodes(EmptyQuad) = {}
      BY DEF Nodes, Live, EmptyQuad
  <2>2. quad' = EmptyQuad /\ checkpoints' = <<>> /\ DOMAIN <<>> = {}
      BY <1>7 DEF Restart
  <2> QED
      BY <2>1, <2>2 DEF Marked
<1>8. ASSUME NEW id, NEW backends, Forget(id, backends)
      PROVE  b \in Nodes(quad) \cup Marked(checkpoints)
  <2>1. quad' = RemoveOne(quad, id) /\ checkpoints' = checkpoints
      BY <1>8 DEF Forget, Execute
  <2>2. Nodes(RemoveOne(quad, id)) \subseteq Nodes(quad)
      BY <1>1, RemoveOneInv DEF Nodes
  <2> QED
      BY <2>1, <2>2 DEF Marked
<1>9. CASE FinishLoad
  <2>1. load.got \in Seq(Loaded)
      BY DEF Inv, LoadOK, Loads
  <2>2. Nodes(InsertAll(quad, load.got)) \subseteq Nodes(quad) \cup Got(load.got)
      BY <1>1, <2>1, InsertAllOutcome DEF Got
  <2>3. quad' = InsertAll(quad, load.got) /\ checkpoints' = checkpoints
      BY <1>9 DEF FinishLoad
  <2> QED
      BY <2>2, <2>3 DEF Marked
<1> QED
    BY <1>2, <1>3, <1>4, <1>5, <1>6, <1>7, <1>8, <1>9

\* What a store holds it held, or a flush brings it.
LEMMA StoresForget ==
    ASSUME Inv, [Next]_vars, NEW b, b \in InTable(redis)' \cup InTable(neo4j)'
    PROVE  b \in InTable(redis) \cup InTable(neo4j) \cup Underway(flush)
<1>1. \/ UNCHANGED <<redis, neo4j>>
      \/ \E w \in Flusher : flush[w].pc = "writing" /\ Put(flush[w])
      \/ Tick
  <2>1. CASE UNCHANGED vars
      BY <2>1 DEF vars
  <2>2. CASE Next
      BY <2>2, Zenon DEF Next, InsertBelief, TakeCheckpoint, RollbackTo, Restart, Forget,
                         BeginFlush, WriteSnapshot, FailWrite, BeginLoad, GetKey, GateRows,
                         FinishLoad, FailLoad
  <2> QED
      BY <2>1, <2>2
<1>2. CASE UNCHANGED <<redis, neo4j>>
    BY <1>2 DEF InTable
<1>3. ASSUME NEW w \in Flusher, flush[w].pc = "writing", Put(flush[w])
      PROVE  b \in InTable(redis) \cup InTable(neo4j) \cup Underway(flush)
  <2> DEFINE f    == flush[w]
             snap == f.snaps[f.n + 1]
  <2>1. f \in Frames /\ f.n < Len(f.snaps)
      BY <1>3 DEF Inv, FlushOK, CallOK
  <2>2. Content(snap) \in Pending(f)
    <3>1. f.n + 1 \in f.n + 1 .. Len(f.snaps)
        BY <2>1 DEF Frames
    <3> QED
        BY <3>1 DEF Pending
  <2>3. Content(snap) \in Underway(flush)
      BY <1>3, <2>2 DEF Underway
  <2>4. \/ redis' = SetKey(redis, snap.key, Written(f)) /\ neo4j' = neo4j
        \/ neo4j' = SetKey(neo4j, snap.key, Merged(f)) /\ redis' = redis
      BY <1>3, PutSets
  <2>5. Written(f).value = snap.value /\ Merged(f).value = snap.value
          /\ Content(snap) = [key |-> snap.key, value |-> snap.value]
      BY DEF Written, Merged, Content
  <2> DEFINE k == snap.key
             v == snap.value
  <2> HIDE DEF f, snap
  <2>6. ASSUME NEW table, NEW kept, kept.value = v
        PROVE  InTable(SetKey(table, k, kept)) \subseteq InTable(table) \cup {[key |-> k, value |-> v]}
      BY <2>6 DEF InTable, SetKey
  <2>7. InTable(redis)' \cup InTable(neo4j)'
          \subseteq InTable(redis) \cup InTable(neo4j) \cup {Content(snap)}
      BY <2>4, <2>5, <2>6 DEF InTable
  <2> QED
      BY <2>3, <2>7 DEF f
<1>4. CASE Tick
  <2>1. neo4j' = neo4j /\ \E D \in SUBSET DOMAIN redis : redis' = Restrict(redis, D)
      BY <1>4 DEF Tick
  <2>2. \A D \in SUBSET DOMAIN redis : InTable(Restrict(redis, D)) \subseteq InTable(redis)
      BY DEF InTable, Restrict
  <2> QED
      BY <2>1, <2>2 DEF InTable
<1> QED
    BY <1>1, <1>2, <1>3, <1>4

\* What a load holds it held, or a store does.
LEMMA LoadForgets ==
    ASSUME Inv, [Next]_vars, NEW b, b \in InTable(load.rows)' \cup Got(load.got)'
    PROVE  b \in InTable(redis) \cup InTable(neo4j) \cup InTable(load.rows) \cup Got(load.got)
<1>1. \/ UNCHANGED load
      \/ load' = NoLoad
      \/ \E store \in Store, decay \in DecayIn : BeginLoad(store, decay)
      \/ GetKey
      \/ GateRows
  <2>1. CASE UNCHANGED vars
      BY <2>1 DEF vars
  <2>2. CASE Next
      BY <2>2, Zenon DEF Next, InsertBelief, TakeCheckpoint, RollbackTo, Restart, Forget,
                         BeginFlush, WriteSnapshot, FailWrite, FinishLoad, FailLoad, Tick
  <2> QED
      BY <2>1, <2>2
<1>2. load \in Loads /\ IsFiniteSet(DOMAIN load.rows)
    BY DEF Inv, LoadOK
<1>3. load = [pc |-> load.pc, store |-> load.store, decay |-> load.decay, keys |-> load.keys,
              rows |-> load.rows, got |-> load.got]
    BY <1>2 DEF Loads
<1>4. /\ NoLoad = [pc |-> "idle", store |-> "redis", decay |-> 0, keys |-> <<>>,
                   rows |-> [k \in {} |-> None], got |-> <<>>]
      /\ InTable(NoLoad.rows) = {} /\ Got(NoLoad.got) = {} /\ Got(<<>>) = {}
    BY DEF NoLoad, InTable, Got
<1>5. ASSUME NEW rows, NEW got, load'.rows = rows, load'.got = got
      PROVE  b \in InTable(rows) \cup Got(got)
    BY <1>5 DEF InTable, Got
<1>6. CASE UNCHANGED load
    BY <1>6 DEF InTable, Got
<1>7. CASE load' = NoLoad
    BY <1>4, <1>7 DEF InTable, Got
<1>8. ASSUME NEW store \in Store, NEW decay \in DecayIn, BeginLoad(store, decay)
      PROVE  b \in InTable(neo4j)
  <2>1. CASE store = "redis"
    <3>1. PICK keys \in SetToSeqs(DOMAIN redis) :
            load' = [NoLoad EXCEPT !.pc = "get", !.decay = decay, !.keys = keys]
        BY <1>8, <2>1 DEF BeginLoad
    <3>2. load'.rows = NoLoad.rows /\ load'.got = NoLoad.got
        BY <1>4, <3>1
    <3> QED
        BY <1>4, <1>5, <3>2
  <2>2. CASE store # "redis"
    <3> DEFINE rows == Restrict(neo4j, DOMAIN neo4j \cap Schema)
    <3>1. load' = [NoLoad EXCEPT !.pc = "gate", !.store = "neo4j", !.decay = decay, !.rows = rows]
        BY <1>8, <2>2 DEF BeginLoad
    <3>2. InTable(rows) \subseteq InTable(neo4j)
        BY DEF InTable, Restrict
    <3> HIDE DEF rows
    <3>3. load'.rows = rows /\ load'.got = <<>>
        BY <1>4, <3>1
    <3> QED
        BY <1>4, <1>5, <3>2, <3>3
  <2> QED
      BY <2>1, <2>2
<1>9. CASE GetKey
  <2> DEFINE k == Head(load.keys)
             entry == [node |-> LoadedNode(k, redis[k], IF redis[k].slow = None THEN None
                                                        ELSE Decayed(redis[k].slow, load.decay)),
                       age  |-> clock - redis[k].written,
                       policy |-> redis[k].policy]
             got  == IF k \notin DOMAIN redis THEN load.got ELSE Append(load.got, entry)
             keys == Tail(load.keys)
  <2>1. load' = [load EXCEPT !.keys = keys, !.got = got]
      BY <1>9 DEF GetKey
  <2>2. Content(entry.node) = [key |-> k, value |-> redis[k].value]
      BY DEF LoadedNode, Content
  <2>3. load.got \in Seq(Loaded)
      BY <1>2 DEF Loads
  <2> HIDE DEF k, entry, keys
  <2>4. Got(got) \subseteq Got(load.got) \cup InTable(redis)
    <3>1. CASE k \notin DOMAIN redis
        BY <3>1
    <3>2. CASE k \in DOMAIN redis
      <4>1. got = Append(load.got, entry)
          BY <3>2
      <4> HIDE DEF got
      <4>2. \A i \in DOMAIN got : (i \in DOMAIN load.got /\ got[i] = load.got[i]) \/ got[i] = entry
          BY <2>3, <4>1
      <4> QED
          BY <2>2, <3>2, <4>2 DEF Got, InTable
    <3> QED
        BY <3>1, <3>2
  <2> HIDE DEF got
  <2>5. load'.rows = load.rows /\ load'.got = got
      BY <1>3, <2>1
  <2> QED
      BY <1>5, <2>4, <2>5
<1>10. CASE GateRows
  <2>1. PICK keys \in SetToSeqs(LiveRows) :
          load' = [load EXCEPT !.pc = "get", !.keys = <<>>,
                     !.got = [i \in DOMAIN keys |->
                                [node |-> LoadedNode(keys[i], load.rows[keys[i]], None),
                                 age  |-> clock - load.rows[keys[i]].updated,
                                 policy |-> LoadPolicy]]]
      BY <1>10, Zenon DEF GateRows
  <2> DEFINE got == [i \in DOMAIN keys |->
                       [node |-> LoadedNode(keys[i], load.rows[keys[i]], None),
                        age  |-> clock - load.rows[keys[i]].updated,
                        policy |-> LoadPolicy]]
  <2>2. LiveRows \in SUBSET DOMAIN load.rows
      BY DEF LiveRows
  <2>3. IsFiniteSet(LiveRows)
      BY <1>2, <2>2, FS_Subset
  <2>4. keys \in Seq(LiveRows)
      BY <2>1, <2>3, ListsOfASet
  <2>5. \A i \in DOMAIN keys : keys[i] \in DOMAIN load.rows
      BY <2>2, <2>4
  <2>6. load' = [load EXCEPT !.pc = "get", !.keys = <<>>, !.got = got]
      BY <2>1
  <2>7. Got(got) \subseteq InTable(load.rows)
      BY <2>5 DEF Got, Content, LoadedNode, InTable
  <2> HIDE DEF got
  <2>8. load'.rows = load.rows /\ load'.got = got
      BY <1>3, <2>6
  <2>9. b \in InTable(load.rows) \cup Got(got)
      BY <1>5, <2>8, Zenon
  <2> QED
      BY <2>7, <2>9, Zenon
<1> QED
    BY <1>1, <1>6, <1>7, <1>8, <1>9, <1>10

\* What a flush is about to write it was about to write before, or the session
\* holds it.
LEMMA FlushForgets ==
    ASSUME Inv, [Next]_vars, NEW b, b \in Underway(flush)'
    PROVE  b \in Underway(flush) \cup Nodes(quad)
<1>1. PICK w \in Flusher : flush'[w].pc = "writing" /\ b \in Pending(flush'[w])
    BY DEF Underway
<1>2. PICK i \in flush'[w].n + 1 .. Len(flush'[w].snaps) : b = Content(flush'[w].snaps[i])
    BY <1>1 DEF Pending
<1> DEFINE c == flush[w]
           d == flush'[w]
<1>3. ASSUME c.pc = "writing", d.snaps = c.snaps, d.n = c.n \/ d.n = c.n + 1
      PROVE  b \in Underway(flush)
  <2>1. c \in Frames
      BY DEF Inv, FlushOK
  <2>2. c.n \in Nat /\ Len(c.snaps) \in Nat
      BY <2>1 DEF Frames
  <2>3. i \in c.n + 1 .. Len(c.snaps)
      BY <1>2, <1>3, <2>2
  <2>4. b \in Pending(c)
      BY <1>2, <1>3, <2>3 DEF Pending
  <2> QED
      BY <1>3, <2>4 DEF Underway
<1>4. c \in Frames
    BY DEF Inv, FlushOK
<1>5. \/ UNCHANGED flush
      \/ Restart
      \/ \E v \in Flusher : \E store, policy : BeginFlush(v, store, policy)
      \/ \E v \in Flusher : WriteSnapshot(v) \/ FailWrite(v)
  <2>1. CASE UNCHANGED vars
      BY <2>1 DEF vars
  <2>2. CASE Next
      BY <2>2, Zenon DEF Next, InsertBelief, TakeCheckpoint, RollbackTo, Forget, BeginLoad,
                         GetKey, GateRows, FinishLoad, FailLoad, Tick
  <2> QED
      BY <2>1, <2>2
<1>6. CASE UNCHANGED flush
    BY <1>1, <1>3, <1>6
<1>7. CASE Restart
  <2>1. d = c \/ d = [c EXCEPT !.pc = "failed"]
      BY <1>7 DEF Restart
  <2>2. d = c
    <3>1. d = [c EXCEPT !.pc = "failed"] => d.pc = "failed"
        BY <1>4, FrameFailed
    <3> QED
        BY <1>1, <2>1, <3>1
  <2> QED
      BY <1>1, <1>3, <2>2
<1>8. ASSUME NEW v \in Flusher, NEW store, NEW policy, BeginFlush(v, store, policy)
      PROVE  b \in Underway(flush) \cup Nodes(quad)
  <2>1. v # w => d = c
      BY <1>8 DEF BeginFlush, Inv, FlushOK
  <2>2. v = w => d.snaps = SessionSnapshots /\ d.n = 0
      BY <1>8 DEF BeginFlush, Inv, FlushOK
  <2>3. CASE v = w
    <3>1. SessionSnapshots \in Seq({quad.nodes[id] : id \in Live(quad)})
        BY SnapshotsType DEF Inv, SessionOK
    <3>2. i \in 1 .. Len(SessionSnapshots) /\ b = Content(SessionSnapshots[i])
        BY <1>2, <2>2, <2>3
    <3>3. SessionSnapshots[i] \in {quad.nodes[id] : id \in Live(quad)}
        BY <3>1, <3>2
    <3> QED
        BY <3>2, <3>3 DEF Nodes
  <2> QED
      BY <1>1, <1>3, <2>1, <2>3
<1>9. ASSUME NEW v \in Flusher, WriteSnapshot(v) \/ FailWrite(v)
      PROVE  b \in Underway(flush)
  <2>1. flush[v].pc = "writing" /\ flush[v] \in Frames
      BY <1>9 DEF WriteSnapshot, FailWrite, Inv, FlushOK
  <2>2. \/ flush' = [flush EXCEPT ![v].pc = "failed"]
        \/ \E f : /\ Disturb(v, f)
                  /\ f.snaps = flush[v].snaps /\ f.n = flush[v].n + 1
    <3>1. ASSUME NEW pc
          PROVE  /\ [flush[v] EXCEPT !.n = @ + 1, !.pc = pc].snaps = flush[v].snaps
                 /\ [flush[v] EXCEPT !.n = @ + 1, !.pc = pc].n = flush[v].n + 1
                 /\ [flush[v] EXCEPT !.pc = pc, !.n = @ + 1].snaps = flush[v].snaps
                 /\ [flush[v] EXCEPT !.pc = pc, !.n = @ + 1].n = flush[v].n + 1
        BY <2>1 DEF Frames
    <3>2. CASE WriteSnapshot(v)
      <4> DEFINE pc == IF flush[v].n + 1 = Len(flush[v].snaps) THEN "done" ELSE flush[v].pc
                 f  == [flush[v] EXCEPT !.n = @ + 1, !.pc = pc]
      <4>1. Disturb(v, f)
        <5>1. f = [flush[v] EXCEPT !.n = @ + 1,
                                   !.pc = IF flush[v].n + 1 = Len(flush[v].snaps) THEN "done" ELSE @]
            BY <2>1 DEF Frames
        <5> HIDE DEF f
        <5> QED
            BY <3>2, <5>1 DEF WriteSnapshot
      <4>2. f.snaps = flush[v].snaps /\ f.n = flush[v].n + 1
          BY <3>1
      <4> HIDE DEF f
      <4> QED
          BY <4>1, <4>2
    <3>3. CASE FailWrite(v)
        BY <3>1, <3>3 DEF FailWrite
    <3> QED
        BY <1>9, <3>2, <3>3
  <2>3. CASE flush' = [flush EXCEPT ![v].pc = "failed"]
    <3>1. v # w => d = c
        BY <2>3 DEF Inv, FlushOK
    <3>2. v = w => d = [c EXCEPT !.pc = "failed"]
        BY <2>3 DEF Inv, FlushOK
    <3>3. v # w
        BY <1>1, <1>4, <3>2, FrameFailed
    <3> QED
        BY <1>1, <1>3, <3>1, <3>3
  <2>4. ASSUME NEW f, Disturb(v, f), f.snaps = flush[v].snaps, f.n = flush[v].n + 1
        PROVE  b \in Underway(flush)
    <3>1. CASE v = w
        BY <1>3, <2>1, <2>4, <3>1 DEF Disturb
    <3>2. CASE v # w
      <4> DEFINE a == c.alone /\ c.store # f.store
      <4>1. d = [c EXCEPT !.alone = a] /\ a \in BOOLEAN
          BY <1>4, <2>4, <3>2 DEF Disturb, Frames
      <4> HIDE DEF a
      <4>2. d.pc = c.pc /\ d.snaps = c.snaps /\ d.n = c.n
          BY <1>4, <4>1, FrameDisturbed
      <4> QED
          BY <1>1, <1>3, <4>2
    <3> QED
        BY <3>1, <3>2
  <2> QED
      BY <2>2, <2>3, <2>4
<1> QED
    BY <1>5, <1>6, <1>7, <1>8, <1>9

-----------------------------------------------------------------------------
(* Verdicts *)

\* A belief that loses a path of support by a removal is downstream of what was
\* removed: the path's edge led to it from there.
LEMMA LossIsDownstream ==
    ASSUME NEW q, QuadInv(q), NEW id \in Live(q), NEW other \in Live(RemoveOne(q, id)),
           SupportPaths(RemoveOne(q, id), other) # SupportPaths(q, other)
    PROVE  other \in Descendants(q, id)
<1> DEFINE r == RemoveOne(q, id)
           E == q.graphs["causal"].edges
<1>1. other # id
    BY RemoveOneInv
<1>2. r.graphs["causal"].edges = {e \in E : e.from # id /\ e.to # id}
  <2>1. r.graphs = [g \in Projection |-> DropNodes(q.graphs[g], Range(<<id>>))]
      BY DEF RemoveOne, RemoveAll
  <2>2. Range(<<id>>) = {id}
      BY DEF Range
  <2> HIDE DEF r
  <2> QED
      BY <2>1, <2>2 DEF Projection, DropNodes
<1> HIDE DEF r
<1>3. PICK e \in E : e.to = other /\ e.from = id
  <2>1. SupportPaths(r, other) # SupportPaths(q, other)
      BY DEF r
  <2>2. (\A e \in E : e.to = other => e.from # id) => SupportPaths(r, other) = SupportPaths(q, other)
      BY <1>1, <1>2 DEF SupportPaths
  <2> QED
      BY <2>1, <2>2
<1>4. e.to \in {id} \cup Descendants(q, id)
    BY <1>3, DescendantsClosed
<1> QED
    BY <1>1, <1>3, <1>4

-----------------------------------------------------------------------------
(* The theorems *)

LEMMA Invariance == Spec => []Inv
<1> QED
    BY InitInv, NextInv, PTL DEF Spec

\* FlushLeavesPrefix: however many flushes run at a time, and whenever one of
\* them fails, what a call whose store nobody else wrote to has left there is a
\* prefix of its snapshots, less what has expired.
THEOREM FlushLeavesPrefix == Spec => []PrefixWritten
<1>1. Inv => PrefixWritten
  <2> SUFFICES ASSUME Inv, NEW w \in Flusher, flush[w].pc # "idle", flush[w].alone
               PROVE  /\ flush[w].pc = "done" => flush[w].n = Len(flush[w].snaps)
                      /\ \A k \in Key :
                           LET call == flush[w]
                               mine == {i \in 1 .. call.n : call.snaps[i].key = k}
                               kept == Kept(call.store)
                           IN  IF mine # {}
                               THEN IF k \in DOMAIN kept
                                    THEN Shown(kept[k]) = Shown(call.snaps[Max(mine)])
                                    ELSE call.store = "redis" /\ TtlSeconds(call.policy) # None
                               ELSE IF k \in DOMAIN kept
                                    THEN k \in DOMAIN call.before /\ kept[k] = call.before[k]
                                    ELSE k \in DOMAIN call.before =>
                                           call.store = "redis" /\ call.before[k].expires # None
      BY DEF PrefixWritten
  <2>1. CallOK(flush[w], Kept(flush[w].store), clock)
      BY DEF Inv, FlushOK
  <2>2. /\ flush[w].pc = "done" => flush[w].n = Len(flush[w].snaps)
        /\ \A k \in Key : Left(flush[w], Kept(flush[w].store), k)
      BY <2>1 DEF CallOK
  <2> QED
      BY <2>2 DEF Left
<1> QED
    BY <1>1, Invariance, PTL

\* LoadsInTime: no load hands out a belief past the retention of its policy,
\* whatever was flushed, expired or fetched before and however long the load
\* takes.
THEOREM LoadsInTime == Spec => []LoadedWithinRetention
<1>1. Inv => LoadedWithinRetention
    BY DEF Inv, LoadOK
<1> QED
    BY <1>1, Invariance, PTL

\* Erasure: a belief that was erased, and has since left the checkpoints, the
\* stores and the calls in progress too, is brought back by no rollback, load,
\* failed call or restart, but only by a caller who states it again.
THEOREM Erasure == Spec => ErasedForGood
<1> DEFINE P == \A belief \in erased \cap erased' : belief \notin Somewhere => belief \notin Somewhere'
<1>1. Inv /\ [Next]_vars => P
  <2> SUFFICES ASSUME Inv, [Next]_vars, NEW b \in erased', b \in Somewhere' PROVE b \in Somewhere
      OBVIOUS
  <2>1. b \in Nodes(quad)' \cup Marked(checkpoints)' \cup InTable(redis)' \cup InTable(neo4j)'
                \cup InTable(load.rows)' \cup Got(load.got)' \cup Underway(flush)'
      BY DEF Somewhere
  <2>2. CASE b \in Nodes(quad)' \cup Marked(checkpoints)'
      BY <2>2, SessionForgets DEF Somewhere
  <2>3. CASE b \in InTable(redis)' \cup InTable(neo4j)'
      BY <2>3, StoresForget DEF Somewhere
  <2>4. CASE b \in InTable(load.rows)' \cup Got(load.got)'
      BY <2>4, LoadForgets DEF Somewhere
  <2>5. CASE b \in Underway(flush)'
      BY <2>5, FlushForgets DEF Somewhere
  <2> QED
      BY <2>1, <2>2, <2>3, <2>4, <2>5
<1>2. Inv /\ [Next]_vars => [P]_vars
    BY <1>1
<1>3. Spec => [][P]_vars
    BY <1>2, Invariance, PTL DEF Spec
<1> QED
    BY <1>3 DEF ErasedForGood

\* SupportReported: an erasure's verdict names every belief it takes a path of
\* support from, whatever the causal graph; Verified leaves none behind.
THEOREM SupportReported == Spec => LostSupportIsReported
<1> DEFINE Reports(id, backends) ==
             /\ \A other \in Live(quad') :
                  SupportPaths(quad', other) # SupportPaths(quad, other) => other \in verdict'.remaining
             /\ verdict'.result = "Verified" => backends = {}
             /\ verdict'.result # "VerificationError" => id \in Live(quad) \ Live(quad')
           P == \A id \in Handles, backends \in {{}, Store} : Forget(id, backends) => Reports(id, backends)
<1>1. Inv /\ [Next]_vars => P
  <2> SUFFICES ASSUME Inv, NEW id, NEW backends, Forget(id, backends) PROVE Reports(id, backends)
      OBVIOUS
  <2> DEFINE v == CausalVerify(id, quad)
             D == Descendants(quad, id)
  <2>1. QuadInv(quad)
      BY DEF Inv, SessionOK
  <2>2. /\ quad' = RemoveOne(quad, id)
        /\ verdict' = IF backends # {} /\ v.result = "Verified"
                      THEN [NoVerdict EXCEPT !.result = "PersistenceNotVerified",
                                             !.backends = backends]
                      ELSE v
      BY DEF Forget, Execute
  <2>3. /\ id \notin Live(quad) => v.result = "VerificationError"
        /\ id \in Live(quad) =>
             v = [result |-> IF D = {} THEN "Verified" ELSE "PartialDeletion",
                  remaining |-> D, backends |-> {}]
    <3> HIDE DEF D
    <3> QED
        BY DEF CausalVerify, NoVerdict, D
  <2> HIDE DEF v, D
  <2>4. /\ v.result = "Verified" => D = {} /\ id \in Live(quad)
        /\ id \in Live(quad) => verdict'.remaining = D
        /\ id \notin Live(quad) => verdict'.result = "VerificationError"
        /\ verdict'.result = "Verified" => backends = {}
      BY <2>2, <2>3 DEF NoVerdict
  <2>5. CASE id \notin Live(quad)
    <3>1. quad' = quad
        BY <2>2, <2>5 DEF RemoveOne
    <3> QED
        BY <2>4, <2>5, <3>1
  <2>6. CASE id \in Live(quad)
    <3>1. Live(quad') = Live(quad) \ {id}
        BY <2>1, <2>2, RemoveOneInv
    <3>2. \A other \in Live(quad') :
            SupportPaths(quad', other) # SupportPaths(quad, other) => other \in D
        BY <2>1, <2>2, <2>6, LossIsDownstream DEF D
    <3> QED
        BY <2>4, <2>6, <3>1, <3>2
  <2> QED
      BY <2>5, <2>6
<1>2. Inv /\ [Next]_vars => [P]_vars
    BY <1>1
<1>3. Spec => [][P]_vars
    BY <1>2, Invariance, PTL DEF Spec
<1> QED
    BY <1>3 DEF LostSupportIsReported

=============================================================================

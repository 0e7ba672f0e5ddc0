--------------------------- MODULE InsertPipeline ---------------------------
(***************************************************************************)
(* insert_belief with a prospective client, an embedder and a monitor      *)
(* attached: the belief is in the quad after the first step; generating    *)
(* and embedding its scenarios, storing them and observing the free energy *)
(* follow over awaits, while updates and rollbacks change the quad.  The   *)
(* retrieval that the scenarios are for is a query of the quad.            *)
(***************************************************************************)
EXTENDS ActiveInference

CONSTANTS Task,          \* tasks inserting beliefs
          Topic,         \* what scenarios and queries are about
          Similarity,    \* cosine of the embeddings of two topics
          Generated,     \* sequences of topics a client may answer with
          InitialQuads,  \* quads a runtime may be created around
          Inserted,      \* beliefs callers insert: [key, value, fast, slow]
          ConfIn,        \* confidences callers pass to updates
          Prospected,    \* keys whose beliefs carry the prospect flag
          Query,         \* topics queried for; None if the embedder fails
          Perishable,    \* keys whose beliefs have a ttl
          Budgets,       \* token budgets of queries
          Standings,     \* slot -> 20 centrality - 10 decay penalty of its belief
          MaxInserts,    \* bound: insertions
          MaxChanges     \* bound: updates, checkpoints, rollbacks and resets

\* A quad up to what its prospective index holds: the value each belief's
\* scenarios were generated from may not be the one it has.
WithoutIndex(q) ==
    [nodes |-> q.nodes, gens |-> q.gens, free |-> q.free, graphs |-> q.graphs,
     prospective |-> [id \in {} |-> None], equivalent |-> q.equivalent,
     version |-> q.version]

WellFormed(q) ==
    /\ q = [nodes |-> q.nodes, gens |-> q.gens, free |-> q.free,
            graphs |-> q.graphs, prospective |-> q.prospective,
            equivalent |-> q.equivalent, version |-> q.version]
    /\ QuadInv(WithoutIndex(q))
    /\ \A id \in DOMAIN q.prospective :
         q.prospective[id].entries \in Seq(Topic \cup {None})

ASSUME PipelineAssumption ==
    /\ \A q \in InitialQuads : WellFormed(q)
    /\ Similarity \in [Topic \X Topic -> -Scale .. Scale]
    /\ Generated \subseteq Seq(Topic) /\ Prospected \cup Perishable \subseteq Key
    /\ Query \subseteq Topic \cup {None}
    /\ Inserted \subseteq Node /\ ConfIn \subseteq Int /\ Budgets \subseteq Nat
    /\ \A standing \in Standings : standing \in [DOMAIN standing -> Int]
    /\ {MaxInserts, MaxChanges} \subseteq Nat

VARIABLES quad,         \* prospective[id]: [key, value, entries], what the
                        \* scenarios were generated from and their embeddings
          checkpoints,  \* [id, quad]
          keyIndex,     \* key -> BeliefId
          monitor,      \* the ActiveInferenceMonitor
          signals,      \* the SurpriseSignals since it was made or reset
          task,         \* what each inserting task is doing
          inserts, changes  \* how many there were

vars == <<quad, checkpoints, keyIndex, monitor, signals, task, inserts, changes>>

Idle == [pc |-> "idle", key |-> None, value |-> None,
         id |-> None, about |-> None, raw |-> <<>>, entries |-> <<>>]

Init ==
    /\ quad \in InitialQuads
    /\ checkpoints = <<>>
    /\ keyIndex = [k \in {quad.nodes[id].key : id \in Live(quad)} |->
                     CHOOSE id \in Holders(quad, k) : TRUE]
    /\ monitor = NewMonitor
    /\ signals = <<>>
    /\ task = [t \in Task |-> Idle]
    /\ inserts = 0 /\ changes = 0

-----------------------------------------------------------------------------
(* insert_belief *)

Goto(t, pc) == task' = [task EXCEPT ![t].pc = pc]

InsertNode(t, node) ==
    /\ task[t].pc = "idle"
    /\ inserts < MaxInserts
    /\ inserts' = inserts + 1
    /\ quad' = Insert(quad, node)
    /\ task' = [task EXCEPT ![t] = [Idle EXCEPT !.pc = "index", !.id = NextId(quad),
                                                !.key = node.key, !.value = node.value]]
    /\ UNCHANGED <<checkpoints, keyIndex, monitor, signals, changes>>

IndexKey(t) ==
    /\ task[t].pc = "index"
    /\ keyIndex' = [k \in DOMAIN keyIndex \cup {task[t].key} |->
                      IF k = task[t].key THEN task[t].id ELSE keyIndex[k]]
    /\ Goto(t, IF task[t].key \in Prospected THEN "readkey" ELSE "observe")
    /\ UNCHANGED <<quad, checkpoints, monitor, signals, inserts, changes>>

\* The key the client is told is that of the id now; the value is the one
\* that was inserted.
ReadKey(t) ==
    /\ task[t].pc = "readkey"
    /\ task' = [task EXCEPT ![t].pc = "generate",
                            ![t].about = IF task[t].id \in Live(quad)
                                         THEN quad.nodes[task[t].id].key ELSE None]
    /\ UNCHANGED <<quad, checkpoints, keyIndex, monitor, signals, inserts, changes>>

\* What a client returns: the scenarios of its tool call, none perhaps; or an
\* error (the network, 429 or another status, no such tool call), which is not
\* retried.
GenerateScenarios == Generated \cup {None}

Generate(t) ==
    /\ task[t].pc = "generate"
    /\ \E raw \in GenerateScenarios :
         IF raw = None THEN Goto(t, "observe")
         ELSE task' = [task EXCEPT ![t].pc = IF raw = <<>> THEN "store" ELSE "embed",
                                   ![t].raw = raw]
    /\ UNCHANGED <<quad, checkpoints, keyIndex, monitor, signals, inserts, changes>>

\* One scenario after the other; one whose embedding fails stays, without.
EmbedScenario(t) ==
    /\ task[t].pc = "embed"
    /\ \E vector \in {Head(task[t].raw), None} :
         task' = [task EXCEPT ![t].pc = IF Tail(task[t].raw) = <<>> THEN "store" ELSE "embed",
                              ![t].raw = Tail(@), ![t].entries = Append(@, vector)]
    /\ UNCHANGED <<quad, checkpoints, keyIndex, monitor, signals, inserts, changes>>

\* The write lock is taken again; neither the belief nor its value is.
StoreScenarios(t) ==
    /\ task[t].pc = "store"
    /\ LET stored == [key |-> task[t].about, value |-> task[t].value, entries |-> task[t].entries]
       IN  quad' = [quad EXCEPT !.prospective =
                      [id \in DOMAIN @ \cup {task[t].id} |->
                         IF id = task[t].id THEN stored ELSE quad.prospective[id]]]
    /\ Goto(t, "observe")
    /\ UNCHANGED <<checkpoints, keyIndex, monitor, signals, inserts, changes>>

\* The quad's read lock is held while the monitor's is taken, so the energy is
\* that of one quad; a belief that is gone is not observed.
ObserveInsert(t) ==
    /\ task[t].pc = "observe"
    /\ IF task[t].id \in Live(quad)
       THEN LET seen == Observe(monitor, QuadFreeEnergy(quad, quad.nodes[task[t].id]))
            IN  monitor' = seen.monitor /\ signals' = Append(signals, seen.signal)
       ELSE UNCHANGED <<monitor, signals>>
    /\ task' = [task EXCEPT ![t] = Idle]
    /\ UNCHANGED <<quad, checkpoints, keyIndex, inserts, changes>>

-----------------------------------------------------------------------------
(* What other tasks do meanwhile *)

Change == changes < MaxChanges /\ changes' = changes + 1

\* The write section of update_belief, of a belief found under its key.
UpdateBelief(k, v, c) ==
    /\ Change
    /\ k \in DOMAIN keyIndex
    /\ \E out \in Revise(quad, keyIndex[k], v, c) :
         IF out.result \in {"BeliefNotFound", "PostulateViolation"}
         THEN quad' = out.quad
         ELSE quad' \in Propagate(out.quad, [id \in Live(out.quad) |-> Scale], keyIndex[k])
    /\ UNCHANGED <<checkpoints, keyIndex, monitor, signals, task, inserts>>

TakeCheckpoint ==
    /\ Change
    /\ checkpoints' = Append(checkpoints, [id |-> changes, quad |-> quad])
    /\ UNCHANGED <<quad, keyIndex, monitor, signals, task, inserts>>

RollbackTo(cp) ==
    /\ Change
    /\ LET out == Rollback(quad, checkpoints, cp)
       IN  /\ quad' = out.quad
           /\ checkpoints' = out.checkpoints
    /\ UNCHANGED <<keyIndex, monitor, signals, task, inserts>>

\* reset, by whoever shares the monitor.
ResetMonitor ==
    /\ Change
    /\ signals # <<>>
    /\ monitor' = NewMonitor
    /\ signals' = <<>>
    /\ UNCHANGED <<quad, checkpoints, keyIndex, task, inserts>>

-----------------------------------------------------------------------------
(* retrieve_for_query *)

MaxProspectiveSim(id, query) ==
    IF query = None \/ id \notin DOMAIN quad.prospective THEN 0
    ELSE Max({0} \cup {Similarity[topic, query] :
                         topic \in Range(quad.prospective[id].entries) \ {None}})

\* compute_score; what centrality and decay contribute is in standing, 0 for a
\* slot it does not name.
Score(id, query, standing) ==
    45 * MaxProspectiveSim(id, query) + 25 * (Scale - quad.nodes[id].fast)
      + IF Slot(id) \in DOMAIN standing THEN standing[Slot(id)] ELSE 0

Scores(ids, query, standing) == [id \in ids |-> Score(id, query, standing)]

Allowed(budget) == Max({budget \div 100, 1})

\* The arena is iterated in slot order and sort_by is stable: of two beliefs
\* with one score the one in the lower slot is ahead.
Ahead(score, o, id) ==
    score[o] > score[id] \/ (score[o] = score[id] /\ Slot(o) < Slot(id))

\* The belief with i - 1 others ahead of it is the i-th.
Ranked(score) ==
    [i \in 1 .. Cardinality(DOMAIN score) |->
       CHOOSE id \in DOMAIN score :
         Cardinality({o \in DOMAIN score : Ahead(score, o, id)}) = i - 1]

FilterLast(query, budget, expired, standing) ==  \* mutant: expired beliefs take places
    LET scored == Ranked(Scores(Live(quad), query, standing))
    IN  SelectSeq(SubSeq(scored, 1, Min({Len(scored), Allowed(budget)})),
                  LAMBDA id : id \notin expired)

\* The beliefs returned, best first: query is None when it could not be
\* embedded, expired are those past their ttl at that moment.
Retrieve(query, budget, expired, standing) ==
    LET scored == Ranked(Scores(Live(quad) \ expired, query, standing))
    IN  [i \in 1 .. Min({Len(scored), Allowed(budget)}) |-> scored[i]]

-----------------------------------------------------------------------------
Proceed(t) ==
    \/ IndexKey(t)
    \/ ReadKey(t)
    \/ Generate(t)
    \/ EmbedScenario(t)
    \/ StoreScenarios(t)
    \/ ObserveInsert(t)

Next ==
    \/ \E t \in Task, node \in Inserted : InsertNode(t, node)
    \/ \E t \in Task : Proceed(t)
    \/ \E k \in Key, v \in Value, c \in ConfIn : UpdateBelief(k, v, c)
    \/ TakeCheckpoint
    \/ \E i \in DOMAIN checkpoints : RollbackTo(checkpoints[i].id)
    \/ ResetMonitor

Spec == Init /\ [][Next]_vars

-----------------------------------------------------------------------------
(* Properties *)

Snapshots == {checkpoints[i].quad : i \in DOMAIN checkpoints}

\* Type invariant of the tasks, the index and the monitor.
TypeOK ==
    /\ keyIndex \in [DOMAIN keyIndex -> BeliefId] /\ DOMAIN keyIndex \subseteq Key
    /\ \A q \in {quad} \cup Snapshots :
         /\ q.nodes \in [Live(q) -> Node]
         /\ \A id \in DOMAIN q.prospective :
              q.prospective[id].entries \in Seq(Topic \cup {None})
    /\ monitor.history \in Seq(Nat) /\ Len(monitor.history) <= Capacity
    /\ monitor.observations = Len(signals)
    /\ \A t \in Task :
         task[t].pc \in {"idle", "index", "readkey", "generate", "embed", "store", "observe"}

Stale(q, id) ==
    id \in DOMAIN q.prospective /\
      (id \notin Live(q) \/ q.prospective[id].value # q.nodes[id].value)

\* Scenarios of a value that a belief does not hold, or of no belief, come
\* from one place: a task that stores what it generated before its belief was
\* revised or rolled back.  A revision, a contraction or a rollback leaves
\* none behind, except those a restored checkpoint was taken with.
StaleOnlyByLateStore ==
    [][\A id \in DOMAIN quad'.prospective :
         (Stale(quad', id) /\ ~Stale(quad, id)) =>
           \/ \E t \in Task : task[t].pc = "store" /\ task'[t].pc = "observe" /\ task[t].id = id
           \/ \E s \in Snapshots : Stale(s, id)]_vars

\* Whatever has expired and whatever the scenarios are, a query returns as
\* many of the other beliefs as its budget allows, one at least, none better
\* is left out, and a larger budget only appends.
RetrievalRanked ==
    \A query \in Query, standing \in Standings,
       expired \in {{}} \cup {Holders(quad, k) : k \in Perishable} :
      LET open     == Live(quad) \ expired
          score(id) == Score(id, query, standing)
      IN  \A b \in Budgets : \A answer \in {Retrieve(query, b, expired, standing)} :
            /\ Range(answer) \subseteq open /\ IsInjective(answer)
            /\ Len(answer) = Min({Cardinality(open), Allowed(b)})
            /\ \A i \in DOMAIN answer \ {1} : score(answer[i - 1]) >= score(answer[i])
            /\ \A out \in open \ Range(answer) : score(out) <= score(Last(answer))
            /\ \A more \in Budgets :
                 more > b => IsPrefix(answer, Retrieve(query, more, expired, standing))

Energy(i) == signals[i].energy

\* Every signal compares its observation with the observations before it, at
\* most Capacity of them, whichever tasks they were of.
SignalsAboutThePast ==
    \A i \in DOMAIN signals :
      LET first == Max({1, i - Capacity})
      IN  signals[i].past = Moments([j \in 1 .. i - first |-> Energy(first + j - 1)])

\* The credit is used up exactly when some run of observations up to the
\* present one cost more than it gave back by at least the whole budget: one
\* spike or a stream of small surprises, and no quiet time before it helps.
\* The run that starts at i + 1 is empty: a budget of 0 is used up from the
\* start.
CreditIsRecentExcess ==
    \A i \in DOMAIN signals :
      signals[i].remaining = 0 <=>
        \E first \in 1 .. i + 1 :
          SumOf([j \in 1 .. i - first + 1 |-> Energy(first + j - 1) - Refill]) >= Budget

=============================================================================

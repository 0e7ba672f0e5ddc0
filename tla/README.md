# Epica: a verification development in TLA+

Epica is a Rust runtime for the beliefs of an LLM agent. A belief is a key, a
value and a confidence; beliefs are nodes of a *quad* of four graphs; a new
value for a belief is accepted by AGM revision, which contracts what supports
the old value; contracts are enforced around every update, with checkpoints to
roll back to; a slow reflection by an LLM may follow. This directory models
that machinery in TLA+, checks it with TLC and proves part of it with TLAPS.
All line references below are relative to `src/crates/`.

## 1. Inventory

### Components, their state and their operations

| component | code | state | operations that change it |
|---|---|---|---|
| Belief quad | `epica-core/src/quad/` | slot arena of nodes (slotmap: generations, free list), four graph projections (semantic, temporal, causal, entity), version counter, installed embedding provider and thresholds | `insert`, `remove`, `get_mut`, four `add_*_edge`, `set_embedding_provider` and its like |
| AGM revision | `epica-core/src/revision/` | none of its own: it changes the quad | `revise` (audit, contraction, expansion) |
| Checkpoints | `epica-core/src/checkpoint/` | a `Vec` inside the quad | `checkpoint`, `rollback_to`, `clear_checkpoints` |
| Prospective index | `epica-core/src/prospective/` | per belief, the scenarios generated for its value | `insert`, `invalidate`, `clear` |
| System 1 | `epica-core/src/system1/` | the fast confidences | `propagate_system1` |
| Counterfactuals, diffs, T-ECE | `epica-core/src/counterfactual`, `diff` | none | pure queries |
| Belief runtime | `epica-runtime/src/runtime.rs`, `history.rs` | quad, key index, confidence history, each behind its own `RwLock` | `insert_belief`, `update_belief`, `checkpoint`, `rollback_to`, `apply_system2_result`, prospective indexing, `finalize` |
| Contract engine | `epica-runtime/src/contract_engine.rs`, `epica-contracts/src/` | attached contracts, violation log | `pre_update`, `post_update` with five recovery policies |
| Governance tracker | `epica-runtime/src/governance_tracker.rs` | tokens, tool calls, approvals | `track_token_usage`, `track_tool_call`, `mark_approved` |
| System 2 tasks | `epica-mcp/src/handlers/belief.rs`, `tasks.rs`, `task_stream.rs`, `epica-runtime/src/system2/` | task store (memory or sled), token bucket, spawned futures, streams | `handle_belief_set`, the spawned reflection, `handle_task_stream` |
| MCP HTTP surface | `epica-mcp/src/` | what the process was started with, the limiter's buckets, metrics | start-up, authentication, limiter, one handler per route |
| Audit ledger | `epica-contracts/src/sovereignty/ledger.rs` | a hash chain of entries, Merkle root | `append`, `verify_chain`, `merkle_proof` |
| Sovereignty policies | `epica-contracts/src/sovereignty/` | policies, a ledger | write authorisation, forgetting across backends |
| Evidence receipts | `epica-zk-evidence/src/` | none | `seal`, `verify` |
| Active inference | `epica-active-inference/src/` | free-energy reservoir, bounded history | `observe`, `reset` |
| Embedding cache | `epica-openai/src/embeddings.rs`, `epica-core/src/embedding/` | cache, pending queue | `warm`, `warm_async`, `embed`, `insert_cached` |
| LLM clients | `epica-openai/src/client.rs`, `epica-anthropic/src/client.rs` | none | `reflect` with retries, `generate_scenarios` |
| Memory stores | `epica-memory/src/` | Redis keys with a time to live, Neo4j rows | `flush`, `load` |
| Python, macros, benchmarks, rendering | the remaining crates | none | wrappers |

### How they interact

The quad is a plain value that every caller owns or locks exclusively; its
methods are atomic towards each other. The runtime shares one quad, one key
index and one history between tokio tasks. It takes a lock per *step*, not per
call: `update_belief` is a read lock for the preconditions, a lock for the
governance counter, a write lock for the checkpoint, one for revision and
propagation, one for `post_update`, and one or two for the history
(`runtime.rs:444-520`). Anything may happen in between. The MCP server looks a
key up and then calls `insert_belief` or `update_belief`, again without a lock
around both; when the result is `System2Pending` it takes a token, records a
task and spawns the reflection, whose answer is written back later.

`insert_belief` goes on after the belief is in the quad: it awaits a client that
generates scenarios and an embedder, takes the quad's lock again to store them,
and feeds the active-inference monitor. The embedding provider that a revision
consults is a cache behind a lock of its own, which batch calls fill while the
revision reads it. The stores and `ForgetPolicy` are called by the host; neither
knows of the other, nor of the checkpoints.

### What is hard, and what makes it correct

* **Contraction touches six structures.** A removed belief must vanish from the
  arena, from four graphs and from the prospective index, in the live quad and
  in every snapshot: `AllProjectionsAgree`; and the index, whose `insert` looks at
  nothing, must let scenarios go with what they were generated from:
  `ScenariosGoWithTheValue`.
* **A long sequence of legal calls.** Slots are reused, rollbacks replace the
  arena, the version counter goes back. Version numbers must keep naming what
  they named, and ids too unless a rollback undid the call that issued them:
  `VersionNamesContent`, `OnlyUndoneIdsAlias`.
* **Revision.** Enough is removed and not more: `SupportBroken`,
  `CoreRetainment`; the verdict does not depend on the wording although
  paraphrase is not transitive: `VerdictsExtensional` (below).
* **Propagation in HashSet order**, with stale values, decay and premises that
  are gone: `Converges`, `SupportLossNeverStrengthens`.
* **Updates interleave** with other updates, checkpoints, rollbacks and
  recoveries: `UpdateEnforced`, `WithinTokenLimit`, `QuadStaysSound`,
  `NoLostUpdate`.
* **System 2**: a budget refunded or not, a store whose errors are ignored and
  that outlives the process while the future does not, a server that comes back
  without it, a stream that gives up: `KeepsPromise`, `BudgetExact`, `StreamOrdered`,
  `StreamsEnd`.
* **A cache that grows during a revision**: two verdicts of one revision may be
  answers of different caches, and a batch call takes its work from a queue
  under two locks, in chunks that may come back in another order:
  `VerdictsExtensional`, `ExpansionNeverStale`, `OnlyTheWindowForgets`,
  `OkMeansCached`.
* **State used after an await**: scenarios stored for a value that may be gone:
  `StaleOnlyByLateStore`; and the retrieval that reads them: `RetrievalRanked`.
* **A shared monitor**: a history pushed after it was looked at, a reservoir
  capped on one side: `SignalsAboutThePast`, `CreditIsRecentExcess`.
* **Memory beyond the session**: flushes that fail half way and race, retention
  by three clocks, erasure that the checkpoints and stores know nothing of:
  `PrefixWritten`, `LoadedWithinRetention`, `ErasedForGood`,
  `LostSupportIsReported`.
* **Requests over several locks**: three ways to find the belief of a key, a
  diff before a rollback, confidence records marked by later updates:
  `KeysHoldOneBelief`, `DiffForetellsRollback`, `TraceTellsContractions`;
  a counterfactual on any causal graph: `CounterfactualClosed`; and the layers in
  front of them: `AddressGetsItsShare`, `LimitedBeforeAuth`.
* **Ledger and receipts**: odd Merkle levels, policies that append under a lock
  and write after it, a ledger that grew or a file that was edited after it was
  sealed: `EntriesProvable`, `ChainSound`, `DispatchedWasSealed`,
  `ReceiptMeansUnchanged`, `UneditedVerifies`.

`PROJECT.json` lists each hazard at its line with the properties that would
catch it going wrong, or why there is none.

## 2. Modules

| module | models | role |
|---|---|---|
| `QuadOps` | the quad as a value and one operator per method | used by all others |
| `BeliefQuad` | a quad driven by one caller at a time | state machine |
| `Propagation` | System 1 as operators on a quad | used below |
| `System1` | callers building a causal graph and propagating | state machine |
| `ContractEngine` | contracts, also as read from files, write authorisation, predicates, `post_update`, recovery | operators |
| `BeliefRuntime` | concurrent tasks setting beliefs, with checkpoints and rollbacks | state machine, composes the above |
| `TaskPromise` | what a client is promised about a System 2 task | abstract specification |
| `TokenBucket` | the reflection budget | operators |
| `System2Tasks` | requests, spawned reflections, task store, streams, restarts | state machine, implements `TaskPromise` |
| `AuditLedger` | the hash chain, Merkle root and inclusion proofs | operators |
| `EvidenceReceipt` | emission, sealing, export, verification | state machine on `AuditLedger` |
| `EmbeddingCache` | the embedding provider, and a revision with its audit that reads it | state machine |
| `ActiveInference` | free energy, history and reservoir | operators |
| `InsertPipeline` | inserts with scenarios, embeddings and a monitor; retrieval | state machine on `ActiveInference` |
| `LongTermMemory` | session, checkpoints, both stores, `ForgetPolicy` | state machine on `Propagation` |
| `Gateway` | the MCP server: start-up, layers, handlers, session report | state machine, extends `BeliefRuntime` |
| `QuadOps_proofs`, `BeliefQuad_proofs`, `System1_proofs`, `BeliefRuntime_proofs`, `System2Tasks_proofs`, `EvidenceReceipt_proofs`, `LongTermMemory_proofs`, `InsertPipeline_proofs` | lemmas and theorems | proofs |
| `MC*` | instances | TLC |

### QuadOps and BeliefQuad

A quad is a record: `nodes` (id to node), `gens` and `free` (the slotmap's
generations and its LIFO free list), `graphs` (four sets of nodes and of
edges), `prospective` (which value the indexed scenarios are for),
`equivalent` (which pairs the provider and its thresholds call paraphrases)
and `version`. `Insert`, `RemoveAll`, `AddEdge`, `Expand`, `Revise`, `Rollback`
are the methods of the same names. Details the code depends on are kept: an id
is a slot and a generation; a snapshot contains the arena, so that a rollback
rewinds generations and free list as well; edges with a missing endpoint are
dropped silently; premise lists are not cleaned when a premise is removed; the
weakest premise is the first of equal minima and a dead premise has confidence
0; the contraction set is a HashSet, hence all removal orders; the target is
looked up again after the contraction, hence the half-failed outcome.

`BeliefQuad` adds the checkpoint list, the set of ids handed out and the last
reply, with one action per public method. Callers may pass any id they were
ever given. `IndexBelief` is `ProspectiveIndex::insert`, which checks nothing:
scenarios of any value may be stored for any id, dead ones too, because the
runtime stores them after awaits (`runtime.rs:382`). Two history variables say
which ids a rollback went behind: `taken`, the ids there were at each checkpoint,
and `undone`. `Calls` selects the methods a run uses. The runs' VIEW leaves out
the last reply, which no call reads, and `taken` of checkpoints that are gone.

Abstracted: values up to the literal comparison's normalisation; confidences as
`0..Scale`; scenario texts; timestamps, labels and weights; embeddings, of which
only the verdict remains. The duplicate of an edge is one edge (no operation
counts edges).

### Propagation and System1

`NoisyOr`, `EdgeConfidence`, `Recomputed` follow the arithmetic in units of
`Scale` (the division rounds down where `f32` rounds to nearest); a product over no
path is the neutral element. `VisitOrders`
is every order the recursion with its shared visited set can take: a belief is
followed at once by all of its descendants not visited yet, in any order. Decay
factors are fixed while a run is watched: the time between two calls is small
against the half-lives.

### ContractEngine and BeliefRuntime

`PostUpdate` runs over the contracts and, in each, over the collected violations:
two recursive functions on positions, the engine's state being the quad with checkpoints, the log, whether a recovery
was executed and the error that ended the update. The collected list is not
recomputed after a recovery, and only the first Hard violation of the whole
update is recovered from: both are the code's. Each policy is modelled,
including the one that finds no checkpoint at or below its version.

`BeliefRuntime` gives every task a program counter with one step per lock:
`Admit`, `Meter`, `PreRevisionCheckpoint`, `ReviseAndPropagate`,
`EnforceContracts`, `MarkWrong`, `RecordConfidence` for `update_belief`,
`InsertNode`, `IndexKey` for `insert_belief`, `SetBelief` for the server's
lookup. Contracts and a `MnemonicSovereignty` (or none) are attached before the
runtime is shared and do not change: `engine`. `FromConfig` builds a contract
from a file as `from_config` does, with its defaults: a severity that is missing
or misspelt is Hard, and recovery is always to the last checkpoint. Of the
sovereignty's authorisations `Admit` asks for `write_auth`, the one the runtime
asks for. Prospective indexing and the active-inference hook are in
`InsertPipeline`, System 2's write-back is in `System2Tasks`.

### TokenBucket, TaskPromise and System2Tasks

`TaskPromise` is the interface seen by a client that polls: a task is absent,
pending, running, then completed or failed for ever, and never otherwise than
the reflection went. It also says what is *not* promised: a store on disk that
fails to write, or a restart, loses the outcome (`verdict = "lost"`), the
in-memory store forgets the task, and a server that is started again may know no
task at all, or those a process before the last had left on disk (`disk`).

`System2Tasks` has a request per concurrent `POST` (`UpdateBelief`,
`TryConsumeBudget`, `CreateTask`: three locks), a future per task
(`SetRunning`, `Reflect` once per attempt, then `WriteSlow`, `ReplaceLast`,
`Complete` or `ReleaseBudget`, `Fail`) and a stream per `GET` (`OpenStream`,
`PollTask`). The store is the in-memory map or sled, chosen when the
process starts; every write to sled may fail and its error is ignored, as the
handlers do, and a stream that cannot read it says "task not found".
`update_status` of an absent task does nothing, so a lost first write hides the
task for ever. A restart drops futures, requests, streams, beliefs and the
bucket. What sled kept is found again only if the new process can open it:
otherwise `task_store_from_env` falls back to an empty map (`tasks.rs:192`), the
tasks clients hold are unknown, and they stay on disk (`disk`, `Kept`) for a process that opens it
later. A sled write that returned is taken to be on disk: the loss of
buffered writes in a crash is sled's and not modelled. `Grain` divides a token so that a refill may be
a fraction of one; the refill is lazy and `release` caps without refilling, as
the code does. The refinement maps the verdict to where the future is.
The answer of a reflection is represented by its task, so that a slow confidence
remembers which question it answers.

### EmbeddingCache

`cache`, `pending` and the calls of `OpenAiEmbeddingProvider`, a step per lock
and per request: `WarmAsync` reads what is missing under both locks,
`ClearPending` empties the queue under its own, `StoreChunk` and `FetchFails` are
the outcomes of one request, `Reread` ends an `embed`. `front` is the cache of a
`CachedEmbeddingProvider` around it, which `LiftWarm` fills. An embedding is the
text it is of, so that a mix-up of two texts shows; similarities are given
(`Cosine`), and so is what case folding and trimming leave of a text
(`Literal`). The quad's side is a revision reduced to its lookups:
`BeginRevision` computes the verdict, `EmbedNew` and the scan (`AuditNext`) are
`check_extensionality` one belief at a time, `Apply` is the rest. A belief is
its asserted text here; what the contraction removes is in `BeliefQuad`.

### ActiveInference and InsertPipeline

`QuadFreeEnergy` has the sum over beliefs and the structural prior of the code,
with the logarithms as tables (`Divergence`, `Surprise`), since their values are
reals; energies are in units of which `Refill` make one nat. Sums are a recursive
function of the number of terms (`SumOf`). `Observe` returns
the monitor and the signal. Mean and deviation are represented by what they are
computed from (`Moments`); the test `is_spike` on them is left out.

`InsertPipeline` is `insert_belief` with everything attached, one action per
lock or await: `InsertNode`, `IndexKey`, `ReadKey`, `Generate`, one
`EmbedScenario` each, `StoreScenarios`, `ObserveInsert`. Beside it updates
(the write section; the update's own checkpoint, which `BeliefRuntime` has, is
left out here), checkpoints, rollbacks and a reset of the shared monitor. The quad's
`prospective` index holds for a belief what its scenarios were generated from
(key and value) and their embeddings (a topic each, or none where the embedder
failed); these scenarios may be for a value the belief no longer has, so an
initial quad is `WellFormed` if it is a sound quad without its index
(`WithoutIndex`). `Retrieve` is `retrieve_for_query`: score in units of one part in 100
of `Scale`, expired beliefs left out, sorted, cut to the budget. The stable sort
over a slotmap is the order `Ahead`, by score and then by slot, and the i-th belief is the one
with i - 1 others ahead of it (`Ranked`). What PageRank
centrality and decay add to a score is an input (`Standings`).

### LongTermMemory

Both stores as functions from keys: Redis entries expire, Neo4j rows carry the
time their flush began. A flush writes one snapshot per step and may fail before
or after a write; several may be in progress, on either store; Redis refuses a
time to live of zero. A load from Redis lists the keys and gets them one by one;
one from Neo4j fetches rows and filters them by the clock later. `Forget` is
`execute` and `execute_with_backends`. A restart keeps the stores alone. Fields
marked as ghosts (`before`, `alone`, `written`, `policy`, `erased`) are for the
properties. The caller of all this is the host: the repository has none, so any
order of calls is allowed.

### Gateway

`Boot` is `main` with `AuthConfig::from_env`: some environments end the process.
A request is authenticated, then counted by the limiter of its address, then
handled (`Refused`, `Metered`, `Dispatch`). `handle_belief_set` is
`BeliefRuntime`'s set; the handlers of checkpoints, diffs, rollbacks, reads,
counterfactuals and contract status take the locks theirs take. The limiter is
governor's quota: a burst, and one more request per 1/rps seconds. Since `main`
attaches neither contracts nor sovereignty to the runtime, neither does
`GatewayInit`; it starts with an empty quad (`main.rs:101`), of which the initial
quads keep that no key has two beliefs. The contract that was loaded is what the status shows.
`SessionReport` and `FinalizeSession` are the host's end of session. `last`,
`revisions`, `overlapped` and `raced` record what the properties are about. T-ECE is kept as numerator and denominator.

### AuditLedger and EvidenceReceipt

A hash is the value that was hashed: collision resistance is the assumption
under which the code's claims are meant. The hash of an entry is the sequence of
entries up to it. The three loops (`merkle_root`, `merkle_proof`, `verify_merkle_proof`) are
recursive functions of the number of the iteration: `Levels` gives the level,
`Paths` the place in it, `Sizes` the size the verifier computes for it, `Hashes`
what the verifier has hashed; `Height` is the number of iterations, the first
with one node left.
`window_merkle_root` repeats the same reduction for a slice and is `MerkleRoot`
of that slice.

`EvidenceReceipt` splits `AuditPolicy::emit` at the release of the ledger's
lock: `Emit` appends, `Dispatch` writes the line or loses it to an ignored
error. `Seal` takes any window of the ledger in memory or of one rebuilt from
the exported file (`rebuild_ledger` appends the entries again and looks at
nothing but their `seq`). Between two uses the file may be edited (an entry
changed or removed, with or without renumbering) and so may the receipt: its
window and length, its root (to that of any ledger at hand), and its
inclusion proofs, which are not signed. `Inclusions` is what can be added there:
any leaf at any place with the path of any entry, whether true of the ledger or not. `Verify` has every layer of
`Ed25519Verifier::verify` except schema version and decoding. One signing key:
whether a key can be trusted is checked outside the program. A poisoned ledger
lock, which skips the append, is left out: `append` does not panic.

## 3. Runs

Passing runs check what the code does get right; violation runs exhibit a place
where it differs from what a comment or document says.

| run | bounds | shows |
|---|---|---|
| `quad_history` | 2 slots, 3 versions, 1 edge, 1 belief with scenarios, 2 checkpoints, 2 keys, 2 values | projections and version numbers agree with the beliefs in the live quad and in every snapshot, over every order of eight kinds of call, rollbacks included; ids name what they were issued for unless they were rolled back; scenarios go with what they were generated from |
| `quad_revision` | 3 slots, 4 versions, 2 edges, 1 belief with a slow confidence, premise lists up to 2, a confidence above the limit, two values that paraphrase each other while a provider is installed | core-retainment and broken support, over every causal graph, cycles and self-support included |
| `system1_settle` | 3 beliefs, 2 edges, premise lists up to 2, `Scale` 4, decay one half | confidences in range on every graph; losing a belief strengthens none; runs converge on well-founded graphs |
| `runtime_contracts` | 2 tasks, 3 calls, 5 attachments covering the five policies and three classes, two of them read from files, 2 sovereignties, 2 initial quads | enforcement, token limit and soundness under interleaving |
| `runtime_lost_update` | 2 tasks, 2 calls | **violated**: a recovery erases another task's answered write |
| `tasks_promise` | 2 clients, 2 tasks, 1 stream of 3 polls, 2 updates, 2 attempts, a clock of 1, 2 restarts, both stores and the fallback, failing reads and writes | the server implements `TaskPromise`; the budget is exact; streams are ordered and end |
| `evidence_receipts` | 2 policies, 2 entries, ledgers up to 5, of which up to 2 are sealed or exported, 2 edits | the chain is sound, every entry has a proof and no other's, a receipt that verifies binds its window and the prover's inclusions, and an unedited one verifies |
| `embedding_audit` | 3 texts of which two pairs are paraphrases and two texts differ in case, batches of 2, 2 attempts, 2 callers, 3 calls, 1 revision | `Ok` means that every text is cached with its own vector, texts are forgotten in one window only, and an admitted revision agrees with every wording known to both its lookups |
| `insert_pipeline` | 2 tasks, 2 inserts, 2 changes, 0 or 2 scenarios, history of 1, budget below one observation | outdated scenarios come from a late store alone; retrieval is the best of what is open; signals and credit are those of the past |
| `memory_forget` | 2 beliefs, 2 flushes at a time, 3 calls, any number of restarts, a clock of 2, policies of none, half a second and one and a half | prefixes, retention, and erasure that only checkpoints, stores and pending work undo |
| `gateway_requests` | 2 tasks, 4 environments, 2 quads, valid, foreign and missing tokens, 2 addresses; see `Gateway_requests.cfg` for the calls | one belief per key, the limiter's shares, counterfactual closure, the trace and the report |
| `gateway_limiter` | the same | **violated**: a request refused by authentication has cost nothing |

Why the bounds suffice. Two slots are the least in which a slot is freed,
reissued and distinguished from another one; three versions allow an insert, a
change and a change after a checkpoint, and with two checkpoints both orders of
checkpoint and rollback occur. Three beliefs and two edges are the least with
two support paths into one belief, with a shared premise, and with a chain
whose recomputation order matters. Two tasks and three calls let a recovery, a
manual rollback and a foreign update fall between any two steps of an update;
every action of each state machine fires in some passing run. Two tasks and a
bucket of one token let a refund, a refill and another request meet; the second
task exists only if a refund or a tick pays for it. Ledgers of up to five
entries have every shape of an odd level (1, 3, 5, and the odd second level of
5); two suffice for a window with something before it or after it, and two edits
add a true inclusion and a forged one, or lengthen a receipt's window and give it the
root for it, or change the file and the receipt. Two restarts let a server lose its tasks and
find them again.
Three texts and batches of two give a call with two chunks, of which the second
may fail; two callers let a batch return between the verdict and the audit of a
revision and put texts in the queue between the two locks of another. A history
of one lets every observation evict another. Two flushes on either store
interleave writes and failures, and half a second is the retention that a time to
live rounds away. The server starts from four environments, one for each outcome
of `Boot` (authentication on, a key missing, a refused bypass, authentication off),
each with two quads; two tasks and four calls let a rollback or a second set of a new key fall between two locks of an
insert, and one tick refills the limiter once.
Deadlock is not checked: a program whose callers stop calling, or reach a bound, stops.

`UpdateEnforced` is stated over one step, not as "the invariants hold
afterwards": a Degrade or a rollback need not restore an invariant, and the
code does not re-evaluate. It says which of the two happened.
`SupportLossNeverStrengthens` has a second disjunct because a belief whose last
support edge goes keeps its confidence instead of falling to zero.
`VerdictsExtensional` quantifies over the wordings that were known as paraphrases
when the revision began, and judges them by the cache the code's decision was
about: the one at the end for an expansion, the one at the beginning for a
contraction. `OkMeansCached` promises nothing of a call that returned an error.
`ScenariosGoWithTheValue` does not say that scenarios are current: a store may
put any scenarios anywhere. It says that no other call makes them stale, except that
a rollback brings back what its snapshot held; a run of the insert pipeline shows the
same over its awaits (`StaleOnlyByLateStore`).
`OnlyUndoneIdsAlias` excludes by name the ids a rollback went behind: those are issued
again, and a caller who kept one may reach another belief with it (section 5).
`ReceiptMeansUnchanged` speaks of the inclusions the prover put in. One that is added
later verifies whenever it is true of the ledger supplied, of an entry after the
window too; what it shows then is that the ledger has the entry, not that the signer
vouched for it (section 5).
`KeysHoldOneBelief` goes one way: a belief in the quad is the only one of its key
and the one indexed there. It leaves out the keys of which two inserts were under way at
once, which may keep two beliefs for good. The other way fails after a rollback, which
leaves the index alone: the index names no belief and a set of the key fails, or it names
a belief that got the same id, of another key, and a set of this key revises that one
while a GET answers 404 (section 5).
`TraceTellsContractions` is about the code's condition, that a revision removed a
premise; the documentation's, that it contradicted, is another (section 5). It
leaves out beliefs whose updates overlapped, where the wrong record may be marked.
`ErasedForGood` speaks from the moment the checkpoints, the stores and the calls
under way hold the belief no more: the code leaves those ways back open, and
there is no other. `TypeOK` of
`BeliefRuntime`, `EvidenceReceipt`, `EmbeddingCache`, `InsertPipeline` and
`LongTermMemory` and `GatewayTypeOK` hold on the same instances; they are the
groundwork of the proofs and not what the runs are for.

Fairness. `System2Tasks` assumes weak fairness of each future's own steps and
of each stream's next poll: tokio polls a future that is ready and a timer that
is due, and nobody cancels a spawned future. It assumes none for `Reflect`: the
HTTP clients are built without a timeout, so a provider may never answer, and
then a task stays running (which `TaskPromise` allows) while a stream must
still end. Clients, clock and restarts are not fair either. The other modules
have safety properties only: a quad has no scheduler, a call runs to its end
under `&mut self`; and the inserts, flushes, loads and batch calls of the other
modules wait for services without a timeout, so that nothing obliges them to
end.

Every property of a passing run has a mutant, an operator defined next to
the one it replaces and marked `mutant`; under it the property fails.

## 4. Proofs

tlapm checks every theorem below for every value of the constants, from the named
assumptions of the modules and nothing else. What those ask: there is a key and a
value; the tasks, clients, emitters are finitely many; `None` is not an entry, not a
status of a task, not a Boolean and not one of the engine's errors; the floor of a `DegradeAndContinue` is a
confidence (the code does not clamp it); a second is at least one tick; retention
policies are of the four kinds the code has; a divergence or surprise is a natural
number of the energy's unit, zero for a posterior equal to its prior, and a similarity
is between -1 and 1; the monitor's capacity has its clamp; initial quads are well formed, and those of
the server hold at most one belief of a key.

### Induction over a recursive function

Most of what the modules compute is a function defined by recursion on an index.
`QuadOps_proofs` (and `EvidenceReceipt_proofs`, which shares no module with it) makes
such a function accessible to the provers with four facts about sets: a non-empty set of naturals has a least member (`Least`, from the
library's theorem on finite subsets under strict inclusion), a finite one has a
greatest (`GreatestNat`), a set with 0 and closed under successor below `n` holds
`0 .. n` (`SegmentInduction`), and a base and a step define a function on `0 .. n`
(`SegmentRecursion`). Each recursive definition then has a lemma that unfolds it
(`PathsRun`, `LevelsRun`, `HashesRun`, ...), and what holds at every index is an
induction on the set of indices where it holds.

### The quad

`BeliefQuad_proofs`, from `QuadAssumption` and `BoundsAssumption`:

| theorem | statement |
|---|---|
| `Invariance` | `Spec => []Inv`, the inductive invariant |
| `TypeCorrect` | `Spec => []TypeOK` |
| `ProjectionAgreement` | `Spec => []AllProjectionsAgree` |
| `ScenariosGo` | `Spec => ScenariosGoWithTheValue` |
| `AliasingOnlyUndone` | `Spec => []OnlyUndoneIdsAlias` |
| `VersionsNameContent` | `Spec => []VersionNamesContent` |
| `RevisionsRetain` | `Spec => CoreRetainment` |
| `RevisionsBreakSupport` | `Spec => SupportBroken` |

The argument. `Inv` says that the live quad and every snapshot satisfy
`QuadInv`: typed, finite (edges included), arena sound, projections agreeing. Agreement of the projections is not inductive alone: `Insert`
needs the fresh id to be free, or a new belief would inherit an old one's edges, and that is `ArenaSound` (free list without repetition, disjoint
from the occupied slots, generations matching; lemma `NextIdFresh`). `ArenaSound`
in turn is kept by `RemoveAll` because the removed beliefs occupy distinct slots.
Snapshots are in the invariant because a rollback makes one of them the live quad.
`QuadOps_proofs` has one lemma per operator (`InsertInv`, `RemoveAllInv`,
`ExpandInv`, `AddEdgeInv`, `ReviseInv`); `BeliefQuad_proofs` one per action.

`AliasingOnlyUndone` rests on `HandlesInv`: an id that no rollback went behind is live
under its key or its generation lies behind its slot's, and the same holds in every
snapshot of the ids there were when it was taken. The second half is what makes the
first survive a rollback: the arena that comes back has issued exactly the ids that
are not undone by it.
`ScenariosGo` takes the operations one by one: a removal drops the entries of what it
removes, an expansion and a revision that of their target, and the others
keep values and index, or add a belief. A belief added may find scenarios under its
id, left by a store after a rollback: they were stale already, of no belief.
`VersionsNameContent` rests on the order `Later` between a quad and its
successor: the version does not fall, and if it does not rise keys and values
stay. A rollback is the one step outside `Later`; it empties the checkpoint
list, so nothing is left for the old numbers to be ambiguous about.
`RevisionsRetain` counts: the contraction set is the image of the support paths
under `Weakest`, so it has at most one belief for each, and a removal in any order
takes exactly that set; `RevisionsBreakSupport` needs that the weakest premise of
a path is on the path, whatever order ties are broken in.

### Propagation

`System1_proofs`, from `QuadAssumption` and the bounds:

| theorem | statement |
|---|---|
| `TypeCorrect` | `Spec => []TypeOK` |
| `SupportLoss` | `Spec => []SupportLossNeverStrengthens` |
| `Convergence` | `Spec => []Converges` |

Confidences stay in `0 .. Scale` because a product of factors of that range,
divided by `Scale` at each factor, is one again, by induction over the factors;
and the visit of any number of beliefs in any order writes such values, by
induction over the order. `SupportLoss` compares two products, factor by factor:
a removal leaves a subset of the support paths (`RemovalCuts`), and what the rest
contribute only falls (`EdgeWeakens`).

`Convergence` is by counting. `Progress` says that after `n` rounds some set of at
least `n` beliefs downstream of the root (or all of them) is settled and holds, with
each belief, its premises downstream. Of the beliefs not in the set yet one is most
upstream (`MostUpstream`: the one with the most descendants, on an acyclic graph), so
its premises are all in the set or outside the root's reach. A round leaves the set as it
is and gives that belief the value its premises call for, wherever the order puts it
(`RoundSettles`), and so the set grows (`ProgressStep`). That the
reach of a belief is closed under causal edges, although `descendants_of` is computed
by a bounded number of steps, is `DescendantsClosed`: each step that is not the last
adds a belief.

### The runtime

`BeliefRuntime_proofs`, from `RuntimeAssumption`:

| theorem | statement |
|---|---|
| `Invariance` | `Spec => []Inv`, the inductive invariant |
| `TypeCorrect` | `Spec => []TypeOK` |
| `SoundUnderConcurrency` | `Spec => []QuadStaysSound` |
| `TokensBoundUpdates` | `Spec => []WithinTokenLimit` |
| `UpdatesEnforced` | `Spec => UpdateEnforced` |

`QuadInv` holds of the shared quad and of every checkpoint between any two locks,
through the engine's recoveries as well: `HandleOutcome`, `EnforceOutcome` and
`PostUpdateOutcome` are inductions over violations and contracts that say what
the engine may have done when it stops (nothing, one recovery, an error).
`TokensBoundUpdates` needs a relation that the property does not mention (`Paid`):
the tokens taken, which are never returned, cover the records and the updates in
flight together; so the check, which reads the counter, bounds both.
`UpdatesEnforced` needs `NoneNewer`: no checkpoint is newer than the quad. It is
what makes "the last checkpoint" a step back, and a rollback keeps it because it
empties the list.
The comparison is `<=`: of two recoveries in a row the second may restore
a checkpoint as old as the quad, with a floor that the first put under it undone.

### The server

Also in `BeliefRuntime_proofs`, from `GatewayAssumption` as well:

| theorem | statement |
|---|---|
| `RateLimited` | `GatewaySpec => []AddressGetsItsShare` |
| `WorldsClosed` | `GatewaySpec => []CounterfactualClosed` |
| `RollbackForetold` | `GatewaySpec => DiffForetellsRollback` |
| `OneBeliefPerKey` | `GatewaySpec => []KeysHoldOneBelief` |
| `TraceTells` | `GatewaySpec => []TraceTellsContractions` |

The server's tasks take the runtime's steps and a few of their own, so the runtime's
invariant is stated for any set of program counters and results (`InvIn(pcs, answers)`)
and each of its steps is proved once; `Inv` and `ServerInv` are two instances.

`RateLimited` adds what is left in the bucket to the requests let through: of the
requests an address has been let through, burst and ticks pay for every one.
`WorldsClosed` rests on `DescendantsClosed` for the surviving part; for the excluded
part (`DescendantsLeast`) a set of descendants that no edge enters would be missed
by every step of the search. `RollbackForetold` keeps with the last answer that the quad
and the checkpoints are those it was given for (`StillTrue`), also across a later
answer; that a refused rollback is one whose counts are all zero is `NoDiffMeansSame`.
`OneBeliefPerKey` follows a key through a set: a belief it has is named by the key
index or by the one insert that has still to write there (`Accounted`), and that insert is
alone with its key or the key is in `raced` (`Alone`). It holds of every checkpoint
too, or a rollback would bring a second belief back, and rests on the lemmas of
`QuadOps_proofs` that a revision keeps the keys of what it keeps.

`TraceTells` needs to know of an update under way what it has done already: the property
speaks of beliefs at rest, and is not inductive. Of the server's steps it keeps what
they do to updates, records and revisions (`ServerMoves`: an update revises, is let
through, marks, records; everything else is elsewhere, or the session's end). `Told(id)`
is then the state of one belief: nobody or one task is at an update of it; its revisions
are its records and the revision of that task; the task's flag is what that revision did;
and a record is wrong if the next revision contracted, except that the last one
is marked only when the task has left `mark`. A move changes this for the belief of its
task (`ToldOfOwn`) and for no other (`ToldOfOthers`); `Of`, which picks the entries of one
belief, is reasoned about with `OfAppend`, `OfVerdicts` and `OfLast`. That a belief is
outside `overlapped` is used once, where a revision finds no other update of it.
The report is three counts: a revision brings in a task that the record takes out
(`Balance`); each such task and each record paid a token (`Paid`, shared with the runtime);
and the wrong records with the tasks that have yet to mark one (`Pending`) are as many as
the contracting revisions of beliefs that had one before (`Counted`). `ErrorBound` goes
through the sum of `TotalError` record by record.

### System 2

`System2Tasks_proofs`, from `BucketAssumption` and `System2Assumption`, for any
number of clients, streams, tasks, ticks and restarts:

| theorem | statement |
|---|---|
| `TasksTypeCorrect` | `Spec => []TypeOK` |
| `BudgetIsExact` | `Spec => []BudgetExact` |
| `PromiseKept` | `Spec => Promise!Init /\ [][Promise!Next]_promised`, the safety part of `KeepsPromise` |
| `StreamsInOrder` | `Spec => StreamOrdered` |

`BudgetExact` relates a fraction refilled lazily to two sets of processes. The
lemmas on `Level` say what the *virtual* level does in time and under each
bucket operation; the counting lemmas say that a step moves at most one
request or future in or out of the paying sets; together they make the sum of
level and tokens held constant, or growing by what a tick refills.
`PromiseKept` needs an invariant of its own (`StatusFollows`: a published
status is the one the future's position earned) and then one case per action; of a
restart it shows that every task's future is over, so that a task found again on
disk is published for good or lost.
`StreamsInOrder` uses it again: between two polls of a stream the task may take any number
of steps, none of which takes its status behind the last one sent (`Watched`).

### Ledger and receipts

`EvidenceReceipt_proofs`, from `EvidenceAssumption`, for ledgers of any length:

| theorem | statement |
|---|---|
| `LedgerChained` | `Spec => []ChainSound` |
| `DispatchSealed` | `Spec => []DispatchedWasSealed` |
| `Provable` | `Spec => []EntriesProvable` |
| `ReceiptBinds` | `Spec => []ReceiptMeansUnchanged` |
| `ReceiptVerifies` | `Spec => []UneditedVerifies` |

The chain with its types is inductive (`AppendSound`): the head is the last
entry's hash, so the appended entry is linked. `DispatchedWasSealed` counts
occurrences: an `Emit` adds one place in the chain and one waiting emitter, a
`Dispatch` turns a waiting emitter into at most one line.

The Merkle tree. `NodeOver` says that the node above place `q` of a level is made
of the node there and of its sibling, odd tail included; it is the one place where
the arithmetic of odd levels is used, and `LevelSizes` says that the sizes the
verifier computes are those of the levels. Upwards, the verifier recomputes the
nodes on the way (`ProofVerifies`). Downwards, from the root, a proof that verifies
must hold the siblings on the way, and the leaf must be the entry's (`ProofSound`):
hashes are injective, two leaves never have the same sibling, and in a chain the
hash of an entry tells its place (`ChainLengths`), so the proof is of no other
entry and no other place. The same descent for two trees gives `RootInjective`:
equal roots of equal sizes have equal leaves. One equal hash makes two
chains equal up to it (`ChainPrefix`), which is why a receipt speaks for the
entries before its window too.

`ReceiptInv` carries this through the edits: the sealed entries are a chain, the
sealed receipt is what `Receipt` makes of them, and of a receipt edited since only the
signature is still the sealed one. Of a receipt that verifies it then binds root, window
and length, and a prover's inclusion that is still there is checked against the
ledger supplied: equal leaves make the chains equal up to it. Everything a verifier may be given is a chain: the ledger, and whatever
lines a file holds, once rebuilt (`RebuildSound`).

### Long-term memory

`LongTermMemory_proofs`, from `MemoryAssumption`, for any number of flushes, keys
and policies:

| theorem | statement |
|---|---|
| `FlushLeavesPrefix` | `Spec => []PrefixWritten` |
| `LoadsInTime` | `Spec => []LoadedWithinRetention` |
| `Erasure` | `Spec => ErasedForGood` |
| `SupportReported` | `Spec => LostSupportIsReported` |

`PrefixWritten` is not inductive: a key that is missing now may be missing because
it expired, and to know that the next tick may take only what had a time to live,
one must know that an entry the call wrote expires exactly if the call's policy says
so. `Left` adds that. A write by the call itself adds one snapshot to its prefix
(`OwnWrite`); a write by another call to the same store ends its claim
(`CallDisturbed`); expiry takes what it may (`Expired`).
`LoadsInTime` needs the same of Redis over all writers (`StoresOK`): a key under a
duration expires that many whole seconds after it was written, and one that is
there has not expired; rounding down is what keeps the age at or below the policy.
`Erasure` follows each place a belief may be in and shows that what a step adds to
it comes from another of these places, with one exception, the belief a caller inserts.
`SupportReported` is a fact about removal: a support path that goes has an edge from
the removed belief, and by `DescendantsClosed` the verdict contains where it leads.

### The insert pipeline

`InsertPipeline_proofs`, from `PipelineAssumption` and those of `ActiveInference`, for any
number of tasks, topics, inserts and changes:

| theorem | statement |
|---|---|
| `TypeCorrect` | `Spec => []TypeOK` |
| `SignalsArePast` | `Spec => []SignalsAboutThePast` |
| `CreditIsExcess` | `Spec => []CreditIsRecentExcess` |
| `RetrievalIsRanked` | `Spec => []RetrievalRanked` |
| `StaleFromLateStore` | `Spec => StaleOnlyByLateStore` |

The quad's own invariant says that scenarios are current, which is false here; but no
operation but the retrieval reads them. So the invariant is that the quad is `WellFormed`:
sound without its index. What an operation makes of the quad and of the quad without its
index differs in the index alone (`InsertWellFormed`, `ReviseWellFormed`, ...), so
that the lemmas of `QuadOps_proofs` apply, and none lets scenarios go stale (`NoneGoesStale`).

`SignalsArePast` is not inductive: it needs that the history *is* the last `Capacity`
energies (`Window`), or the next signal might be compared with anything. A reset
empties both.
`CreditIsExcess` is a maximal-subarray argument. The invariant is that
the reservoir is the budget less the costliest run that ends now, the empty run
included (`CreditOf`): of the runs that end with the next observation one is empty, and each of the others is a
run that ended before it, one observation longer. Capping the reservoir at the budget is the
choice of the empty run; that is why no quiet time is saved up.
`RetrievalIsRanked` has to show that `Ranked` is defined at all: `Ahead` is a strict
total order on the live beliefs because they occupy distinct slots (`ArenaSound`), so
the number of beliefs ahead is an injection into as many ranks as there are beliefs,
hence onto them (`RankTaken`). Order and completeness of the answer follow from
`Ahead` being transitive.
`StaleFromLateStore` goes through the operations: a removal takes the scenarios with
the belief, a changed value drops them, an insert takes an id that has none. The id
of an insert may have scenarios after a rollback and a late store, and then they
were stale before (of no belief).

### Only model-checked

`OkMeansCached`, `OnlyTheWindowForgets`, `VerdictsExtensional` and
`ExpansionNeverStale` of the cache, which are left (section 6). Liveness (`StreamsEnd`, the
fairness in `KeepsPromise`) and ENABLED are out of the prover's reach and stay
with TLC. `runtime_lost_update` is a violation: there is nothing to prove. Every invariant
that a run checks is a theorem.

## 5. Where the code and its documentation differ

With a violating run, quoted in `PROJECT.json`: updates lost to a recovery
(`docs/architecture.md:358`), and a rate limiter called outermost that only sees what
authentication lets through (`server.rs:3` and l. 80; the layers added after it see a
request first, so requests refused by authentication use no token).

Seen while modelling, without a run of their own:

* `belief/id.rs:6` claims "no ABA hazard" without a condition:
  `checkpoint/ops.rs:47` restores the arena with its generations, so an id
  issued after a checkpoint is issued again after a rollback, for another belief.
  `OnlyUndoneIdsAlias` is the claim that is true.
* `postulates.rs:18` promises success: `agm.rs:98` looks the target up after the
  contraction, and a belief that is a premise of its own support is gone by then.
  The call fails, half done.
* `handlers/belief.rs:73` says a set inserts a new belief or revises an existing one:
  `runtime.rs:713` rolls
  back the quad and not the key index, so the set of a key whose belief was rolled
  back fails from then on. Or, its id issued again, it revises the belief of another
  key: checkpoint, set `k2`, roll back, set `k3`, set `k2` changes the value of `k3`,
  and GET `k2` is a 404. `KeysHoldOneBelief` allows both.
* `runtime.rs:397` and `history.rs:4` and l. 20 say that a contradiction marks the
  previous record as incorrect, and `session.rs` counts the marks as contradictions
  detected: `runtime.rs:470` takes for a contradiction that something was contracted, so
  the record of a contradicted belief without support stays unmarked, and is called
  correct when the session is finalized. The mark
  goes to the last record there is when the lock is had, which with overlapping
  updates may be another one.
* `session.rs:25` calls `total_revisions` the number of `update_belief` calls: it is
  the number of records, and a call that fails, in a precondition or in
  `post_update`, leaves none, its revision done or not.
* `prospective/mod.rs:70` stores what it is given: after the awaits of
  `runtime.rs:382` these may be scenarios of a former value or of a belief that is
  gone, and the index keeps them until the belief changes, if it still exists.
* `agm.rs:112` resets the slow confidence so that System 2 reflects again:
  `handlers/belief.rs:152` writes a late answer whatever the belief holds by then.
* `postulates.rs:10` calls the audit "not a blocking validator" although K*6
  blocks; `revision/agm.rs:179` calls the hitting set minimal, which one
  weakest premise per path need not be; `checkpoint/ops.rs:13` says checkpoints
  accumulate although a successful rollback drops all of them.
* `system1/mod.rs:13` calls System 1 deterministic although its order comes from
  a HashSet (`VisitOrders`).
* A Critical violation halts the caller and leaves the update applied
  (`docs/contracts.md:62`: "halts the update"); `contract_engine.rs:189` says an
  audit entry is always emitted although a halt returns before; a record may be
  marked wrong though the revision was undone (`history.rs:21`).
* `docs/mcp_server.md:84` calls tasks durable, surviving restarts in
  `SledTaskStore`: the in-memory store forgets them, and a server that cannot open
  sled starts with an empty in-memory one (`tasks.rs:192`), so that the tasks of its
  clients are unknown. A task left running by a restart stays so. A stream answers a
  store that cannot be read with "task not found" and ends (`task_stream.rs:39`). `record_system2_throttle`
  (`runtime.rs:576`) has no caller, so throttled reflections are never counted.
* `receipt.rs:37` and `verifier.rs:13` say inclusion proofs lead to the receipt's
  root, which is signed; they are checked against the root of the whole ledger supplied
  (`verifier.rs:210`), which is not. So an inclusion of an entry outside the window,
  sealed or not, added to a receipt by somebody else, verifies if the ledger supplied, of
  the signed length, has the entry.
  `ledger.rs:126` says a clean `verify_chain` compares `last_hash`, which it does
  not look at. `zk-evidence/src/lib.rs:47` says any edit of the snapshot
  invalidates the seal: for a window, an edit after its end does not.
* Embeddings. `embeddings.rs:209` says `warm_async` drains the queue: it clears
  the queue under a lock of its own (l. 234), and what came in between is
  forgotten, as are the texts of later chunks when one fails. Two calls may fetch
  one text twice. The size of a batch is clamped by the builder only, its field is
  public. `embedding/mod.rs:26` promises the literal comparison with no risk of
  regression when a text is unknown: with an unknown target, a held wording that
  differs in case only makes the audit refuse the revision; so may a text that
  is embedded between verdict and audit.
* Inserts. A late store keeps scenarios of a former value, or of an id that is
  gone; `update_belief` drops scenarios and indexes none again; a belief that
  vanished is described to the client by an empty key. `runtime.rs:72` says every
  successful insert emits a signal, which one whose belief vanished does not.
  `monitor.rs:78` describes `exceeds_budget` by the reservoir, l. 145 computes it
  from the observation alone; the reservoir has no lower bound.
  `free_energy.rs:17` says the prior agrees with System 1: it knows no decay and
  flattens the paths, counting a premise that two of them share once.
* Long-term memory. `memory/store.rs:17` says the primitives of the sovereignty are
  enforced in `flush` and `load`: the Neo4j store does not look at the argument,
  and neither store gets a causal subgraph (l. 22). A retention below a second
  becomes a time to live of zero, which Redis refuses: every flush fails. Neo4j
  counts retention from the last flush, `retention.rs` from creation. A failed
  flush loses the count of what it wrote. Of two beliefs with one key the later
  wins. `docs/mnemonic_sovereignty.md:44` has a verifier traverse all four graphs
  after the erasure: the default one asks causal reachability before it.
  `forget.rs:4` speaks of a belief not recoverable by any path: checkpoints and
  premise lists still hold it, and `PartialDeletion` does not say which backends
  were not asked.
* Server. A contract loaded by `main.rs:87` "to enable governance" is shown by the
  status handler and attached to no engine. With the provider `"none"` a set
  answers `System1Only`, not Pending (`main.rs:113`). The version answered for a
  checkpoint is read under a second lock. Every error of a rollback is a 500. GET
  and counterfactuals take the first belief of a key, diffs the last.
  `mark_correct` finds nothing to mark at a belief's first update, so that the
  report does not count its contradiction.
* Contracts. `write_auth` is described as who may insert (`sovereignty/mod.rs:31`)
  and asked for updates only; the authorisations of updates, reads and rollbacks
  and the cross-agent policy are asked by nobody, although
  `docs/mnemonic_sovereignty.md:30-37` says where they are enforced. A contract
  from a file always recovers by a rollback; a misspelt severity is Hard. The
  runtime discards what recovery verification says. `track_tool_call` and
  `mark_approved` have no caller, and an approval would not clear
  `requires_approval`.

## 6. Plan

1. *(done)* `QuadOps`, `BeliefQuad`, their proofs.
2. *(done)* `Propagation`, `System1`.
3. *(done)* `ContractEngine`, `BeliefRuntime`.
4. *(done)* `TokenBucket`, `TaskPromise`, `System2Tasks`, the refinement and
   its proofs.
5. *(done)* `AuditLedger`, `EvidenceReceipt`, the first proofs about them.
6. *(done)* `EmbeddingCache`, `ActiveInference`, `InsertPipeline`,
   `LongTermMemory`, `Gateway`.
7. *(done)* Proofs about the core: retainment and support of revisions, the
   range of propagation, the runtime's soundness, tokens and enforcement, the
   meaning of proofs and receipts; convergence of System 1; prefixes, retention
   and erasure of the long-term memory.
8. *(done)* Proofs about the server, on the runtime's invariant: shares,
   counterfactual worlds, diffs, keys, the confidence trace.
9. *(done)* Proofs about inserts: the monitor's statistics and credit, retrieval,
   where outdated scenarios come from.
10. Proofs about the cache: `VerdictsExtensional` and `ExpansionNeverStale` (what is
   cached stays cached, each text with its own embedding), `OkMeansCached`.

## 7. Not modelled, and why

* Metrics, the server card, DOT rendering, telemetry: output that nothing reads
  back. Routing is the table of `Dispatch`.
* Parsing of TOML, JSON and JWT: a request, a contract or a token is what it says.
* The Redis and Neo4j drivers and the HTTP clients: external services, modelled
  by their outcomes.
* `is_spike`: a comparison of floating-point moments of the history, of which the
  model keeps what they are computed from.
* Cross-agent policy, read and rollback authorisation, tool-call caps and
  approvals: predicates without a caller.
* Macros, Python bindings and benchmarks: generated code, wrappers that forward
  one call, and measurement. The zero-knowledge skeleton is a placeholder.
* Two matters have no property of their own. One checkpoint per update is kept until
  something rolls back (`runtime.rs:462`): a matter of memory, in a model whose
  calls are bounded. Preconditions are checked under a read lock that is released
  before the revision (`runtime.rs:444`): the code promises no more than that they
  held when checked.

------------------------------ MODULE Gateway ------------------------------
(***************************************************************************)
(* The MCP server around one BeliefRuntime: the process starts from its    *)
(* environment, a request passes authentication and then the rate limiter  *)
(* of its address, and its handler locks the quad, some handlers more than *)
(* once.  main attaches neither contracts nor sovereignty to the runtime.  *)
(* Beside the requests the host reports the session's calibration.         *)
(***************************************************************************)
EXTENDS BeliefRuntime

CONSTANTS Environments,  \* the variables a process may be started with
          Requests,      \* [path, token, header] of requests
          Assignments,   \* [key, value] clients ask to set
          Localhost,     \* the address of a request without the header
          MaxTicks,      \* bound: clock, in units of 1/rps seconds
          MaxCheckpoints \* bound: checkpoints after which none is asked for

ASSUME GatewayAssumption ==
    /\ Attachable = {<<>>} /\ Sovereignties = {None}
    /\ \A q \in InitialQuads, k \in Key : Cardinality(Holders(q, k)) <= 1
    /\ {MaxTicks, MaxCheckpoints} \subseteq Nat
    /\ Assignments \subseteq [key : Key, value : Value]
    /\ \A e \in Environments :
         /\ e.rps \in Nat \cup {None}
         /\ e.contracts # None => e.contracts.config \in ContractConfig

VARIABLES server,     \* what the process was started as
          clock,
          bucket,     \* address -> requests the limiter would let through now
          passed,     \* address -> API requests it let through
          last,       \* the last answer about a checkpoint, while the quad is as it was then
          revisions,  \* [id, contracted] of revisions done
          overlapped, \* beliefs two of whose updates overlapped
          raced       \* keys that two inserts under way shared

served   == <<server, clock, bucket, passed>>
observed == <<last, revisions, overlapped, raced>>
gatewayVars == <<vars, served, observed>>

-----------------------------------------------------------------------------
(* main and AuthConfig::from_env *)

InDev(e) == e.env \in {"development", "dev", "test"}

Auth(e) ==
    IF e.noAuth THEN IF InDev(e) THEN "off" ELSE "exit"
    ELSE IF e.alg # "rs256" THEN "hs256"
    ELSE IF e.pem \in {None, "unreadable"} THEN "panic" ELSE "rs256"

\* The contract file, if the variable names one, must read and parse.
LoadedContract(e) == IF e.contracts = None \/ e.contracts.reads THEN "loaded" ELSE "panic"

\* At least one request per second; 100 if the variable is not a number.
Burst(e) == IF e.rps = None THEN 100 ELSE IF e.rps = 0 THEN 1 ELSE e.rps

\* The client of EPICA_LLM_PROVIDER; without its key the server runs without.
AttachesClient(e) == e.provider # "none" /\ e.apiKey

Boot(e) ==
    [up       |-> /\ {Auth(e), LoadedContract(e)} \cap {"exit", "panic"} = {}
                  /\ e.addr = "free",
     auth     |-> Auth(e),
     keyReads |-> e.pem # "malformed",
     contract |-> IF e.contracts = None THEN None ELSE FromConfig(e.contracts.config),
     burst    |-> Burst(e)]

GatewayInit ==
    /\ Init
    /\ \E e \in Environments : (AttachesClient(e) <=> LlmAttached) /\ server = Boot(e)
    /\ clock = 0
    /\ bucket = [a \in {r.header : r \in Requests} \cup {Localhost} |-> server.burst]
    /\ passed = [a \in DOMAIN bucket |-> 0]
    /\ last = None /\ revisions = <<>>
    /\ overlapped = {} /\ raced = {}

-----------------------------------------------------------------------------
(* The middleware: the layer added last sees a request first, so a request *)
(* is authenticated before the limiter counts it.                          *)

Exempt(req) == req.path = "probe"

\* validate_jwt: signed by the server's algorithm and key, for its audience
\* and issuer, not expired.
ValidateJwt(token) ==
    /\ token # None
    /\ token.alg = server.auth
    /\ server.auth = "rs256" => server.keyReads
    /\ token.ours
    /\ clock <= token.expires

CheckAuth(req) == server.auth = "off" \/ Exempt(req) \/ ValidateJwt(req.token)

ClientIp(req) == IF req.header = None THEN Localhost ELSE req.header

Refused(req) ==
    \/ ~CheckAuth(req)
    \/ ~Exempt(req) /\ bucket[ClientIp(req)] = 0

KnownOnly(req) ==  \* mutant: a request without the header is not counted
    /\ IF Exempt(req) \/ Refused(req) THEN UNCHANGED <<bucket, passed>>
       ELSE /\ bucket' = IF req.header = None THEN bucket
                         ELSE [bucket EXCEPT ![ClientIp(req)] = @ - 1]
            /\ passed' = [passed EXCEPT ![ClientIp(req)] = @ + 1]
    /\ UNCHANGED <<server, clock>>
\* The limiter's step for a request that reaches it.
Metered(req) ==
    /\ IF Exempt(req) \/ Refused(req) THEN UNCHANGED <<bucket, passed>>
       ELSE /\ bucket' = [bucket EXCEPT ![ClientIp(req)] = @ - 1]
            /\ passed' = [passed EXCEPT ![ClientIp(req)] = @ + 1]
    /\ UNCHANGED <<server, clock>>

Api(t, req) == /\ task[t].pc = "idle" /\ ~Exempt(req) /\ ~Refused(req)
               /\ Metered(req)

Untouched == UNCHANGED <<quad, checkpoints, nextCp, keyIndex, history,
                         engine, log, audits, tokensUsed>>

\* Probes and discovery documents are answered without token or limit; 401
\* and 429 end a request before its handler.
Turned(t, req) ==
    /\ Exempt(req) \/ Refused(req)
    /\ Begin(t)
    /\ Metered(req)
    /\ Return(t, IF ~CheckAuth(req) THEN "401" ELSE IF Exempt(req) THEN "200" ELSE "429")
    /\ Untouched /\ UNCHANGED observed

\* The limiter forgets one request of every address per 1/rps seconds.  Bound:
\* time passes once an address is at its limit, earlier ticks add no request.
Tick ==
    /\ clock < MaxTicks
    /\ \E a \in DOMAIN bucket : bucket[a] = 0
    /\ clock' = clock + 1
    /\ bucket' = [a \in DOMAIN bucket |->
                    IF bucket[a] < server.burst THEN bucket[a] + 1 ELSE bucket[a]]
    /\ UNCHANGED <<vars, server, passed, observed>>

-----------------------------------------------------------------------------
(* Handlers *)

\* The last answer is kept as long as what it was about.
Forget == last' = IF quad' = quad /\ last # None /\ last.route = "diff" THEN last ELSE None

Inserting(k) == {t \in Task : task[t].pc \in {"insert", "index"} /\ task[t].key = k}

HandleBeliefSet(t, req, k, v, c) ==
    /\ Api(t, req)
    /\ nextCp <= MaxCheckpoints
    /\ SetBelief(t, k, v, c)
    /\ raced' = IF k \notin DOMAIN keyIndex /\ Inserting(k) # {} THEN raced \cup {k} ELSE raced
    /\ Forget
    /\ UNCHANGED <<revisions, overlapped>>

Updating(id) == {t \in Task : task[t].pc \in {"post", "mark", "record"} /\ task[t].id = id}

\* The further steps of a set request.
Continue(t) ==
    /\ Proceed(t)
    /\ LET revised == task[t].pc = "revise" /\ task'[t].pc = "post"
           id      == task[t].id
       IN  /\ revisions' = IF revised
                           THEN Append(revisions, [id |-> id, contracted |-> task'[t].contradicted])
                           ELSE revisions
           /\ overlapped' = IF revised /\ Updating(id) # {} THEN overlapped \cup {id}
                            ELSE overlapped
    /\ Forget
    /\ UNCHANGED <<served, raced>>

\* handle_checkpoint: the checkpoint under one lock, the version under another.
HandleCheckpoint(t, req) ==
    /\ Api(t, req)
    /\ nextCp <= MaxCheckpoints
    /\ Begin(t)
    /\ checkpoints' = Append(checkpoints, [id |-> nextCp, quad |-> quad])
    /\ nextCp' = nextCp + 1
    /\ task' = [task EXCEPT ![t] = [Frame("version", None, None, None, 0) EXCEPT !.cp = nextCp]]
    /\ UNCHANGED <<engine, quad, keyIndex, history, log, audits, tokensUsed, observed>>

AnswerVersion(t) ==
    /\ task[t].pc = "version"
    /\ Return(t, "200")
    /\ Untouched
    /\ UNCHANGED <<calls, served, observed>>

StatusOf(error) ==
    CASE error = "NotFound"   -> "404"
      [] error = "BadRequest" -> "400"
      [] error = "Runtime"    -> "500"

\* BeliefQuad::diff by belief key: the beliefs q has and snap has not, those
\* snap has and q has not, and those of both with another value or confidence.
DiffCounts(q, snap) ==
    LET now == ByKey(q) then == ByKey(snap)
    IN  [added    |-> Cardinality(DOMAIN now \ DOMAIN then),
         removed  |-> Cardinality(DOMAIN then \ DOMAIN now),
         modified |-> Cardinality({k \in DOMAIN now \cap DOMAIN then : now[k] # then[k]})]

NoDiff == [added |-> 0, removed |-> 0, modified |-> 0]

Answer(route, cp, status, counts) ==
    [route |-> route, cp |-> cp, status |-> status, counts |-> counts]

QuadOf(cp) == checkpoints[CHOOSE i \in Held(checkpoints, cp) : TRUE].quad

DiffReversed(cp) ==  \* mutant: the checkpoint's diff to the quad
    IF cp = None \/ Held(checkpoints, cp) = {} THEN Answer("diff", cp, StatusOf("BadRequest"), NoDiff)
    ELSE Answer("diff", cp, "200", DiffCounts(QuadOf(cp), quad))
DiffAnswer(cp) ==
    IF cp = None \/ Held(checkpoints, cp) = {} THEN Answer("diff", cp, StatusOf("BadRequest"), NoDiff)
    ELSE Answer("diff", cp, "200", DiffCounts(quad, QuadOf(cp)))

HandleDiff(t, req, cp) ==
    /\ Api(t, req)
    /\ Begin(t)
    /\ last' = DiffAnswer(cp)
    /\ Return(t, last'.status)
    /\ Untouched /\ UNCHANGED <<revisions, overlapped, raced>>

\* None is an id that does not parse.
RollbackAnswer(cp) ==
    LET out == Rollback(quad, checkpoints, cp)
    IN  IF cp = None THEN Answer("rollback", cp, StatusOf("BadRequest"), NoDiff)
        ELSE IF out.result # "Ok" THEN Answer("rollback", cp, StatusOf("Runtime"), NoDiff)
        ELSE Answer("rollback", cp, "200", DiffCounts(quad, out.quad))

HandleRollback(t, req, cp) ==
    /\ Api(t, req)
    /\ last' = RollbackAnswer(cp)
    /\ IF cp = None THEN Begin(t) /\ Return(t, last'.status) /\ Untouched ELSE RollbackTo(t, cp)
    /\ UNCHANGED <<revisions, overlapped, raced>>

DirectConsequences(q, id) ==  \* mutant: what the antecedent supports directly
    [excluded  |-> {id} \cup {e.to : e \in {x \in q.graphs["causal"].edges : x.from = id}},
     surviving |-> {i \in Live(q) \ {id} : \A e \in q.graphs["causal"].edges :
                                             e.from = id => e.to # i}]
\* counterfactual_query: the antecedent and its causal descendants are left out.
CounterfactualQuery(q, id) ==
    LET excluded == Descendants(q, id) \cup {id}
    IN  [excluded |-> excluded, surviving |-> Live(q) \ excluded]

\* GET a belief and POST a counterfactual look for the first belief of a key.
Lookup(k) == IF Holders(quad, k) = {} THEN StatusOf("NotFound") ELSE "200"

HandleRead(t, req, k) ==
    /\ Api(t, req)
    /\ Begin(t)
    /\ Return(t, Lookup(k))
    /\ Untouched /\ UNCHANGED observed

DriftBound(contract) ==
    [unbounded |-> contract.gamma <= 0, withinOnePerHundred |-> contract.alpha * 100 <= contract.gamma]

\* The contract of the status is the loaded one, not the runtime's.
ContractStatus ==
    IF server.contract = None THEN "no contract configured"
    ELSE IF DriftBound(server.contract).unbounded THEN "unbounded"
    ELSE IF DriftBound(server.contract).withinOnePerHundred THEN "satisfied" ELSE "drifting"

HandleContractStatus(t, req) ==
    /\ Api(t, req)
    /\ Begin(t)
    /\ Return(t, ContractStatus)
    /\ Untouched /\ UNCHANGED observed

-----------------------------------------------------------------------------
(* The session's calibration *)

\* The places of the records with an outcome.
TeceInput(records) == {i \in DOMAIN records : records[i].correct # None}

\* The sum of |confidence - accuracy| over these records; T-ECE is its quotient
\* by their number.
TotalError(records) ==
    LET sum[i \in 0 .. Len(records)] ==
          IF i = 0 THEN 0
          ELSE IF i \notin TeceInput(records) THEN sum[i - 1]
          ELSE sum[i - 1] + IF records[i].correct THEN Scale - records[i].conf
                                                 ELSE records[i].conf
    IN  sum[Len(records)]

SessionReport ==
    [revisions      |-> Len(history),
     known          |-> Cardinality(TeceInput(history)),
     contradictions |-> Cardinality({i \in TeceInput(history) : ~history[i].correct}),
     error          |-> TotalError(history),
     tokens         |-> tokensUsed]

\* Called at session end; requests accepted before may still be under way.
FinalizeSession ==
    /\ calls = MaxCalls
    /\ \E i \in DOMAIN history : history[i].correct = None
    /\ history' = [i \in DOMAIN history |->
                     [history[i] EXCEPT !.correct = IF @ = None THEN TRUE ELSE @]]
    /\ UNCHANGED <<quad, checkpoints, nextCp, keyIndex, engine, log, audits,
                   tokensUsed, calls, task, served, observed>>

-----------------------------------------------------------------------------
Dispatch(t, req) ==
    \/ Turned(t, req)
    \/ \E a \in Assignments, c \in ConfIn : HandleBeliefSet(t, req, a.key, a.value, c)
    \/ HandleCheckpoint(t, req)
    \/ \E cp \in (0 .. nextCp - 1) \cup {None} :
         HandleDiff(t, req, cp) \/ HandleRollback(t, req, cp)
    \/ \E k \in Key : HandleRead(t, req, k)
    \/ HandleContractStatus(t, req)

GatewayNext ==
    /\ server.up
    /\ \/ \E t \in Task, req \in Requests : Dispatch(t, req)
       \/ \E t \in Task : Continue(t) \/ AnswerVersion(t)
       \/ Tick
       \/ FinalizeSession

GatewaySpec == GatewayInit /\ [][GatewayNext]_gatewayVars

-----------------------------------------------------------------------------
(* Properties *)

\* Type invariant of what the server adds to the runtime's state.
GatewayTypeOK ==
    /\ IsQuad(quad)
    /\ server.auth \in {"off", "hs256", "rs256", "exit", "panic"}
    /\ clock \in 0 .. MaxTicks
    /\ bucket \in [DOMAIN bucket -> 0 .. server.burst]
    /\ \A t \in Task : task[t].pc \in {"idle", "insert", "index", "admit", "meter", "version"}
                                        \cup Committed

\* Unless two sets of a new key were under way at once, a key has at most one
\* belief, and that one is what the key index names for it or an inserting task
\* is about to enter there: once entered, a set revises the belief that a GET
\* shows.  The converse is not claimed.  The index is not rolled back with the
\* quad: it may name nothing or, its id issued again, the belief of another key.
KeysHoldOneBelief ==
    \A k \in Key \ raced :
      /\ Cardinality(Holders(quad, k)) <= 1
      /\ Holders(quad, k) \subseteq
           {keyIndex[j] : j \in {k} \cap DOMAIN keyIndex}
             \cup {task[t].id : t \in {u \in Inserting(k) : task[u].pc = "index"}}

\* What a diff against a checkpoint answers foretells a rollback to it while
\* the quad stays as it is: the same counts, or a refusal when all are zero,
\* or no such checkpoint for both.
DiffForetellsRollback ==
    [][(last # None /\ last' # None /\ last' # last /\ last.route = "diff"
          /\ last'.route = "rollback" /\ last.cp = last'.cp) =>
         \/ last.status = "400" /\ last'.status \in {"400", "500"}
         \/ last.status = "200" /\ last.counts = NoDiff /\ last'.status = "500"
         \/ last.status = "200" /\ last.counts # NoDiff
              /\ last'.status = "200" /\ last'.counts = last.counts]_gatewayVars

\* No belief of a counterfactual world has a cause outside it, nothing that
\* could stay is left out, and the two parts make up the quad ("what would
\* the agent believe if the antecedent had never occurred").
CounterfactualClosed ==
    \A id \in Live(quad) :
      LET world  == CounterfactualQuery(quad, id)
          causal == quad.graphs["causal"].edges
      IN  /\ \A e \in causal : e.to \in world.surviving => e.from \in world.surviving
          /\ \A keep \in SUBSET world.excluded :
               keep # {} /\ id \notin keep =>
                 \E e \in causal : e.to \in keep /\ e.from \notin keep \cup world.surviving
          /\ world.excluded \subseteq Live(quad)

\* Over any time no address has more requests let through than the burst and
\* one per 1/rps seconds, whoever asks and whatever is refused in between.
AddressGetsItsShare ==
    \A a \in DOMAIN bucket : passed[a] <= server.burst + clock

\* "Rate limit: outermost - applied before auth, protects all non-exempt paths":
\* a request that is answered 401 has cost its address a request.
LimitedBeforeAuth ==
    [][\A t \in Task, req \in Requests :
         Turned(t, req) /\ task'[t].result = "401" =>
           bucket'[ClientIp(req)] = bucket[ClientIp(req)] - 1]_gatewayVars

\* Of a sequence about many beliefs, what is about one of them, in its order.
Of(id, seq) ==
    LET of[i \in 0 .. Len(seq)] ==
          IF i = 0 THEN <<>>
          ELSE IF seq[i].id = id THEN Append(of[i - 1], seq[i]) ELSE of[i - 1]
    IN  of[Len(seq)]

Settled == {revisions[i].id : i \in DOMAIN revisions} \ overlapped

\* The confidence trace tells which revision contracted something: of a belief
\* whose updates never overlapped, a record says incorrect exactly when the next
\* revision of the belief removed one of its premises, finalized or not.  A
\* contradiction of a belief without support marks nothing.  The report of a
\* session counts these, a belief's first revision apart, which has no record to
\* mark; what it counts as known has a T-ECE, the quotient of error and known,
\* of at most one.
TraceTellsContractions ==
    /\ \A id \in Settled :
         Updating(id) = {} =>
           LET trace == Of(id, history)
               done  == Of(id, revisions)
           IN  /\ Len(trace) = Len(done)
               /\ \A n \in DOMAIN trace :
                    (trace[n].correct = FALSE) <=> (n < Len(done) /\ done[n + 1].contracted)
    /\ (overlapped = {} /\ \A id \in Settled : Updating(id) = {}) =>
         /\ SessionReport.revisions = Len(revisions)
         /\ SessionReport.contradictions =
              Cardinality({i \in DOMAIN revisions :
                             revisions[i].contracted
                               /\ \E j \in 1 .. i - 1 : revisions[j].id = revisions[i].id})
         /\ SessionReport.tokens >= SessionReport.revisions
         /\ SessionReport.error <= Scale * SessionReport.known

=============================================================================

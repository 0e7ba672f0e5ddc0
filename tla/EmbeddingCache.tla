--------------------------- MODULE EmbeddingCache ---------------------------
(***************************************************************************)
(* EmbeddingCache: the embedding provider of epica-openai, whose cache is  *)
(* filled by concurrent async calls while the quad reads it, one lookup at *)
(* a time, to decide a revision and to audit it for extensionality.  The   *)
(* quad holds its write lock during a revision; the cache has a lock of    *)
(* its own, so embeddings arrive between two lookups.                      *)
(***************************************************************************)
EXTENDS Integers, Sequences, FiniteSets, Functions, SequencesExt

CONSTANTS Text,       \* Asserted texts, exactly as they are cached
          Literal,    \* text -> what trim and to_lowercase leave of it
          Cosine,     \* pair of texts -> similarity of their embeddings
          EquivalentAt, ContradictsAt,  \* thresholds, in the same unit
          BatchSizeIn,  \* the batch size asked for
          MaxRetries,   \* MAX_RETRIES
          Caller,       \* tasks that call the provider
          Requests,     \* sequences of texts they pass
          Contents,     \* quads: the texts of their beliefs in slot order
          Disputed,     \* slots of beliefs with an outgoing Contradicts edge
          None,         \* Option::None
          MaxCalls,     \* bound: calls begun
          MaxRevisions  \* bound: revisions begun

ASSUME EmbeddingAssumption ==
    /\ Literal \in [Text -> Text]
    /\ Cosine \in [Text \X Text -> 0 .. 200]
    /\ Requests \subseteq Seq(Text)
    /\ Contents \subseteq Seq(Text)
    /\ Disputed \subseteq Nat
    /\ None \notin Text
    /\ MaxRetries \in Nat \ {0} /\ MaxCalls \in Nat /\ MaxRevisions \in Nat

VARIABLES cache,     \* text -> embedding; an embedding is the text it is of
          front,     \* the same in a CachedEmbeddingProvider around it
          wrapped,   \* whether the quad's provider is that wrapper
          pending,   \* texts queued by warm for the next warm_async
          call,      \* what each caller is doing
          value,     \* the texts the quad's beliefs assert, in slot order
          revision,  \* the revision in progress, under the quad's write lock
          calls, revisions  \* how many have begun

vars == <<cache, front, wrapped, pending, call, value, revision, calls, revisions>>
providerVars == <<cache, front, wrapped, pending, call, calls>>
quadVars == <<value, revision, revisions>>

\* with_batch_size clamps into [1, 2048].
BatchSize == IF BatchSizeIn < 1 THEN 1 ELSE IF BatchSizeIn > 2048 THEN 2048 ELSE BatchSizeIn

Empty == [t \in {} |-> None]
Cached == DOMAIN cache

NoCall == [pc |-> "idle", texts |-> <<>>, seen |-> {}, missing |-> <<>>,
           attempt |-> 0, wanted |-> None, result |-> None]
NoRevision == [pc |-> "none", belief |-> 0, new |-> None, contradicts |-> FALSE,
               next |-> 1, start |-> Empty, result |-> None]

Init ==
    /\ cache = Empty /\ front = Empty
    /\ wrapped \in BOOLEAN
    /\ pending = <<>>
    /\ call = [c \in Caller |-> NoCall]
    /\ value \in Contents
    /\ revision = NoRevision
    /\ calls = 0 /\ revisions = 0

-----------------------------------------------------------------------------
(* The provider *)

\* Both warm and warm_async skip what is cached and what they have already.
Enqueue(queue, texts) ==
    FoldLeft(LAMBDA q, t : IF t \in Cached \cup Range(q) THEN q ELSE Append(q, t),
             queue, texts)

BeginCall ==
    /\ calls < MaxCalls
    /\ calls' = calls + 1
    /\ UNCHANGED quadVars

Requeue(texts) ==  \* mutant: the queue is replaced
    /\ BeginCall
    /\ pending' = Enqueue(<<>>, texts)
    /\ UNCHANGED <<cache, front, wrapped, call>>

\* warm: synchronous, it only queues.
Warm(texts) ==
    /\ BeginCall
    /\ pending' = Enqueue(pending, texts)
    /\ UNCHANGED <<cache, front, wrapped, call>>

\* warm of the wrapper, one text of it: lift what the backend has, else
\* delegate.
LiftWarm(t) ==
    /\ wrapped
    /\ BeginCall
    /\ t \notin DOMAIN front
    /\ IF t \in Cached
       THEN front' = [u \in DOMAIN front \cup {t} |-> IF u = t THEN cache[t] ELSE front[u]]
            /\ UNCHANGED pending
       ELSE pending' = Enqueue(pending, <<t>>) /\ UNCHANGED front
    /\ UNCHANGED <<cache, wrapped, call>>

\* insert_cached: a caller that has the vector already.
InsertCached(t) ==
    /\ BeginCall
    /\ cache' = [u \in Cached \cup {t} |-> IF u = t THEN t ELSE cache[u]]
    /\ UNCHANGED <<front, wrapped, pending, call>>

\* The first step of warm_async: what is missing, under both locks.
Forgetful(texts) == Enqueue(<<>>, texts)  \* mutant: the queue is not drained
Missing(texts) == Enqueue(Enqueue(<<>>, pending), texts)

Collect(c, texts, wanted) ==
    call' = [call EXCEPT ![c] = [NoCall EXCEPT !.pc = "clear", !.texts = texts,
                                   !.seen = Range(pending), !.wanted = wanted,
                                   !.missing = Missing(texts)]]

Return(c, result) == call' = [call EXCEPT ![c] = [NoCall EXCEPT !.result = result]]

WarmAsync(c, texts) ==
    /\ call[c].pc = "idle"
    /\ BeginCall
    /\ Collect(c, texts, None)
    /\ UNCHANGED <<cache, front, wrapped, pending>>

\* embed: a hit, or warm_async of the one text and a second look.
Embed(c, t) ==
    /\ call[c].pc = "idle"
    /\ BeginCall
    /\ IF t \in Cached
       THEN Return(c, cache[t])
       ELSE Collect(c, <<t>>, t)
    /\ UNCHANGED <<cache, front, wrapped, pending>>

\* map_embedding_error narrows what embed returns.
Mapped(error) ==
    IF error \in {"Network", "RateLimited"} THEN "EmbedNetwork" ELSE "EmbedModel"

Finish(c, frame, result) ==
    IF frame.wanted = None THEN Return(c, result)
    ELSE IF result # "Ok" THEN Return(c, Mapped(result))
    ELSE call' = [call EXCEPT ![c] = [NoCall EXCEPT !.pc = "reread", !.wanted = frame.wanted]]

\* "Pending is now consumed": the queue is cleared under its lock alone.
ClearPending(c) ==
    /\ call[c].pc = "clear"
    /\ pending' = <<>>
    /\ IF call[c].missing = <<>> THEN Finish(c, call[c], "Ok")
       ELSE call' = [call EXCEPT ![c].pc = "fetch"]
    /\ UNCHANGED <<cache, front, wrapped, calls>>
    /\ UNCHANGED quadVars

Chunk(missing) == SubSeq(missing, 1, IF Len(missing) < BatchSize THEN Len(missing) ELSE BatchSize)
Rest(missing) == SubSeq(missing, BatchSize + 1, Len(missing))

\* The provider answers in any order; each entry says which input it is of.
Responses(chunk) == SetToSeqs({[index |-> i, embedding |-> chunk[i]] : i \in DOMAIN chunk})
SortedByIndex(entries) == SortSeq(entries, LAMBDA x, y : x.index < y.index)

\* A chunk is stored under its texts as it arrives, whatever comes next.
StoreChunk(c) ==
    /\ call[c].pc = "fetch"
    /\ LET chunk == Chunk(call[c].missing)
           frame == [call[c] EXCEPT !.missing = Rest(call[c].missing), !.attempt = 0]
       IN  /\ \E entries \in Responses(chunk) :
                LET sorted == SortedByIndex(entries)
                IN  cache' = [t \in Cached \cup Range(chunk) |->
                                IF t \in Range(chunk)
                                THEN sorted[CHOOSE i \in DOMAIN chunk : chunk[i] = t].embedding
                                ELSE cache[t]]
           /\ IF frame.missing = <<>> THEN Finish(c, frame, "Ok")
              ELSE call' = [call EXCEPT ![c] = frame]
    /\ UNCHANGED <<front, wrapped, pending, calls>>
    /\ UNCHANGED quadVars

Retryable == {"RateLimited", "Network"}
Fatal     == {"ClientError", "Deserialize", "Mismatch"}

\* A failed request is repeated if that may help, at most MaxRetries times in
\* all; the chunks stored before stay, the rest is given up.
FetchFails(c) ==
    /\ call[c].pc = "fetch"
    /\ \E error \in Retryable \cup Fatal :
         IF error \in Retryable /\ call[c].attempt + 1 < MaxRetries
         THEN call' = [call EXCEPT ![c].attempt = @ + 1]
         ELSE Finish(c, call[c], error)
    /\ UNCHANGED <<cache, front, wrapped, pending, calls>>
    /\ UNCHANGED quadVars

Reread(c) ==
    /\ call[c].pc = "reread"
    /\ LET t == call[c].wanted
       IN  Return(c, IF t \in Cached THEN cache[t] ELSE "EmbedModel")
    /\ UNCHANGED <<cache, front, wrapped, pending, calls>>
    /\ UNCHANGED quadVars

-----------------------------------------------------------------------------
(* The quad *)

\* embed_cached of the provider the quad holds.
Seen == IF wrapped THEN front ELSE cache

Classify(a, b) ==
    IF Cosine[a, b] >= EquivalentAt THEN "Equivalent"
    ELSE IF Cosine[a, b] <= ContradictsAt THEN "Contradicts"
    ELSE "Undecided"

Credulous(emb, current, new) ==  \* mutant: an unknown text contradicts nothing
    IF Literal[current] = Literal[new] \/ ~({current, new} \subseteq DOMAIN emb)
    THEN "LiteralAgree" ELSE Classify(emb[current], emb[new])

\* value_contradicts_semantic, as a VerdictTrace: a miss falls back to the
\* literal comparison.
Verdict(emb, current, new) ==
    IF Literal[current] = Literal[new] THEN "LiteralAgree"
    ELSE IF {current, new} \subseteq DOMAIN emb THEN Classify(emb[current], emb[new])
    ELSE "LiteralDisagreeNoCache"

\* check_contradiction_traced.
Contradicts(emb, b, text) ==
    \/ Verdict(emb, value[b], text) \notin {"LiteralAgree", "Equivalent"}
    \/ b \in Disputed

\* revise: the verdict first, then the audit.
BeginRevision(b, new) ==
    /\ revision.pc = "none"
    /\ revisions < MaxRevisions
    /\ revisions' = revisions + 1
    /\ revision' = [NoRevision EXCEPT !.pc = "embed", !.belief = b, !.new = new,
                                      !.contradicts = Contradicts(Seen, b, new),
                                      !.start = Seen]
    /\ UNCHANGED value
    /\ UNCHANGED providerVars

\* check_extensionality: without an embedding of the new value there is
\* nothing to audit.
EmbedNew ==
    /\ revision.pc = "embed"
    /\ revision' = [revision EXCEPT !.pc = IF revision.new \in DOMAIN Seen THEN "scan" ELSE "apply"]
    /\ UNCHANGED <<value, revisions>>
    /\ UNCHANGED providerVars

Known(emb, text) == text \in DOMAIN emb
Paraphrase(emb, a, b) ==
    Known(emb, a) /\ Known(emb, b) /\ Classify(emb[a], emb[b]) = "Equivalent"

\* One belief of the scan: a paraphrase of the new value must get its verdict.
Agreeing(emb, o) ==  \* mutant: only a contracting revision is audited
    /\ o # revision.belief
    /\ Paraphrase(emb, revision.new, value[o])
    /\ revision.contradicts /\ ~Contradicts(emb, revision.belief, value[o])
Witness(emb, o) ==
    /\ o # revision.belief
    /\ Paraphrase(emb, revision.new, value[o])
    /\ Contradicts(emb, revision.belief, value[o]) # revision.contradicts

AuditNext ==
    /\ revision.pc = "scan"
    /\ revision' =
         IF revision.next > Len(value) THEN [revision EXCEPT !.pc = "apply"]
         ELSE IF Witness(Seen, revision.next)
         THEN [NoRevision EXCEPT !.result = "PostulateViolation"]
         ELSE [revision EXCEPT !.next = @ + 1]
    /\ UNCHANGED <<value, revisions>>
    /\ UNCHANGED providerVars

\* Expansion alone, or contraction first; what contraction removes is in
\* QuadOps.
Apply ==
    /\ revision.pc = "apply"
    /\ value' = [value EXCEPT ![revision.belief] = revision.new]
    /\ revision' = [NoRevision EXCEPT
                      !.result = IF revision.contradicts THEN "Contracted" ELSE "Expanded"]
    /\ UNCHANGED revisions
    /\ UNCHANGED providerVars

-----------------------------------------------------------------------------
Next ==
    \/ \E texts \in Requests : Warm(texts)
    \/ \E t \in Text : LiftWarm(t) \/ InsertCached(t)
    \/ \E c \in Caller :
         \/ \E texts \in Requests : WarmAsync(c, texts)
         \/ \E t \in Text : Embed(c, t)
         \/ ClearPending(c)
         \/ StoreChunk(c)
         \/ FetchFails(c)
         \/ Reread(c)
    \/ \E b \in DOMAIN value, new \in Text : BeginRevision(b, new)
    \/ EmbedNew
    \/ AuditNext
    \/ Apply

Spec == Init /\ [][Next]_vars

-----------------------------------------------------------------------------
(* Properties *)

Errors == Retryable \cup Fatal \cup {"EmbedNetwork", "EmbedModel"}

\* Type invariant of the provider, the calls and the revision.
TypeOK ==
    /\ {cache, front} \subseteq UNION {[S -> Text] : S \in SUBSET Text}
    /\ pending \in Seq(Text) /\ IsInjective(pending)
    /\ \A c \in Caller :
         /\ call[c].pc \in {"idle", "clear", "fetch", "reread"}
         /\ call[c].missing \in Seq(Text) /\ IsInjective(call[c].missing)
         /\ call[c].attempt \in 0 .. MaxRetries - 1
         /\ call[c].result \in {None, "Ok"} \cup Errors \cup Text
    /\ value \in Seq(Text)
    /\ revision.pc \in {"none", "embed", "scan", "apply"}
    /\ revision.result \in {None, "PostulateViolation", "Expanded", "Contracted"}

\* A warm_async that returns Ok leaves everything cached, each text with its
\* own embedding, that it was given or found queued, in whatever order the
\* responses list their entries and although it skipped what others were to
\* fetch; hence embed never misses "immediately after warm_async".
OkMeansCached ==
    [][\A c \in Caller : call[c].pc # "idle" =>
         /\ (call'[c].result = "Ok" \/ call'[c].pc = "reread") =>
              \A t \in Range(call[c].texts) \cup call[c].seen :
                t \in DOMAIN cache' /\ cache'[t] = t
         /\ call[c].pc = "reread" => call'[c].pc = "reread" \/ call'[c].result = call[c].wanted]_vars

\* A queued text leaves the queue into the hands of a call, or because it is
\* cached, with one exception, the window in which warm_async has read the
\* queue and not cleared it yet: what is queued then is forgotten.
OnlyTheWindowForgets ==
    [][\A t \in Range(pending) \ Range(pending') :
         \/ t \in Cached
         \/ \E c \in Caller : t \in Range(call'[c].missing)
         \/ \E c \in Caller : call[c].pc = "clear" /\ t \notin call[c].seen]_vars

Decided == revision.pc # "none" /\ revision'.pc = "none"

\* K*6 with a cache that grows while the audit reads it: a revision that goes
\* through as an expansion agrees with every paraphrase that was known when it
\* began, judged by the cache when it ends; one that contracts agrees with
\* them judged by the cache when it began.
VerdictsExtensional ==
    [][(Decided /\ revision'.result \in {"Expanded", "Contracted"}) =>
         \A o \in DOMAIN value \ {revision.belief} :
           Paraphrase(revision.start, revision.new, value[o]) =>
             IF revision'.result = "Expanded"
             THEN ~Contradicts(Seen, revision.belief, value[o])
             ELSE Contradicts(revision.start, revision.belief, value[o])]_vars

\* The decision not to contract is never overtaken: whatever arrives in the
\* cache during the call, the new value still does not contradict the old.
ExpansionNeverStale ==
    [][(Decided /\ revision'.result = "Expanded") =>
         ~Contradicts(Seen, revision.belief, revision.new)]_vars

=============================================================================

---------------------------- MODULE TokenBucket ----------------------------
(***************************************************************************)
(* The rate limiter of System 2: a bucket that starts full, refills with   *)
(* time up to its capacity, and takes back what a failed call had paid.    *)
(* It refills lazily, when somebody asks for tokens.                       *)
(***************************************************************************)
EXTENDS Integers

CONSTANTS Capacity,  \* tokens the bucket holds
          Rate,      \* what a tick of the clock adds, in grains
          Grain      \* grains in a token: `available` is a fraction

ASSUME BucketAssumption == Capacity \in Nat /\ Rate \in Nat /\ Grain \in Nat \ {0}

Full == Capacity * Grain

Bucket == [available : 0 .. Full, last : Nat]

NewBucket(now) == [available |-> Full, last |-> now]

UpToFull(amount) == IF amount > Full THEN Full ELSE amount

\* What `available` is, or would be if the bucket were refilled now.
Level(b, now) == UpToFull(b.available + (now - b.last) * Rate)

Refill(b, now) ==
    IF Rate = 0 THEN b ELSE [available |-> Level(b, now), last |-> now]

\* try_consume(tokens), when Covers holds; otherwise it only refills.
Covers(b, now, tokens) == Refill(b, now).available >= tokens * Grain

Consume(b, now, tokens) == [Refill(b, now) EXCEPT !.available = @ - tokens * Grain]

\* release(tokens): no refill first, capped at the capacity.
Forfeit(b, tokens)  == b  \* mutant: a failed call is not paid back
Overflow(b, tokens) == [b EXCEPT !.available = @ + tokens * Grain]  \* mutant: no cap
Release(b, tokens)  == [b EXCEPT !.available = UpToFull(@ + tokens * Grain)]

=============================================================================

---------------------------- MODULE RateLimiter ----------------------------
(***************************************************************************)
(* RateLimiter::check of src/rate_limit.rs: one shard of the token-bucket  *)
(* limiter of a route, used by several worker threads.  Shards share no    *)
(* state and a key always hashes to the same one.                          *)
(*                                                                         *)
(* Time is counted in ticks and tokens in units, one unit refilled per     *)
(* tick: a request costs Cost units, a full bucket is Limit * Cost units   *)
(* and the window is as many ticks.  check reads the clock before it takes *)
(* the shard's lock, so buckets can be updated with an older time than the *)
(* one they hold; the subtraction of two Instants then saturates at zero.  *)
(* The sum of f64 tokens is taken as exact.                                *)
(***************************************************************************)
EXTENDS Integers, FiniteSets

CONSTANTS Keys,             \* rate-limit keys of the shard, already truncated
          Workers,          \* threads that call check
          Limit,            \* requests per window
          Cost,             \* ticks that refill one request
          Second,           \* ticks per second
          MaxShardEntries,  \* MAX_SHARD_ENTRIES
          MaxTime           \* bound on the clock

ASSUME LimitAssumption == Limit \in Nat \ {0}
ASSUME CostAssumption == Cost \in Nat \ {0}
ASSUME SecondAssumption == Second \in Nat \ {0}
ASSUME EntriesAssumption == MaxShardEntries \in Nat \ {0}

Capacity == Limit * Cost

VARIABLES clock,    \* Instant::now()
          shard,    \* HashMap<String, BucketState>: [tokens, last_update]
          calls,    \* per worker: {} or {[key, now]}, a check waiting for the lock
          ledger,   \* history, per bucket: when it was created, units granted since,
                    \* and ticks by which last_update was set back
          promise   \* history, per bucket: {} or {the time Retry-After named in the
                    \* last denial since the last grant}

vars == <<clock, shard, calls, ledger, promise>>

Init ==
    /\ clock = 0
    /\ shard = [k \in {} |-> 0]
    /\ calls = [w \in Workers |-> {}]
    /\ ledger = [k \in {} |-> 0]
    /\ promise = [k \in {} |-> {}]

\* Time passes.
Tick ==
    /\ clock < MaxTime
    /\ clock' = clock + 1
    /\ UNCHANGED <<shard, calls, ledger, promise>>

\* check up to the lock: the clock is read.
ReadClock(w) ==
    /\ calls[w] = {}
    /\ \E k \in Keys : calls' = [calls EXCEPT ![w] = {[key |-> k, now |-> clock]}]
    /\ UNCHANGED <<clock, shard, ledger, promise>>

-----------------------------------------------------------------------------
(* The decision, under the shard's lock.                                   *)

Least(a, b) == IF a <= b THEN a ELSE b
Put(f, k, v) == [x \in (DOMAIN f \cup {k}) |-> IF x = k THEN v ELSE f[x]]

\* Mutant: a full shard is not thinned out before a new key is entered.
KeepAll(buckets, key) == {DOMAIN buckets}

\* The keys that stay when key is looked up: a new key evicts an arbitrary one from a
\* shard at capacity.
Retained(buckets, key) ==
    IF key \in DOMAIN buckets \/ Cardinality(DOMAIN buckets) < MaxShardEntries
    THEN {DOMAIN buckets}
    ELSE {DOMAIN buckets \ {k} : k \in DOMAIN buckets}

\* The bucket of a key, a full one when it is new.
BucketOf(key, now) ==
    IF key \in DOMAIN shard THEN shard[key]
    ELSE [tokens |-> Capacity, last_update |-> now]

\* Mutant: the elapsed time is rounded up, and the result is not capped.
RefillRounded(bucket, now) ==
    bucket.tokens + (IF now > bucket.last_update THEN now - bucket.last_update ELSE 0) + 1

\* Instant subtraction saturates; the bucket never holds more than the limit.
Refilled(bucket, now) ==
    Least(bucket.tokens + (IF now > bucket.last_update THEN now - bucket.last_update ELSE 0),
          Capacity)

\* reset_secs of a denial, in ticks: the missing units take as many ticks, rounded up to
\* whole seconds, which is at least one second since something is missing.
Reset(missing) == ((missing + Second - 1) \div Second) * Second

\* The history of a bucket before this check.
LedgerOf(key, now) ==
    IF key \in DOMAIN shard THEN ledger[key] ELSE [born |-> now, spent |-> 0, back |-> 0]

\* Allowed: one request is taken from the refilled bucket.
Allow(w, key, now, kept) ==
    LET bucket == BucketOf(key, now)
        old    == LedgerOf(key, now)
        back   == IF now < bucket.last_update THEN bucket.last_update - now ELSE 0
    IN  /\ Refilled(bucket, now) >= Cost
        /\ shard' = Put([k \in kept |-> shard[k]], key,
                        [tokens |-> Refilled(bucket, now) - Cost, last_update |-> now])
        /\ ledger' = Put([k \in kept |-> ledger[k]], key,
                         [born |-> old.born, spent |-> old.spent + Cost, back |-> old.back + back])
        /\ promise' = Put([k \in kept |-> promise[k]], key, {})
        /\ calls' = [calls EXCEPT ![w] = {}]

\* Mutant: a denied request moves last_update and forgets what had been refilled.
DenyTouching(w, key, now, kept) ==
    LET bucket == BucketOf(key, now)
    IN  /\ Refilled(bucket, now) < Cost
        /\ shard' = Put([k \in kept |-> shard[k]], key, [bucket EXCEPT !.last_update = now])
        /\ ledger' = Put([k \in kept |-> ledger[k]], key, LedgerOf(key, now))
        /\ promise' = Put([k \in kept |-> promise[k]], key,
                          {clock + Reset(Cost - Refilled(bucket, now))})
        /\ calls' = [calls EXCEPT ![w] = {}]

\* Denied: the bucket keeps its tokens and its time; the client is told when to retry.
Deny(w, key, now, kept) ==
    LET bucket == BucketOf(key, now)
    IN  /\ Refilled(bucket, now) < Cost
        /\ shard' = Put([k \in kept |-> shard[k]], key, bucket)
        /\ ledger' = Put([k \in kept |-> ledger[k]], key, LedgerOf(key, now))
        /\ promise' = Put([k \in kept |-> promise[k]], key,
                          {clock + Reset(Cost - Refilled(bucket, now))})
        /\ calls' = [calls EXCEPT ![w] = {}]

Check(w) ==
    /\ \E c \in calls[w] : \E kept \in Retained(shard, c.key) :
          Allow(w, c.key, c.now, kept) \/ Deny(w, c.key, c.now, kept)
    /\ UNCHANGED clock

Next == Tick \/ \E w \in Workers : ReadClock(w) \/ Check(w)

Spec == Init /\ [][Next]_vars

-----------------------------------------------------------------------------
(* Properties.                                                             *)

\* Buckets hold at most the limit, and their times are readings of the clock.
TypeOK ==
    /\ clock \in Nat
    /\ DOMAIN ledger = DOMAIN shard /\ DOMAIN promise = DOMAIN shard
    /\ \A k \in DOMAIN shard :
          /\ k \in Keys
          /\ shard[k].tokens \in 0 .. Capacity
          /\ shard[k].last_update \in 0 .. clock
          /\ ledger[k].born \in 0 .. clock
          /\ ledger[k].spent \in Nat /\ ledger[k].back \in Nat
          /\ promise[k] \subseteq Nat
    /\ DOMAIN calls = Workers
    /\ \A w \in Workers : \A c \in calls[w] : c.key \in Keys /\ c.now \in 0 .. clock

\* A flood of unique keys never grows a shard past MAX_SHARD_ENTRIES.
ShardBounded == Cardinality(DOMAIN shard) <= MaxShardEntries

\* Over the whole life of a bucket a key is granted no more than one full bucket plus
\* what the clock refilled, plus what was credited twice because a thread that read the
\* clock early got the lock late.  Concurrent checks can gain nothing else.
GrantsBounded ==
    \A k \in DOMAIN shard :
        ledger[k].spent + shard[k].tokens
            <= Capacity + (shard[k].last_update - ledger[k].born) + ledger[k].back

\* A client that waits as long as Retry-After told it, with nobody else spending from its
\* bucket, is not denied again, even if its denial was decided with an old clock reading.
RetryAfterHonoured ==
    \A k \in DOMAIN shard : \A t \in promise[k] : Refilled(shard[k], t) >= Cost

=============================================================================

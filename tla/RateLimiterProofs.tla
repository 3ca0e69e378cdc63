------------------------- MODULE RateLimiterProofs -------------------------
(***************************************************************************)
(* Theorems about RateLimiter, for any limit, window, number of threads,   *)
(* keys and shard capacity.                                                *)
(***************************************************************************)
EXTENDS RateLimiter, FiniteSetTheorems, TLAPS

-----------------------------------------------------------------------------
(* Arithmetic.                                                             *)

LEMMA CapacityType == Capacity \in Nat /\ Capacity >= Cost /\ Cost \in Nat /\ Cost >= 1
<1>1. \A l, c \in Nat \ {0} : l * c \in Nat /\ l * c >= c
  OBVIOUS
<1> QED
  BY <1>1, LimitAssumption, CostAssumption DEF Capacity

LEMMA ResetCovers == \A n \in Nat : Reset(n) \in Nat /\ Reset(n) >= n
<1> TAKE n \in Nat
<1> DEFINE q == (n + Second - 1) \div Second
           r == (n + Second - 1) % Second
<1>1. n + Second - 1 \in Nat
  BY SecondAssumption
<1>2. q \in Nat /\ r \in 0 .. (Second - 1) /\ n + Second - 1 = Second * q + r
  BY <1>1, SecondAssumption
<1>3. Reset(n) = q * Second
  BY DEF Reset
<1>4. q * Second \in Nat /\ q * Second = Second * q
  BY <1>2, SecondAssumption
<1> HIDE DEF q, r
<1> QED
  BY <1>2, <1>3, <1>4, SecondAssumption

-----------------------------------------------------------------------------
(* One bucket.                                                             *)

\* What the invariants say of one bucket at time c.
BucketInv(b, l, pr, c) ==
    /\ b.tokens \in 0 .. Capacity /\ b.last_update \in 0 .. c
    /\ l.born \in 0 .. c /\ l.spent \in Nat /\ l.back \in Nat
    /\ pr \subseteq Nat
    /\ l.spent + b.tokens <= Capacity + (b.last_update - l.born) + l.back
    /\ \A t \in pr : Refilled(b, t) >= Cost

LimiterInv ==
    /\ clock \in Nat
    /\ DOMAIN ledger = DOMAIN shard /\ DOMAIN promise = DOMAIN shard
    /\ \A k \in DOMAIN shard :
          k \in Keys /\ BucketInv(shard[k], ledger[k], promise[k], clock)
    /\ DOMAIN calls = Workers
    /\ \A w \in Workers : \A c \in calls[w] : c.key \in Keys /\ c.now \in 0 .. clock
    /\ IsFiniteSet(DOMAIN shard)
    /\ ShardBounded

LEMMA RefilledType ==
    ASSUME NEW b, NEW t \in Nat, b.tokens \in 0 .. Capacity, b.last_update \in Nat
    PROVE  /\ Refilled(b, t) \in 0 .. Capacity
           /\ t >= b.last_update => Refilled(b, t) <= b.tokens + (t - b.last_update)
           /\ t < b.last_update => Refilled(b, t) = b.tokens
           /\ Refilled(b, t) < Cost =>
                 Refilled(b, t) = b.tokens + (IF t > b.last_update THEN t - b.last_update ELSE 0)
           /\ b.tokens + (t - b.last_update) >= Cost /\ t >= b.last_update
                 => Refilled(b, t) >= Cost
  BY CapacityType DEF Refilled, Least

\* The bucket a check starts from, old or new, satisfies the invariant.
LEMMA BucketOfInv ==
    ASSUME LimiterInv, NEW key, NEW now \in 0 .. clock
    PROVE  /\ BucketInv(BucketOf(key, now), LedgerOf(key, now), {}, clock)
           /\ key \notin DOMAIN shard => Refilled(BucketOf(key, now), now) >= Cost
<1>0. clock \in Nat /\ now \in Nat
  BY DEF LimiterInv
<1>1. CASE key \in DOMAIN shard
  BY <1>1 DEF LimiterInv, BucketInv, BucketOf, LedgerOf
<1>2. CASE key \notin DOMAIN shard
  <2> DEFINE b == [tokens |-> Capacity, last_update |-> now]
             l == [born |-> now, spent |-> 0, back |-> 0]
  <2>1. BucketOf(key, now) = b /\ LedgerOf(key, now) = l
    BY <1>2 DEF BucketOf, LedgerOf
  <2>2. b.tokens = Capacity /\ b.last_update = now /\ l.born = now /\ l.spent = 0 /\ l.back = 0
    OBVIOUS
  <2> HIDE DEF b, l
  <2>3. BucketInv(b, l, {}, clock)
    BY <1>0, <2>2, CapacityType DEF BucketInv
  <2>4. Refilled(b, now) >= Cost
    BY <1>0, <2>2, CapacityType DEF Refilled, Least
  <2> QED
    BY <2>1, <2>3, <2>4
<1> QED
  BY <1>1, <1>2

\* Granting a request keeps the balance: what is credited twice is what last_update loses.
LEMMA AllowBucketInv ==
    ASSUME NEW b, NEW l, NEW c \in Nat, NEW now \in 0 .. c, BucketInv(b, l, {}, c),
           Refilled(b, now) >= Cost
    PROVE  BucketInv([tokens |-> Refilled(b, now) - Cost, last_update |-> now],
                     [born |-> l.born, spent |-> l.spent + Cost,
                      back |-> l.back + (IF now < b.last_update THEN b.last_update - now ELSE 0)],
                     {}, c)
<1> DEFINE b2 == [tokens |-> Refilled(b, now) - Cost, last_update |-> now]
           g  == IF now < b.last_update THEN b.last_update - now ELSE 0
           l2 == [born |-> l.born, spent |-> l.spent + Cost, back |-> l.back + g]
<1>1. b2.tokens = Refilled(b, now) - Cost /\ b2.last_update = now
      /\ l2.born = l.born /\ l2.spent = l.spent + Cost /\ l2.back = l.back + g
  OBVIOUS
<1>2. /\ b.tokens \in 0 .. Capacity /\ b.last_update \in 0 .. c /\ l.born \in 0 .. c
      /\ l.spent \in Nat /\ l.back \in Nat
      /\ l.spent + b.tokens <= Capacity + (b.last_update - l.born) + l.back
  BY DEF BucketInv
<1>3. b.last_update \in Nat /\ now \in Nat
  BY <1>2
<1>4. /\ Refilled(b, now) \in 0 .. Capacity
      /\ now >= b.last_update => Refilled(b, now) <= b.tokens + (now - b.last_update)
      /\ now < b.last_update => Refilled(b, now) = b.tokens
  BY <1>2, <1>3, RefilledType
<1>5. g \in Nat /\ (now < b.last_update => g = b.last_update - now)
      /\ (now >= b.last_update => g = 0)
  BY <1>3
<1> HIDE DEF b2, l2, g
<1>6. b2.tokens \in 0 .. Capacity /\ b2.last_update \in 0 .. c
  BY <1>1, <1>4, CapacityType
<1>7. l2.born \in 0 .. c /\ l2.spent \in Nat /\ l2.back \in Nat
  BY <1>1, <1>2, <1>5, CapacityType
<1>8. l2.spent + b2.tokens <= Capacity + (b2.last_update - l2.born) + l2.back
  BY <1>1, <1>2, <1>3, <1>4, <1>5, CapacityType
<1>9. BucketInv(b2, l2, {}, c)
  BY <1>6, <1>7, <1>8 DEF BucketInv
<1> QED
  BY <1>9 DEF b2, l2, g

\* The time a denial names is late enough, also when it was decided with an old reading.
LEMMA DenyBucketInv ==
    ASSUME NEW b, NEW l, NEW c \in Nat, NEW now \in 0 .. c, BucketInv(b, l, {}, c),
           Refilled(b, now) < Cost
    PROVE  BucketInv(b, l, {c + Reset(Cost - Refilled(b, now))}, c)
<1> DEFINE n == Cost - Refilled(b, now)
           t == c + Reset(n)
<1>1. b.tokens \in 0 .. Capacity /\ b.last_update \in 0 .. c /\ b.last_update \in Nat /\ now \in Nat
  BY DEF BucketInv
<1>2. /\ Refilled(b, now) \in 0 .. Capacity
      /\ Refilled(b, now) = b.tokens + (IF now > b.last_update THEN now - b.last_update ELSE 0)
  BY <1>1, RefilledType
<1>3. n \in Nat
  BY <1>2, CapacityType
<1>4. Reset(n) \in Nat /\ Reset(n) >= n
  BY <1>3, ResetCovers
<1>5. t \in Nat /\ t >= b.last_update
  BY <1>1, <1>4
<1>6. b.tokens + (t - b.last_update) >= Cost
  <2>1. t >= c + (Cost - Refilled(b, now))
    BY <1>3, <1>4
  <2> HIDE DEF t, n
  <2> QED
    BY <1>1, <1>2, <1>5, <2>1, CapacityType
<1>7. Refilled(b, t) >= Cost
  BY <1>1, <1>5, <1>6, RefilledType
<1> QED
  BY <1>5, <1>7 DEF BucketInv

\* The invariant of a bucket survives the passing of time.
LEMMA LaterBucketInv ==
    ASSUME NEW b, NEW l, NEW pr, NEW c \in Nat, BucketInv(b, l, pr, c)
    PROVE  BucketInv(b, l, pr, c + 1)
  BY DEF BucketInv

-----------------------------------------------------------------------------
(* The shard.                                                              *)

\* What a lookup leaves of the shard: room for the key.
LEMMA RetainedFacts ==
    ASSUME LimiterInv, NEW key, NEW kept \in Retained(shard, key)
    PROVE  /\ kept \subseteq DOMAIN shard /\ IsFiniteSet(kept \cup {key})
           /\ Cardinality(kept \cup {key}) <= MaxShardEntries
           /\ key \in DOMAIN shard => key \in kept
<1>0. IsFiniteSet(DOMAIN shard) /\ Cardinality(DOMAIN shard) \in Nat
      /\ Cardinality(DOMAIN shard) <= MaxShardEntries /\ MaxShardEntries \in Nat
  BY FS_CardinalityType, EntriesAssumption DEF LimiterInv, ShardBounded
<1>1. CASE key \in DOMAIN shard
  <2>1. kept = DOMAIN shard /\ kept \cup {key} = kept
    BY <1>1 DEF Retained
  <2> QED
    BY <1>0, <2>1
<1>2. CASE key \notin DOMAIN shard /\ Cardinality(DOMAIN shard) < MaxShardEntries
  <2>1. kept = DOMAIN shard
    BY <1>2 DEF Retained
  <2>2. IsFiniteSet(kept \cup {key})
        /\ Cardinality(kept \cup {key}) = Cardinality(DOMAIN shard) + 1
    BY <1>0, <1>2, <2>1, FS_AddElement
  <2> QED
    BY <1>0, <1>2, <2>1, <2>2
<1>3. CASE key \notin DOMAIN shard /\ ~(Cardinality(DOMAIN shard) < MaxShardEntries)
  <2>1. PICK k \in DOMAIN shard : kept = DOMAIN shard \ {k}
    BY <1>3 DEF Retained
  <2>2. IsFiniteSet(kept) /\ Cardinality(kept) = Cardinality(DOMAIN shard) - 1
    BY <1>0, <2>1, FS_RemoveElement
  <2>3. IsFiniteSet(kept \cup {key}) /\ Cardinality(kept \cup {key}) = Cardinality(kept) + 1
    BY <1>3, <2>1, <2>2, FS_AddElement
  <2> QED
    BY <1>0, <1>3, <2>1, <2>2, <2>3
<1> QED
  BY <1>1, <1>2, <1>3

\* A decision replaces one bucket and keeps the retained ones.
LEMMA DecisionInv ==
    ASSUME LimiterInv, NEW w \in Workers, NEW key \in Keys, NEW kept \in Retained(shard, key),
           NEW b, NEW l, NEW pr, BucketInv(b, l, pr, clock), clock' = clock,
           shard' = Put([k \in kept |-> shard[k]], key, b),
           ledger' = Put([k \in kept |-> ledger[k]], key, l),
           promise' = Put([k \in kept |-> promise[k]], key, pr),
           calls' = [calls EXCEPT ![w] = {}]
    PROVE  LimiterInv'
<1>1. /\ kept \subseteq DOMAIN shard /\ IsFiniteSet(kept \cup {key})
      /\ Cardinality(kept \cup {key}) <= MaxShardEntries
  BY RetainedFacts
<1>2. /\ DOMAIN shard' = kept \cup {key} /\ shard'[key] = b
      /\ \A x \in kept \ {key} : shard'[x] = shard[x]
  BY DEF Put
<1>3. /\ DOMAIN ledger' = kept \cup {key} /\ ledger'[key] = l
      /\ \A x \in kept \ {key} : ledger'[x] = ledger[x]
  BY DEF Put
<1>4. /\ DOMAIN promise' = kept \cup {key} /\ promise'[key] = pr
      /\ \A x \in kept \ {key} : promise'[x] = promise[x]
  BY DEF Put
<1>5. \A k \in DOMAIN shard' :
         k \in Keys /\ BucketInv(shard'[k], ledger'[k], promise'[k], clock)
  <2> SUFFICES ASSUME NEW k \in kept \cup {key}
               PROVE  k \in Keys /\ BucketInv(shard'[k], ledger'[k], promise'[k], clock)
    BY <1>2
  <2>1. CASE k = key
    BY <2>1, <1>2, <1>3, <1>4
  <2>2. CASE k # key
    <3>1. k \in DOMAIN shard /\ k \in kept \ {key}
      BY <2>2, <1>1
    <3>2. k \in Keys /\ BucketInv(shard[k], ledger[k], promise[k], clock)
      BY <3>1 DEF LimiterInv
    <3> QED
      BY <3>1, <3>2, <1>2, <1>3, <1>4
  <2> QED
    BY <2>1, <2>2
<1>6. DOMAIN calls' = Workers
      /\ \A u \in Workers : \A c \in calls'[u] : c.key \in Keys /\ c.now \in 0 .. clock
  BY DEF LimiterInv
<1>7. IsFiniteSet(DOMAIN shard') /\ ShardBounded'
  BY <1>1, <1>2 DEF ShardBounded
<1>8. (\A k \in DOMAIN shard : k \in Keys /\ BucketInv(shard[k], ledger[k], promise[k], clock))'
  BY <1>5 DEF BucketInv, Refilled, Least, Capacity
<1> QED
  BY <1>2, <1>3, <1>4, <1>6, <1>7, <1>8 DEF LimiterInv

\* Every step keeps the invariant of the limiter.
LEMMA NextLimiterInv == LimiterInv /\ [Next]_vars => LimiterInv'
<1> SUFFICES ASSUME LimiterInv, [Next]_vars PROVE LimiterInv'
  OBVIOUS
<1>0. clock \in Nat
  BY DEF LimiterInv
<1>1. ASSUME Tick PROVE LimiterInv'
  <2>1. clock' = clock + 1 /\ UNCHANGED <<shard, calls, ledger, promise>>
    BY <1>1 DEF Tick
  <2>2. \A k \in DOMAIN shard : k \in Keys /\ BucketInv(shard[k], ledger[k], promise[k], clock + 1)
    BY <1>0, LaterBucketInv DEF LimiterInv
  <2>3. (\A k \in DOMAIN shard : k \in Keys /\ BucketInv(shard[k], ledger[k], promise[k], clock))'
    BY <2>1, <2>2
  <2>4. (\A w \in Workers : \A c \in calls[w] : c.key \in Keys /\ c.now \in 0 .. clock)'
    BY <1>0, <2>1 DEF LimiterInv
  <2> QED
    BY <1>0, <2>1, <2>3, <2>4 DEF LimiterInv, ShardBounded
<1>2. ASSUME NEW w \in Workers, ReadClock(w) PROVE LimiterInv'
  <2>1. PICK k \in Keys : calls' = [calls EXCEPT ![w] = {[key |-> k, now |-> clock]}]
    BY <1>2 DEF ReadClock
  <2>2. UNCHANGED <<clock, shard, ledger, promise>>
    BY <1>2 DEF ReadClock
  <2>3. DOMAIN calls' = Workers
        /\ \A u \in Workers : \A c \in calls'[u] : c.key \in Keys /\ c.now \in 0 .. clock
    BY <1>0, <2>1 DEF LimiterInv
  <2> QED
    BY <2>2, <2>3 DEF LimiterInv, ShardBounded
<1>3. ASSUME NEW w \in Workers, Check(w) PROVE LimiterInv'
  <2>1. PICK c \in calls[w] : \E kept \in Retained(shard, c.key) :
           Allow(w, c.key, c.now, kept) \/ Deny(w, c.key, c.now, kept)
    BY <1>3 DEF Check
  <2>2. PICK kept \in Retained(shard, c.key) :
           Allow(w, c.key, c.now, kept) \/ Deny(w, c.key, c.now, kept)
    BY <2>1
  <2>3. c.key \in Keys /\ c.now \in 0 .. clock /\ clock' = clock
    BY <1>3 DEF LimiterInv, Check
  <2> DEFINE b == BucketOf(c.key, c.now)
             l == LedgerOf(c.key, c.now)
  <2>4. BucketInv(b, l, {}, clock)
    BY <2>3, BucketOfInv
  <2>5. CASE Allow(w, c.key, c.now, kept)
    <3> DEFINE b2 == [tokens |-> Refilled(b, c.now) - Cost, last_update |-> c.now]
               l2 == [born |-> l.born, spent |-> l.spent + Cost,
                      back |-> l.back + (IF c.now < b.last_update
                                         THEN b.last_update - c.now ELSE 0)]
    <3>1. /\ Refilled(b, c.now) >= Cost
          /\ shard' = Put([k \in kept |-> shard[k]], c.key, b2)
          /\ ledger' = Put([k \in kept |-> ledger[k]], c.key, l2)
          /\ promise' = Put([k \in kept |-> promise[k]], c.key, {})
          /\ calls' = [calls EXCEPT ![w] = {}]
      BY <2>5 DEF Allow
    <3>2. BucketInv(b2, l2, {}, clock)
      <4> HIDE DEF b, l
      <4> QED
        BY <1>0, <2>3, <2>4, <3>1, AllowBucketInv
    <3> HIDE DEF b, l, b2, l2
    <3> QED
      BY <2>3, <3>1, <3>2, DecisionInv
  <2>6. CASE Deny(w, c.key, c.now, kept)
    <3> DEFINE pr == {clock + Reset(Cost - Refilled(b, c.now))}
    <3>1. /\ Refilled(b, c.now) < Cost
          /\ shard' = Put([k \in kept |-> shard[k]], c.key, b)
          /\ ledger' = Put([k \in kept |-> ledger[k]], c.key, l)
          /\ promise' = Put([k \in kept |-> promise[k]], c.key, pr)
          /\ calls' = [calls EXCEPT ![w] = {}]
      BY <2>6 DEF Deny
    <3>2. BucketInv(b, l, pr, clock)
      <4> HIDE DEF b, l
      <4> QED
        BY <1>0, <2>3, <2>4, <3>1, DenyBucketInv
    <3> HIDE DEF b, l, pr
    <3> QED
      BY <2>3, <3>1, <3>2, DecisionInv
  <2> QED
    BY <2>2, <2>5, <2>6
<1>4. CASE UNCHANGED vars
  BY <1>4 DEF vars, LimiterInv, ShardBounded
<1> QED
  BY <1>1, <1>2, <1>3, <1>4 DEF Next

LEMMA InitLimiterInv == Init => LimiterInv
<1> SUFFICES ASSUME Init PROVE LimiterInv
  OBVIOUS
<1>1. DOMAIN shard = {} /\ DOMAIN ledger = {} /\ DOMAIN promise = {} /\ clock = 0
      /\ DOMAIN calls = Workers /\ \A w \in Workers : calls[w] = {}
  BY DEF Init
<1>2. IsFiniteSet({}) /\ Cardinality({}) = 0
  BY FS_EmptySet
<1> QED
  BY <1>1, <1>2, EntriesAssumption DEF LimiterInv, ShardBounded

LEMMA LimiterInvariant == Spec => []LimiterInv
  BY InitLimiterInv, NextLimiterInv, PTL DEF Spec

-----------------------------------------------------------------------------
\* Buckets stay within the limit and never run ahead of the clock.
THEOREM TypeCorrect == Spec => []TypeOK
<1>1. LimiterInv => TypeOK
  BY DEF LimiterInv, BucketInv, TypeOK
<1> QED
  BY <1>1, LimiterInvariant, PTL

\* No sequence of checks, by any number of threads, grants a key more than one bucket plus
\* the refill of its bucket's life plus what old clock readings credited twice.
THEOREM GrantsAlwaysBounded == Spec => []GrantsBounded
<1>1. LimiterInv => GrantsBounded
  BY DEF LimiterInv, BucketInv, GrantsBounded
<1> QED
  BY <1>1, LimiterInvariant, PTL

\* Waiting as long as Retry-After says is always enough.
THEOREM RetryAfterAlwaysHonoured == Spec => []RetryAfterHonoured
<1>1. LimiterInv => RetryAfterHonoured
  BY DEF LimiterInv, BucketInv, RetryAfterHonoured
<1> QED
  BY <1>1, LimiterInvariant, PTL

\* The shard never outgrows its capacity.
THEOREM ShardAlwaysBounded == Spec => []ShardBounded
<1>1. LimiterInv => ShardBounded
  BY DEF LimiterInv
<1> QED
  BY <1>1, LimiterInvariant, PTL
=============================================================================

--------------------------- MODULE AdaptiveLimiter ---------------------------
(***************************************************************************)
(* AdaptiveConcurrencyLimiter of oxyroute/resilience.py, fed by the access *)
(* log hook of App.__rsgi__ (oxyroute/app.py): after every request it      *)
(* compares the latency with the least one seen lately and moves           *)
(* set_max_concurrency.                                                    *)
(*                                                                         *)
(* Numbers are fixed-point: current_limit and Alpha in units of 1/Scale,   *)
(* latencies in one unit of time, Smoothing in per cent; divisions round   *)
(* down.  Of the window of samples only the minimum is read, so it is kept *)
(* as the age of every latency: the samples since it was last seen.        *)
(***************************************************************************)
EXTENDS Integers, FiniteSets

CONSTANTS MinLimit, MaxLimit, InitialLimit,     \* arguments of the constructor
          Alpha, Smoothing, WindowSize,
          Latencies,      \* the latencies the handlers may have
          ShedLatency,    \* that of an answer which is no 2xx, such as a shed request
          MaxShifts,      \* bound: changes of the handlers' latency
          Scale

ASSUME LimiterAssumption ==
    /\ MinLimit \in Int /\ MaxLimit \in Int /\ InitialLimit \in Int
    /\ Alpha \in Int /\ Smoothing \in 0 .. 100 /\ WindowSize \in Int
    /\ Latencies \subseteq Nat \ {0} /\ Latencies # {}
    /\ ShedLatency \in Nat \ {0}
    /\ MaxShifts \in Nat
    /\ Scale \in Nat \ {0}

VARIABLES
    current_limit,      \* in units of 1/Scale
    age,                \* latency -> samples since it was seen, rtt_window_size if it left
    avg_rtt,            \* 0 for None
    max_concurrency,    \* what set_max_concurrency was last given
    load,               \* the latency of the handlers
    shifts              \* how often it has changed

limiter_vars == <<current_limit, age, avg_rtt, max_concurrency, load, shifts>>

Least(a, b) == IF a <= b THEN a ELSE b
Greatest(a, b) == IF a >= b THEN a ELSE b

min_limit == Greatest(1, MinLimit)
max_limit == Greatest(min_limit, MaxLimit)
rtt_window_size == Greatest(10, WindowSize)

Samples == Latencies \cup {ShedLatency}

\* int(): the limit that is applied.
Truncated(limit) == limit \div Scale

\* math.sqrt, of a number in units of 1/Scale.
Sqrt(x) == Cardinality({n \in 1 .. x * Scale : n * n <= x * Scale})

Clamp(limit) == Greatest(min_limit * Scale, Least(max_limit * Scale, limit))

\* (1 - smoothing) * old + smoothing * new
Smooth(old, new) == ((100 - Smoothing) * old + Smoothing * new) \div 100

LimiterInit ==
    /\ current_limit = Least(Greatest(InitialLimit, min_limit), max_limit) * Scale
    /\ age = [l \in Samples |-> rtt_window_size]
    /\ avg_rtt = 0
    /\ max_concurrency = Truncated(current_limit)
    /\ load \in Latencies
    /\ shifts = 0

-----------------------------------------------------------------------------
\* Mutant: samples never leave the window.
AppendForEver(latency) == [age EXCEPT ![latency] = 0]

\* _rtt_samples.append, of a deque with maxlen.
Append1(latency) ==
    [l \in Samples |-> IF l = latency THEN 0 ELSE Least(age[l] + 1, rtt_window_size)]

\* min(_rtt_samples)
MinRtt(ages) ==
    CHOOSE l \in Samples : /\ ages[l] < rtt_window_size
                           /\ \A k \in Samples : ages[k] < rtt_window_size => l <= k

\* Mutant: the result is not clamped.
AdjustUnclamped(limit, min_rtt, avg) ==
    LET headroom == Greatest(Alpha, Sqrt(limit))
    IN  Smooth(limit, (limit * Least(min_rtt, avg)) \div avg + headroom)

\* The gradient step.
Adjust(limit, min_rtt, avg) ==
    LET headroom == Greatest(Alpha, Sqrt(limit))
    IN  Clamp(Smooth(limit, (limit * Least(min_rtt, avg)) \div avg + headroom))

\* Only 2xx answers are sampled.
IsSampled(status) == status = 200

\* on_request_completed
OnRequestCompleted(latency, status) ==
    IF IsSampled(status)
      THEN /\ age' = Append1(latency)
           /\ avg_rtt' = IF avg_rtt = 0 THEN latency ELSE Smooth(avg_rtt, latency)
           /\ current_limit' = Adjust(current_limit, MinRtt(age'), avg_rtt')
           /\ max_concurrency' = Truncated(current_limit')
      ELSE UNCHANGED <<age, avg_rtt, current_limit, max_concurrency>>

\* A handler answers, or a request is shed or fails.
Answer == OnRequestCompleted(load, 200) /\ UNCHANGED <<load, shifts>>
Reject == OnRequestCompleted(ShedLatency, 503) /\ UNCHANGED <<load, shifts>>

\* The handlers become slower or faster.
Shift ==
    /\ shifts < MaxShifts
    /\ \E l \in Latencies \ {load} : load' = l
    /\ shifts' = shifts + 1
    /\ UNCHANGED <<current_limit, age, avg_rtt, max_concurrency>>

LimiterNext == Answer \/ Reject \/ Shift

\* Requests keep being answered.
LimiterFairness == WF_limiter_vars(Answer)

LimiterSpec == LimiterInit /\ [][LimiterNext]_limiter_vars /\ LimiterFairness

-----------------------------------------------------------------------------
(* Properties.                                                             *)

\* The limit that is applied stays within the configured range whatever latencies are
\* seen.  In particular it is never 0, which set_max_concurrency takes for no limit.
LimitInRange == max_concurrency \in min_limit .. max_limit

\* When the handlers' latency stops changing the limit climbs to the maximum, however slow
\* they are and however fast requests are refused meanwhile: neither an old minimum nor the
\* refusals hold it down.
Recovers == <>[](max_concurrency = max_limit)

=============================================================================

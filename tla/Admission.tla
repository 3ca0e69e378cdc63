----------------------------- MODULE Admission ------------------------------
(***************************************************************************)
(* Admission of requests by App::handle_rsgi (src/lib.rs): the lock-free   *)
(* counter in_flight, the limit max_concurrency, and the InFlightGuard     *)
(* whose drop gives the slot back.                                         *)
(*                                                                         *)
(* handle_rsgi is entered with the interpreter lock (GIL), runs the        *)
(* synchronous short circuit with it, and returns; Python code run there   *)
(* may release the GIL for a while.  A request left to run_rsgi ends on a  *)
(* tokio worker, where the guard is dropped without the GIL.  Every atomic *)
(* operation is a step.  A member of Requests is a slot that carries one   *)
(* request after another.                                                  *)
(***************************************************************************)
EXTENDS Integers, FiniteSets

CONSTANTS Requests,   \* requests that may be in the application at once
          Limits,     \* values given to set_max_concurrency, 0 for no limit
          Wrap,       \* 2^w for the width w of AtomicUsize
          Nobody      \* the GIL is free

ASSUME RequestsAssumption == IsFiniteSet(Requests) /\ Nobody \notin Requests
ASSUME LimitsAssumption == Limits \subseteq Nat
ASSUME WrapAssumption == Wrap \in Nat /\ Cardinality(Requests) < Wrap

VARIABLES max_concurrency, in_flight,
          gil,      \* the request whose call of handle_rsgi holds the GIL
          pc,       \* request -> the next step of handle_rsgi
          max_c,    \* request -> the limit handle_rsgi read
          current   \* request -> what its fetch_add returned

vars == <<max_concurrency, in_flight, gil, pc, max_c, current>>

Init ==
    /\ max_concurrency \in Limits
    /\ in_flight = 0
    /\ gil = Nobody
    /\ pc = [r \in Requests |-> "idle"]
    /\ max_c = [r \in Requests |-> 0]
    /\ current = [r \in Requests |-> 0]

\* AtomicUsize: fetch_add and fetch_sub wrap around.
Add(n) == (in_flight + n) % Wrap

\* set_max_concurrency, called from Python.
SetMaxConcurrency(n) ==
    /\ gil = Nobody
    /\ max_concurrency' = n
    /\ UNCHANGED <<in_flight, gil, pc, max_c, current>>

\* handle_rsgi is called and loads the limit.
Load(r) ==
    /\ pc[r] = "idle" /\ gil = Nobody
    /\ gil' = r
    /\ max_c' = [max_c EXCEPT ![r] = max_concurrency]
    /\ pc' = [pc EXCEPT ![r] = "count"]
    /\ UNCHANGED <<max_concurrency, in_flight, current>>

\* Mutant: without a limit the request is not counted, but its guard is created.
CountLimitedOnly(r) ==
    /\ pc[r] = "count"
    /\ in_flight' = IF max_c[r] > 0 THEN Add(1) ELSE in_flight
    /\ current' = [current EXCEPT ![r] = in_flight]
    /\ pc' = [pc EXCEPT ![r] = IF max_c[r] > 0 THEN "compare" ELSE "guarded"]
    /\ UNCHANGED <<max_concurrency, gil, max_c>>

\* fetch_add, with and without a limit.
Count(r) ==
    /\ pc[r] = "count"
    /\ in_flight' = Add(1)
    /\ current' = [current EXCEPT ![r] = in_flight]
    /\ pc' = [pc EXCEPT ![r] = IF max_c[r] > 0 THEN "compare" ELSE "guarded"]
    /\ UNCHANGED <<max_concurrency, gil, max_c>>

\* current >= max_c: the guard is created only for a request under the limit.
Compare(r) ==
    /\ pc[r] = "compare"
    /\ pc' = [pc EXCEPT ![r] = IF current[r] >= max_c[r] THEN "uncount" ELSE "guarded"]
    /\ UNCHANGED <<max_concurrency, in_flight, gil, max_c, current>>

\* Mutant: the answer is sent, and the GIL may change hands, before the count is undone.
UncountAfterSend(r) ==
    /\ pc[r] = "uncount"
    /\ \/ gil = r /\ gil' = Nobody /\ UNCHANGED <<in_flight, pc>>
       \/ /\ gil = Nobody
          /\ in_flight' = Add(-1)
          /\ pc' = [pc EXCEPT ![r] = "idle"]
          /\ UNCHANGED gil
    /\ UNCHANGED <<max_concurrency, max_c, current>>

\* A shed request takes its count back before it answers.
Uncount(r) ==
    /\ pc[r] = "uncount"
    /\ in_flight' = Add(-1)
    /\ pc' = [pc EXCEPT ![r] = "shed"]
    /\ UNCHANGED <<max_concurrency, gil, max_c, current>>

\* The 503 is sent, or sending it raises; either way handle_rsgi returns.
SendShed(r) ==
    /\ pc[r] = "shed"
    /\ gil' = Nobody
    /\ pc' = [pc EXCEPT ![r] = "idle"]
    /\ UNCHANGED <<max_concurrency, in_flight, max_c, current>>

\* Python code called by the short circuit releases the GIL and takes it again.
ReleaseGil(r) ==
    /\ pc[r] = "guarded" /\ gil = r
    /\ gil' = Nobody
    /\ UNCHANGED <<max_concurrency, in_flight, pc, max_c, current>>

RetakeGil(r) ==
    /\ pc[r] = "guarded" /\ gil = Nobody
    /\ gil' = r
    /\ UNCHANGED <<max_concurrency, in_flight, pc, max_c, current>>

\* Mutant: the guard of a request answered synchronously is forgotten.
EndSyncForgotten(r) ==
    /\ pc[r] = "guarded" /\ gil = r
    /\ gil' = Nobody
    /\ pc' = [pc EXCEPT ![r] = "idle"]
    /\ UNCHANGED <<max_concurrency, in_flight, max_c, current>>

\* The short circuit answered or raised, or the future could not be made: the guard is
\* dropped as handle_rsgi returns.
EndSync(r) ==
    /\ pc[r] = "guarded" /\ gil = r
    /\ in_flight' = Add(-1)
    /\ gil' = Nobody
    /\ pc' = [pc EXCEPT ![r] = "idle"]
    /\ UNCHANGED <<max_concurrency, max_c, current>>

\* future_into_py: the guard moves into the future, and handle_rsgi returns.
Defer(r) ==
    /\ pc[r] = "guarded" /\ gil = r
    /\ gil' = Nobody
    /\ pc' = [pc EXCEPT ![r] = "async"]
    /\ UNCHANGED <<max_concurrency, in_flight, max_c, current>>

\* run_rsgi ends, or its future is dropped: the guard is dropped without the GIL.
EndAsync(r) ==
    /\ pc[r] = "async"
    /\ in_flight' = Add(-1)
    /\ pc' = [pc EXCEPT ![r] = "idle"]
    /\ UNCHANGED <<max_concurrency, gil, max_c, current>>

Next ==
    \/ \E n \in Limits : SetMaxConcurrency(n)
    \/ \E r \in Requests :
          \/ Load(r) \/ Count(r) \/ Compare(r) \/ Uncount(r) \/ SendShed(r)
          \/ ReleaseGil(r) \/ RetakeGil(r) \/ EndSync(r) \/ Defer(r) \/ EndAsync(r)

Spec == Init /\ [][Next]_vars

\* A thread in handle_rsgi is scheduled, the Python code it waits for gives the GIL
\* back and lets it return, and a spawned future is run to its end.  Nothing is assumed
\* of new requests or of the operator.
Fairness ==
    \A r \in Requests :
        /\ WF_vars(Count(r) \/ Compare(r) \/ Uncount(r) \/ SendShed(r))
        /\ SF_vars(RetakeGil(r))
        /\ SF_vars(EndSync(r) \/ Defer(r))
        /\ WF_vars(EndAsync(r))

FairSpec == Spec /\ Fairness

-----------------------------------------------------------------------------
(* Properties.                                                             *)

\* Requests that hold an InFlightGuard.
Guards == {r \in Requests : pc[r] \in {"guarded", "async"}}

\* Requests counted before it is known whether they are admitted.
Undecided == {r \in Requests : pc[r] \in {"compare", "uncount"}}

\* The types of the variables.
TypeOK ==
    /\ max_concurrency \in Limits
    /\ in_flight \in 0 .. (Wrap - 1)
    /\ gil \in Requests \cup {Nobody}
    /\ pc \in [Requests -> {"idle", "count", "compare", "uncount", "shed", "guarded", "async"}]
    /\ max_c \in [Requests -> Limits \cup {0}]
    /\ current \in [Requests -> 0 .. (Wrap - 1)]

\* The counter is exact: it counts the live guards and the request about to be decided,
\* so no slot leaks and no drop wraps it below zero (which would shed every request).
InFlightExact == in_flight = Cardinality(Guards) + Cardinality(Undecided)

\* Admission is atomic although counting, comparing and undoing are not, and although
\* guards are dropped meanwhile: the detailed steps implement ConcurrencyLimit, decided
\* by the fetch_add.
Decision(r) ==
    CASE pc[r] \in {"guarded", "async"} -> "admitted"
      [] pc[r] = "compare" -> IF current[r] >= max_c[r] THEN "shed" ELSE "admitted"
      [] pc[r] \in {"uncount", "shed"} -> "shed"
      [] OTHER -> "none"

Abstract == INSTANCE ConcurrencyLimit
    WITH limit <- max_concurrency, verdict <- [r \in Requests |-> Decision(r)]

ImplementsLimit == Abstract!Spec

\* When requests stop coming the counter returns to zero: get_in_flight of an idle
\* application is 0, and a lowered limit is eventually obeyed.
DrainsToZero ==
    <>[](\A r \in Requests : pc[r] # "count") => <>[](in_flight = 0)

=============================================================================

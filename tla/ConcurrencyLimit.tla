-------------------------- MODULE ConcurrencyLimit --------------------------
(***************************************************************************)
(* What App::set_max_concurrency promises (docs/resilience.md): a request  *)
(* is admitted or shed in one step, by comparing the requests now being    *)
(* served with the limit now in force.  A limit of 0 means no limit, and a *)
(* lowered limit takes nothing back from requests already admitted.        *)
(***************************************************************************)
EXTENDS Naturals, FiniteSets

CONSTANTS Requests, Limits

VARIABLES limit,     \* the limit in force
          verdict    \* request -> "none", "admitted" or "shed"

vars == <<limit, verdict>>

Admitted == {r \in Requests : verdict[r] = "admitted"}

Full == limit > 0 /\ Cardinality(Admitted) >= limit

Init ==
    /\ limit \in Limits
    /\ verdict = [r \in Requests |-> "none"]

SetLimit(n) == limit' = n /\ UNCHANGED verdict

Admit(r) ==
    /\ verdict[r] = "none" /\ ~Full
    /\ verdict' = [verdict EXCEPT ![r] = "admitted"]
    /\ UNCHANGED limit

Shed(r) ==
    /\ verdict[r] = "none" /\ Full
    /\ verdict' = [verdict EXCEPT ![r] = "shed"]
    /\ UNCHANGED limit

\* The request is over; its slot serves another.
Leave(r) ==
    /\ verdict[r] # "none"
    /\ verdict' = [verdict EXCEPT ![r] = "none"]
    /\ UNCHANGED limit

Next ==
    \/ \E n \in Limits : SetLimit(n)
    \/ \E r \in Requests : Admit(r) \/ Shed(r) \/ Leave(r)

Spec == Init /\ [][Next]_vars
=============================================================================

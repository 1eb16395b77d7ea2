------------------------------ MODULE RequestPool ------------------------------
(***************************************************************************)
(* What BoundedRequestScheduler promises to the threads that submit judge  *)
(* requests, without threads, locks, condition variables or a heap:        *)
(* a bounded pool that accepts each request once or refuses it, runs it    *)
(* once, never starts a request while a more urgent one is waiting, and    *)
(* may be closed only when every accepted request has been resolved.       *)
(***************************************************************************)
EXTENDS Naturals, FiniteSets

CONSTANTS Requests, PriorityOf, MaxQueueSize

VARIABLES
    phase,   \* where each request is in its life
    open,    \* requests are still accepted
    closed   \* shutdown has returned

poolVars == <<phase, open, closed>>

Phases == {"offered", "accepted", "running", "resolved", "refused"}
In(p) == {r \in Requests : phase[r] = p}
Become(r, p) == phase' = [phase EXCEPT ![r] = p]

PoolInit ==
    /\ phase = [r \in Requests |-> "offered"]
    /\ open = TRUE
    /\ closed = FALSE

Accept(r) ==
    /\ open
    /\ phase[r] = "offered"
    /\ Cardinality(In("accepted")) < MaxQueueSize
    /\ Become(r, "accepted")
    /\ UNCHANGED <<open, closed>>

Refuse(r) ==
    /\ ~open
    /\ phase[r] = "offered"
    /\ Become(r, "refused")
    /\ UNCHANGED <<open, closed>>

Start(r) ==
    /\ phase[r] = "accepted"
    /\ \A q \in In("accepted") : PriorityOf[r] <= PriorityOf[q]
    /\ Become(r, "running")
    /\ UNCHANGED <<open, closed>>

Resolve(r) ==
    /\ phase[r] = "running"
    /\ Become(r, "resolved")
    /\ UNCHANGED <<open, closed>>

Close ==
    /\ open' = FALSE
    /\ UNCHANGED <<phase, closed>>

Finish ==
    /\ ~open
    /\ In("accepted") = {} /\ In("running") = {}
    /\ closed' = TRUE
    /\ UNCHANGED <<phase, open>>

PoolNext ==
    \/ \E r \in Requests : Accept(r) \/ Refuse(r) \/ Start(r) \/ Resolve(r)
    \/ Close
    \/ Finish

PoolSpec == PoolInit /\ [][PoolNext]_poolVars
=============================================================================

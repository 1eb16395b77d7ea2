---------------------- MODULE MCBoundedRequestScheduler ----------------------
(* BoundedRequestScheduler with more submitters than queue places. *)
EXTENDS BoundedRequestScheduler

CONSTANTS teacher1, teacher2, verifier1, verifier2, w1, w2
MCRequests == {teacher1, teacher2, verifier1, verifier2}
MCWorkers == {w1, w2}
MCStagePriority == [r \in MCRequests |-> IF r \in {teacher1, teacher2} THEN 0 ELSE 2]
=============================================================================

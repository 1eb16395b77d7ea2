-------------------------- MODULE AtomicCheckpoint --------------------------
(***************************************************************************)
(* What checkpoints promise a training job, without files, ranks or steps: *)
(* the job's progress is lost when it stops, and what it finds when it     *)
(* starts again is exactly what it last made durable, all of it at once.   *)
(***************************************************************************)
CONSTANTS Fresh,   \* the progress of a job that has never run
          Down     \* no job is running

VARIABLES live,     \* the progress of the running job, or Down
          durable   \* what a restart would begin with

checkpointVars == <<live, durable>>

CheckpointInit ==
    /\ live = Down
    /\ durable = Fresh

Resume ==
    /\ live = Down
    /\ live' = durable
    /\ UNCHANGED durable

\* The job trains; only a commit makes what it did durable.
Advance ==
    /\ live # Down /\ live' # Down
    /\ UNCHANGED durable

Commit ==
    /\ live # Down
    /\ durable' = live
    /\ UNCHANGED live

Stop ==
    /\ live' = Down
    /\ UNCHANGED durable

CheckpointNext == Resume \/ Advance \/ Commit \/ Stop

CheckpointSpec == CheckpointInit /\ [][CheckpointNext]_checkpointVars
=============================================================================

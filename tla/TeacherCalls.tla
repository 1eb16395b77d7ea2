----------------------------- MODULE TeacherCalls -----------------------------
(***************************************************************************)
(* What the sidecar promises the trainer, without engines, RPCs, queues or *)
(* answers that are late: every training step makes one call, which gives  *)
(* it the hidden states of its own batch or ends the job; and between two  *)
(* calls the GPU memory is free, until putting the engines to sleep has    *)
(* failed once, after which nothing is promised about the memory.          *)
(***************************************************************************)
EXTENDS Naturals

CONSTANT MaxSteps

VARIABLES
    job,        \* "training", "calling", "returning", "failing" or "ended"
    step,       \* the training step
    batches,    \* per step, the batches whose hidden states it was given
    free,       \* no engine holds GPU memory
    degraded    \* a sleep has failed

callVars == <<job, step, batches, free, degraded>>

CallsInit ==
    /\ job = "training"
    /\ step = 0
    /\ batches = [s \in 1..MaxSteps |-> {}]
    /\ free = TRUE
    /\ degraded = FALSE

Call ==
    /\ job = "training" /\ step < MaxSteps
    /\ job' = "calling"
    /\ step' = step + 1
    /\ UNCHANGED <<batches, free, degraded>>

Deliver ==
    /\ job = "calling"
    /\ job' = "returning"
    /\ batches' = [batches EXCEPT ![step] = {step}]
    /\ UNCHANGED <<step, free, degraded>>

Fail ==
    /\ job = "calling"
    /\ job' = "failing"
    /\ UNCHANGED <<step, batches, free, degraded>>

\* The error reaches the trainer: at once, or when the engines have been put
\* to sleep, whatever came of that.
End ==
    /\ job \in {"calling", "failing"}
    /\ job' = "ended"
    /\ degraded' \in {degraded, TRUE}
    /\ UNCHANGED <<step, batches, free>>

Return ==
    /\ job = "returning"
    /\ job' = "training"
    /\ degraded' \in {degraded, TRUE}
    /\ free \/ degraded'
    /\ UNCHANGED <<step, batches, free>>

\* Engines wake up, fall asleep or die.
MemoryChanges ==
    /\ job # "training" \/ degraded
    /\ free' \in BOOLEAN
    /\ UNCHANGED <<job, step, batches, degraded>>

CallsNext == Call \/ Deliver \/ Fail \/ End \/ Return \/ MemoryChanges

CallsSpec == CallsInit /\ [][CallsNext]_callVars
=============================================================================

--------------------------- MODULE TeacherSidecar ---------------------------
(***************************************************************************)
(* The sidecar that gives a training step its teacher hidden states        *)
(* (easyopd/methods/simple/teacher_sidecar.py, teacher_group.py): wake all *)
(* engines, run one batch over them, and put them to sleep again, because  *)
(* the student's rollout uses the same GPU memory.  Each of the three is a *)
(* ray.get over one RPC per actor, which raises as soon as one of them has *)
(* failed and leaves the others running.                                   *)
(*                                                                         *)
(* Nobody catches an exception of compute_hidden_states_batch: the trainer *)
(* ends.  An exception of the sleep that follows is logged and forgotten.  *)
(***************************************************************************)
EXTENDS TeacherEngineService

VARIABLES
    phase,      \* "rollout", "waking", "computing", "sleeping" or "dead"
    step,       \* the training step
    doomed,     \* an exception is waiting for the finally clause
    sleepOK     \* history: no sleep of the sidecar has failed

sidecarVars == <<phase, step, doomed, sleepOK>>
vars == <<engineVars, sidecarVars>>

Phases == {"rollout", "waking", "computing", "sleeping", "dead"}

TypeOK ==
    /\ EngineTypeOK
    /\ phase \in Phases
    /\ step \in 0..MaxSteps
    /\ doomed \in BOOLEAN
    /\ sleepOK \in BOOLEAN

Init ==
    /\ EngineInit
    /\ phase = "rollout"
    /\ step = 0
    /\ doomed = FALSE
    /\ sleepOK = TRUE

-----------------------------------------------------------------------------
\* [actor.<kind>.remote(...) for actor in teacher_engines]: an actor without
\* samples of the batch has an empty compute_hidden_states to run.
Submit(kind, s, busy) ==
    rpc' = [a \in Actors |-> [rpc[a] EXCEPT ![<<kind, s>>] =
                                  IF a \in busy THEN "queued" ELSE "empty"]]

All(kind) == \A a \in Actors : rpc[a][<<kind, step>>] = "ok"
Some(kind) == \E a \in Actors : rpc[a][<<kind, step>>] = "failed"

\* compute_hidden_states_batch is entered after the step's rollout.
Wake ==
    /\ phase = "rollout" /\ step < MaxSteps
    /\ phase' = "waking"
    /\ step' = step + 1
    /\ Submit("wakeup", step', Actors)
    /\ UNCHANGED <<requests, responses, stream, memory, alive, received, faults,
                   doomed, sleepOK>>

\* The wakeup is outside the try statement: nothing is put to sleep again.
WakeFails ==
    /\ phase = "waking" /\ Some("wakeup")
    /\ phase' = "dead"
    /\ UNCHANGED <<engineVars, step, doomed, sleepOK>>

\* TeacherActorGroup deals the samples out; some actors may get none.
Compute ==
    /\ phase = "waking" /\ All("wakeup")
    /\ phase' = "computing"
    /\ \E busy \in (SUBSET Actors) \ {{}} : Submit("generate", step, busy)
    /\ UNCHANGED <<requests, responses, stream, memory, alive, received, faults,
                   step, doomed, sleepOK>>

\* The group's own time limit has passed when ray.wait returns, which counts
\* even if the last actor has just answered.
GroupTimesOut == "generate" \in FaultyKinds

\* The finally clause: Computed with all results, or ComputeFails on the first
\* error, or when the group has waited too long.
GoToSleep ==
    /\ phase' = "sleeping"
    /\ Submit("sleep", step, Actors)
    /\ UNCHANGED <<requests, responses, stream, memory, alive, received, step, sleepOK>>

\* Mutant: the first engine's answer is enough.
ComputedEarly ==
    /\ phase = "computing" /\ (\E a \in Actors : rpc[a][<<"generate", step>>] = "ok")
    /\ GoToSleep
    /\ UNCHANGED <<doomed, faults>>

Computed ==
    /\ phase = "computing" /\ All("generate")
    /\ GoToSleep
    /\ UNCHANGED <<doomed, faults>>

\* Mutant: a failed batch is logged and the trainer goes on.
ComputeFailsQuietly ==
    /\ phase = "computing"
    /\ Some("generate") \/ GroupTimesOut
    /\ GoToSleep
    /\ UNCHANGED doomed
    /\ faults' = faults \cup (IF Some("generate") THEN {} ELSE {"generate"})

ComputeFails ==
    /\ phase = "computing"
    /\ Some("generate") \/ GroupTimesOut
    /\ GoToSleep
    /\ doomed' = TRUE
    /\ faults' = faults \cup (IF Some("generate") THEN {} ELSE {"generate"})

Returns == phase' = IF doomed THEN "dead" ELSE "rollout"

\* Mutant: the first actor's answer is enough.
SleptEarly ==
    /\ phase = "sleeping" /\ (\E a \in Actors : rpc[a][<<"sleep", step>>] = "ok")
    /\ Returns
    /\ UNCHANGED <<engineVars, step, doomed, sleepOK>>

Slept ==
    /\ phase = "sleeping" /\ All("sleep")
    /\ Returns
    /\ UNCHANGED <<engineVars, step, doomed, sleepOK>>

\* A failed sleep is logged; the sleeps of other actors may still be running.
SleepFails ==
    /\ phase = "sleeping" /\ Some("sleep")
    /\ Returns
    /\ sleepOK' = FALSE
    /\ UNCHANGED <<engineVars, step, doomed>>

SidecarStep == Wake \/ WakeFails \/ Compute \/ Computed \/ ComputeFails \/ Slept \/ SleepFails

Next ==
    \/ SidecarStep
    \/ \E a \in Actors :
          /\ EngineStep(a) \/ Die(a) \/ \E r \in RPCs : RPCStep(a, r)
          /\ UNCHANGED sidecarVars

Spec == Init /\ [][Next]_vars

\* The trainer's thread, the actors' threads and the engines run, and waits
\* end: they have timeouts.  Nothing makes an engine die.
FairSpec ==
    /\ Spec
    /\ WF_vars(SidecarStep)
    /\ \A a \in Actors :
          /\ WF_vars(EngineStep(a) /\ UNCHANGED sidecarVars)
          /\ \A r \in RPCs : WF_vars(RPCStep(a, r) /\ UNCHANGED sidecarVars)

-----------------------------------------------------------------------------
\* The refinement mapping to TeacherCalls.  A step has its batch from the
\* moment all engines have answered for it; what a late engine still reads for
\* a batch that failed is nobody's.
Job ==
    CASE phase = "rollout" -> "training"
      [] phase \in {"waking", "computing"} -> "calling"
      [] phase = "sleeping" -> IF doomed THEN "failing" ELSE "returning"
      [] OTHER -> "ended"
Delivered(s) ==
    s < step \/ (s = step /\ phase \in {"sleeping", "rollout"} /\ ~doomed)
Returned ==
    [s \in Steps |-> IF Delivered(s) THEN {received[a][s] : a \in Actors} \ {0} ELSE {}]
MemoryFree == \A a \in Actors : memory[a] = "asleep"

Calls == INSTANCE TeacherCalls WITH
    job <- Job, batches <- Returned, free <- MemoryFree, degraded <- ~sleepOK

\* Whatever is late, crossed, raises or dies among the engines, the trainer
\* sees calls that return their own batch or end the job, and free memory
\* between them.
ImplementsTeacherCalls == Calls!CallsSpec

\* Hidden states are used with the step they were computed for: whatever
\* answers are late, crossed or left over, a batch that is returned holds the
\* hidden states of that batch.
NoStaleBatch ==
    \A a \in Actors, s \in Steps :
        rpc[a][<<"generate", s>>] = "ok" => received[a][s] \in {0, s}

\* While the rollout runs the engines hold no GPU memory, provided every sleep
\* so far has been reported as done.
AsleepDuringRollout ==
    phase = "rollout" /\ sleepOK => \A a \in Actors : memory[a] = "asleep"

\* Every call of compute_hidden_states_batch ends, with a result or an error.
CallsEnd == phase \in {"waking", "computing", "sleeping"} ~> phase \in {"rollout", "dead"}

\* What the comment in the finally clause says of a failed sleep: "a stuck-awake
\* teacher is a degraded condition, not a fatal one".  If sleeping is all that
\* ever went wrong, no step fails.
SleepFailureIsNotFatal == faults \subseteq {"sleep"} => phase # "dead" /\ ~doomed

\* What the docstring of compute_hidden_states_batch says: any failure path
\* leaves the teacher in the sleep state.  Once the call has failed and its own
\* sleep was not what failed, every engine is in the end asleep.
FailureLeavesAsleep ==
    (phase = "dead" /\ sleepOK) ~> (\A a \in Actors : memory[a] = "asleep")
=============================================================================

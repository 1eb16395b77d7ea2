# A verification of EasyOPD

EasyOPD distils a teacher model into a student on the student's own rollouts. It
adds a layer of methods (`easyopd/`) to a vendored training framework (`verl/`).
Most of a method is tensor arithmetic. Two methods are not only that: **ROPD**
obtains its rewards from remote judge models, through a stack of threads, queues,
breakers, caches and retry loops, and **SIMPLE** shares the GPUs between the
student's rollout and teacher engines that run in other processes. The modules here
model these two, and the part of the trainer that every method relies on and that
has to survive crashes: **the training loop with its checkpoints**.

The modules are written from the source files. `PROJECT.json` maps each definition
to the lines it stands for, and lists the components, the hazards, the runs, the
mutants and the theorems.

Contents: [1 Inventory](#1-inventory) · [2 Modules](#2-modules) ·
[3 Runs](#3-runs) · [4 Bounds](#4-bounds) · [5 Fairness](#5-fairness) ·
[6 Theorems](#6-theorems) · [7 Findings](#7-findings) ·
[8 What is not modelled](#8-what-is-not-modelled) · [9 Plan](#9-plan)

Paths below are relative to `easyopd/` unless they start with `verl/`.

## 1. Inventory

### How a ROPD step gets its rewards

```
trainer thread
  └ ROPDRewardManager.__call__             methods/ropd/reward_manager.py
      ├ thread per group ─┐                (max_group_concurrency)
      │  ROPDPipeline.evaluate_selected_pairs   methods/ropd/pipeline.py
      │    ├ teacher response, one per group
      │    └ thread per pair               (max_pair_concurrency)
      │        ├ rubric   (cached per pair and answers)
      │        └ verifier scores, teacher's and student's answer
      │             │
      │             ▼  create_text(stage, role, payload)      judge/provider.py
      │        single flight: equal calls share one request
      │             ▼
      │        BoundedRequestScheduler.submit, if enabled     judge/scheduler.py
      │             ▼  worker thread, or the caller's own
      │        quality retries ─ API retries ─ circuit breaker,
      │        rate limiters, semaphore ─► the judge service
      ▼
  quality gate: retry failed pairs, build the update mask, stop or go on
```

| component | state | operations | shared with |
|---|---|---|---|
| circuit breaker (`judge/circuit_breaker.py`) | state, run of errors, rolling window, opening time, half-open counters, under one lock | `allow_request`, four `record_*` | all threads that call one stage |
| request path (`judge/provider.py`) | locals of two nested loops, stage counters, in-flight table, semaphore | `create_text`, `_create_text_direct`, `_execute_with_retry`, the single-flight helpers | threads of all stages; futures carry outcomes between threads |
| scheduler (`judge/scheduler.py`) | heap, sequence counter, shutdown flag, one condition variable, futures | `schedule`/`submit`, `_worker_loop`, `shutdown` | submitting threads and workers |
| rate limiter (`judge/rate_limit.py`) | tokens, time of the last update, under a lock | `acquire` | all requests of a transport |
| pipeline (`methods/ropd/pipeline.py`) | rubric cache under a lock | `evaluate_selected_pairs`, `_evaluate_pair` | group and pair threads |
| reward manager (`methods/ropd/reward_manager.py`) | pair records, teacher responses, retry ledgers | `__call__`, `_run_reward_quality_gate`, `_retry_selected_pairs_once`, `_build_update_mask` | reads what the pipeline returns |
| artifact exporter (`methods/ropd/artifacts.py`) | files of a run, a flag | `record_pair`, cleanup of old runs | pair threads; other runs through the file system |
| offline teacher index (`methods/ropd/teacher_index.py`) | a table | `load`, `lookup_many` | read only |

What makes it correct, component by component:

- *breaker*: the half-open period lets out no more probes than configured and never
  waits for a probe nobody is sending, though reports arrive late and out of order;
  a healthy service is eventually used again.
- *request path*: a call ends; it sends at most the product of its budgets; the
  counters that training logs balance; one request per fingerprint is under way, and
  those who wait for it learn how it ended.
- *scheduler*: bounded, nothing lost, nothing run twice, no missed wake-up, in order
  within a priority, drained at shutdown.
- *pipeline and gate*: the rewards of a group are relative to one teacher response,
  a success is never spoilt by a later retry, retries stay in their budgets, mask and
  verdict are about the same groups.

Hard here: a report that belongs to an earlier state of the breaker; one condition
variable with two kinds of waiters; the gap between removing a flight and resolving
it; a teacher call that fails for a whole group while other groups go on; two nested
retry loops with different notions of "retryable".

### How a SIMPLE step gets teacher hidden states

```
trainer: rollout ─► TeacherSidecar.compute_hidden_states_batch  methods/simple/teacher_sidecar.py
            wakeup all ─► batch over actors ─► finally: sleep all
                 │  ray.get over one RPC per actor             teacher_group.py
                 ▼
            TeacherRayActor, two RPC threads                    teacher_actor.py
                 │  request queue / response queue / ZMQ stream  sglang_engine.py
                 ▼
            engine process: one request after another
```

| component | state | operations | shared with |
|---|---|---|---|
| sidecar | the step it is in | `compute_hidden_states_batch` | trainer, GPU memory of the rollout |
| actor group | futures of one batch | `wakeup`, `compute_hidden_states_batch`, `sleep` | actors, over Ray |
| engine | two queues, a stream, the GPU memory it holds, the process | `generate`, `wakeup`, `sleep`, `_get_response`, `_engine_worker` | the actor's two threads and the engine process |

What makes it correct: hidden states belong to the step that asked for them; the
engines hold no memory while the student's rollout runs; a call ends whatever the
engines do. Hard here: answers carry no identity, so a late answer is taken for the
next one; a group operation fails at the first actor while the others go on; the
process may die between a request and its answer.

### How a training job saves and resumes

```
trainer process (driver)        fit                      verl/trainer/ppo/ray_trainer.py
  start ─ _load_checkpoint ◄── tracker file ─► folder global_step_N
  for epoch, for batch:
      update critic, update actor
      save due?  ─ _save_checkpoint
         actor, then critic:  every rank     verl/utils/checkpoint/fsdp_checkpoint_manager.py
             rank 0 deletes the oldest ─ barrier ─ own shard ─ barrier
         data.pt               where the dataloader is
         tracker file          opened for writing, then written
```

| component | state | operations | shared with |
|---|---|---|---|
| trainer (`verl/trainer/ppo/ray_trainer.py`) | step, place in the data, weights held by its workers | `fit`, `_save_checkpoint`, `_load_checkpoint` | later runs of the job, through the file system |
| checkpoint manager (`verl/utils/checkpoint/`) | the paths it has saved, per process | `save_checkpoint`, `ensure_checkpoint_capacity`, `register_checkpoint`, `find_latest_ckpt_path` | the other ranks, through barriers and files |

What makes it correct: what a restart finds is one checkpoint that was completed, whole;
no batch is trained on twice or skipped by the weights, all ranks and both roles agree;
the job ends, with its last step saved. Hard here: a checkpoint is many files written by
many processes, the job may be killed between any two of them or inside one, and a
restarted job writes into the folders that the killed one left behind and does not know
which of them to rotate.

### The rest

The method registry, hook dispatcher, data provider, configuration, diagnostics, the
losses of the other methods and the framework are listed in `PROJECT.json` with the
reason why each is or is not modelled; see also section 8.

## 2. Modules

| module | models | extends |
|---|---|---|
| `ProviderCircuitBreaker` | the breaker: its variables, five operations, the clock | |
| `JudgeRequestLoop` | concurrent calls of `_create_text_direct` for one stage | `ProviderCircuitBreaker` |
| `JudgeRequestMetrics` | the same with the stage's counters | `JudgeRequestLoop` |
| `JudgeRequestLoopProofs` | theorems about the breaker, the loop and the counters | `JudgeRequestMetrics`, `InductionFacts` |
| `RequestPool` | abstract specification: what the scheduler promises | |
| `BoundedRequestScheduler` | submitters, workers, shutdown; refines `RequestPool` | |
| `BoundedRequestSchedulerProofs` | its theorems | `BoundedRequestScheduler` |
| `SharedRequests` | abstract specification: what `create_text` promises equal calls | |
| `SingleFlightProvider` | `create_text` on top of the scheduler; refines `SharedRequests` | `BoundedRequestScheduler` |
| `SingleFlightProviderProofs` | its theorems | `SingleFlightProvider`, `BoundedRequestSchedulerProofs` |
| `RopdPipeline` | group and pair threads, teacher response, rubric cache | |
| `RewardQualityGate` | one call of the reward manager | `RopdPipeline` |
| `RewardQualityGateProofs` | its theorems | `RewardQualityGate`, `InductionFacts` |
| `TeacherEngineService` | actors' RPCs, queues, stream, engine processes | |
| `TeacherCalls` | abstract specification: what the sidecar promises the trainer | |
| `TeacherSidecar` | the sidecar and the group operations over the actors; refines `TeacherCalls` | `TeacherEngineService` |
| `SyncTokenBucket` | the rate limiter's locked sections, over every short schedule | |
| `SyncTokenBucketProofs` | its theorems | `SyncTokenBucket`, `InductionFacts` |
| `TeacherBatching` | how a batch is dealt to the actors and put together again | |
| `TeacherSidecarProofs` | theorems about the sidecar and about batches | `TeacherSidecar`, `TeacherBatching`, `InductionFacts` |
| `AtomicCheckpoint` | abstract specification: what checkpoints promise a job | |
| `TrainerCheckpoint` | training loop, save, resume, crashes; refines `AtomicCheckpoint` | |
| `TrainerCheckpointProofs` | its theorems | `TrainerCheckpoint` |
| `InductionFacts` | least numbers, smallest sets, sums, recursions: lemmas for the other proofs | |
| `MC...` | constants of the runs | the module of the same name; `MCJudgeRequestMetrics` also `SyncTokenBucket`, `MCTeacherSidecar` also `TeacherBatching` |

### ProviderCircuitBreaker and JudgeRequestLoop

Each method of the breaker is one action, for it runs under the breaker's lock.
`AllowRequest` and `RejectRequest` are the two answers of `allow_request`. Time is the
cooldown that is left, counted down by `Tick`: the code only ever compares the time
since opening with `cooldown_seconds`. The rolling window is the sequence of the last
outcomes, as in the code, and its rate is compared as integers.

A caller in `JudgeRequestLoop` moves through `before` (ask the breaker), `admitted`
(rate limiters, then the semaphore), `sending`, and `failed` or `response`, where the
outcome is reported. The steps between are where other threads run. `attempt` is the
index of the inner loop and `qualityCount` holds the five `*_retry_count` locals of the
outer loop, one for each member of `QualityKinds`; `RetriesLeft` and
`QualityRetriesLeft` are the tests that end the loops. `ApiError` covers timeouts,
connection errors and transient statuses (`retriable`) and everything else that
`_execute_with_retry` catches (`not_retriable`). `Uncaught` is an exception that it does
not catch. The service is a flag, `providerUp`: while it is up every response is good,
otherwise anything may come back. `probes` and `lostProbes` are history variables: who
was admitted in the current half-open period and has not reported, and how many left
without a report.

`JudgeRequestMetrics` conjoins each step with its `_record_metric` calls. The counters
never guard a step, and their properties only speak of certain sums and differences of
them. `Balances` is the state with the counters replaced by these, and the run explores
states up to that view, so that the calls of a thread need no bound.

### SyncTokenBucket

`acquire` is a sequence of sections that each run under the bucket's lock, with sleeps
between them. Who runs the next section does not matter to the bucket, so that all
interleavings of any number of threads are the sequences of sections, each with the
time since the one before and the tokens it wants. `History` is what such a schedule
leaves after each section. `SchedulesKeepRate` says four things:

- From a section until the caller of a later one goes on, no more passes than a full bucket
  and what flowed in, if no request among them is oversize (wants more than the bucket holds).
- If one is, it is that and what was forgiven: the debt of an oversize request is cut off at
  one bucket, and `forgiven` is by how much.
- A sleep is long enough, if nobody else comes in between.
- No sleep is longer than it takes to fill a bucket and what the caller wants
  (`SleepBounded`), however many callers wait.

The second and the fourth are two sides of one fact about the code: any number of
oversize requests that come together all go out within that time, which is more than the
configured rate allows. If `max_rpm` is below 60 the bucket holds less than one request and
every request is oversize. The instances include requests beyond twice the bucket.

### BoundedRequestScheduler and RequestPool, SingleFlightProvider and SharedRequests

What a thread does between acquiring the condition's lock and releasing it, or waiting,
is one action. `waiters` are the threads inside `wait()`; a thread in it takes no step
until `NotifyAll` has removed it, and then repeats its `while` test. The heap is a set
with the order of `ScheduledRequest`, `Before`. A request stands for the thread that
submits it, which blocks in `future.result()`.

`RequestPool` has no threads: requests are accepted, started, resolved, or refused. The
refinement mapping `Pool` reads a request's phase off the place where it is: on the
heap, with a worker, or its future.

In `SingleFlightProvider` a request is a call of `create_text`. `Lead` and `Follow` are
the two outcomes of `_acquire_inflight_request`, which holds the table's lock
throughout. A leader submits through the scheduler's own actions (or, with the
scheduler disabled, runs its request in its thread), then `Pop` and `Resolve` are the
two halves of `_complete_inflight_request`, with other threads in between.

`SharedRequests` has no table, futures or scheduler: a call sends a request or joins the one
of an equal call, which is answered once, and returns with that answer. Nobody joins a
request that has been answered, so that no answer is older than the call that gets it. The
mapping `Flights` reads the request a call shares (`RequestOf`) off the future it holds, and
takes a shared request for answered (`AnswerTo`) from the moment its entry leaves the table,
which is when callers can tell; the answer may have arrived a little before. `Lead` and `Alone`
are `Send`, `Follow` is `Join`, `Pop` is `Answer`, and everything in the scheduler is a stutter,
except for the end of a request that nobody shares.

### RopdPipeline and RewardQualityGate

`RopdPipeline` has one action for every outcome of a judge call: the teacher answers, or
fails and takes every selected pair of the group with it; a rubric is generated and
stored, or fails; the two verifier calls succeed, or one of them fails and the rubric
stays. Teacher responses are numbered by how often the group was given one, which is
what lets `OneTeacherPerGroup` tell two apart. The rubric cache's key is the pair and
the response; the student's answer never changes within a call. A failure is one of
three classes, which is all that the two predicates of the reward manager see of it.

`RewardQualityGate` alternates between `evaluating`, in which only the pipeline's
threads move, and `deciding`, in which the gate does, since the reward manager's single
thread continues only when all results are there. `LocalRound`, `StepRound` and `Finish`
are the ways one iteration of the gate's loops can go on, with the guards in the order
of the code: the local loop first, then the verdict, the budget of attempts and the
remaining candidates. The check for candidates that the code repeats at the top of the
next attempt can not fail there, because nothing changes in between; it is part of
`StepRound`'s guard.

### TeacherEngineService, TeacherSidecar and TeacherCalls

An RPC is named by its kind and the step that sent it. `Receive` takes whatever answer
is at the head of the response queue, as `_get_response` does. `HandlerRaises` includes
the case in which `_handle_generate` fails after it has announced its results: two
answers, no data. `GiveUp` is a wait that runs out, possible whenever the kind may be
late or the process is dead; the answer may still come. In `TeacherSidecar` each group
operation submits one RPC per actor, and ends as soon as one has failed (`Some`) or all
are done (`All`), which leaves the others running into the next phase. An exception of
the batch ends the trainer once the sleep of the `finally` clause is over; one of the
sleep is forgotten.

`TeacherCalls` has no engines and no RPCs: a call delivers the hidden states of its own
step, or fails and ends the job; the memory changes as it likes during a call, and not at
all between two calls unless a sleep has failed. The refinement mapping `Calls` counts a
batch as returned (`Returned`) from the moment all engines have answered for it, so that
what a late engine still reads for a batch that failed does not matter, and nothing that
has been returned may change. `Computed` is `Deliver`, `ComputeFails` is `Fail`, the end of
the sleep is `Return` or `End`, and whatever the engines do is a change of the memory or a
stutter.

### TeacherBatching

The greedy assignment, the pairing of each actor's results with its indices (`Paired`) and
the final sort (`InOrder`) of `compute_hidden_states_batch`, for every small batch and
number of actors. An
engine may leave samples out; `zip` then pairs what is left with the wrong indices, and
only the comparison of lengths at the end stands between that and the loss. The
property `EveryBatchRestored` says that it is enough, and that the load is shared out
with a difference of at most the longest sample. `TeacherSidecar` has the faults of the same
call, and `Compute` keeps any set of actors busy that a batch may.

### TrainerCheckpoint and AtomicCheckpoint

`phase` is where the driver is: in the loop (`fetch`, `train`, `trained`), in a save
(`rotate`, `dump` for one role after the other, `data`, `track`), or not running. The
disk is a shard for every step, role and rank, `data.pt` for every step, and the tracker;
each file is missing, torn or whole, because writing one takes two actions and the
job may be killed in between. Files of an earlier run stay, and are overwritten when
their step is saved again. `Crash` is a kill at any point or the resubmission of a
finished job; it loses memory, `savedPaths` included, and a start begins with whatever
the tracker names. Weights are the sequence of updates that went into them, each with
its batch and the run that made it, which tells a folder mixed from two runs apart from a
consistent one. `StatefulDataLoader` is external: its state is the number of batches it has
delivered, and a pass resumed in the middle delivers the rest of that pass.

`AtomicCheckpoint` knows no files: a job's progress is lost when it stops, and the next
one begins with what was last made durable, all of it at once. `Durable` is
what a restart would read; while the tracker is torn no job starts, and what was
committed last stands in for it. Writing the tracker maps to `Commit`, everything
else in a save to a stutter.

Three branches of the code are absent because they do nothing here: the deletion of the
local copy after loading (which only concerns checkpoints copied from elsewhere), the
`continue` for an empty batch (the loader never yields one), and the modes `disable` and
`resume_path`, which skip the tracker. Uploads to HDFS are not modelled.

## 3. Runs

| run | instance | what it asks | states |
|---|---|---|---|
| `request_loop_recovery` | 2 callers, 2 probes, uncaught exceptions, fair | `CallsReturn`; `RecoveryCloses`: if the service stays up and the load pauses now and then, the breaker closes for good, unless a probe was lost | 177 k |
| `request_metrics` | 3 callers that never stop, API retries inside quality retries, uncaught exceptions | `BreakerConsistent`, `NoPhantomProbe`: stale reports and lost callers never make the breaker count a probe that is not out; `CallBudget`, `OneOutcomePerRequest`, `RetriesAccountForRequests` in every state, not only at the end; `RateRespected`: `SchedulesKeepRate` | 1.68 M |
| `scheduler` | 4 submitters in 2 priorities, 2 workers, heap of 2, shutdown at any time | five invariants, `SubmissionsEnd`, `ShutdownReturns`, and the refinement `ImplementsPool` | 175 k |
| `single_flight` | 3 equal calls and a lone one, 1 worker, heap of 1, with and without the scheduler | `OneFlight`, `CallsEnd`, and the refinement `ImplementsSharedRequests` | 281 k |
| `quality_gate` | 2 groups of 2 pairs, 1 round, 2 attempts, every failure class | the properties of the gate, `SuccessIsFinal` among them | 867 k |
| `teacher_sidecar` | 2 engines, 2 steps, every RPC may raise or be late | `NoStaleBatch`, `AsleepDuringRollout`, and the refinement `ImplementsTeacherCalls`; `BatchDealtAndRestored`: `EveryBatchRestored` | 600 k |
| `teacher_sidecar_liveness` | 2 engines that may also die, 1 step, fair | `CallsEnd` | 99 k |
| `trainer_checkpoint` | 2 ranks, actor and critic, 5 steps in passes of 2 batches, 3 runs, 2 checkpoints kept of the actor and 3 of the critic | `EachBatchOnce`, `EndsOnASavedStep`, `JobEnds`, and the refinement `ImplementsAtomicCheckpoint` | 173 k |
| four runs that end in a violation | | see section 7 | |

Every state machine's type invariant is checked with its properties. The bound of the
scheduler's heap is part of its refinement: `RequestPool` accepts a request only while there
is room. `SchedulesKeepRate` and `EveryBatchRestored` are not about the states of the runs
they are checked in: they range over all short schedules of the limiter and all small
batches, and TLC evaluates them once. `RateRespected` and `BatchDealtAndRestored` list them
as invariants of the runs whose components use the algorithms; their antecedents name the
states in which that is so, and add nothing to the formulas.

`RecoveryCloses` assumes that the load pauses: without that assumption it does not
hold. With two probes and a steady load, a half-open breaker can have one probe in
flight at every moment in which another succeeds, and `record_success` closes it only
when none is. In training the load does pause, since every step waits for all of its
calls, and the property says that this is enough. It also has to exclude probes that
were lost for good: one that ends in an exception nobody catches never gives its slot back,
so that the count of slots in use may never come down to what closing needs. The breaker
is not stuck for good: the report of an older call can free a slot, and so does every call
it rejects. A rejection goes through the same report as a request that failed,
`record_ignored_failure` (`judge/provider.py:873`), which takes a slot off
`_half_open_in_flight` although the call never had one. The next call is then let out as a
probe, one more than configured if the slot was that of a probe still under way. What was
lost in earlier half-open periods does not matter.

`NoStaleBatch` is not obvious: crossed and late answers do occur in the model. It holds
because a `generate` that is given somebody else's answer finds no number of samples in
it and fails, and because a failed batch ends the trainer, so its left-overs are never
read by a later step.

`EachBatchOnce` is about the whole history of a job: after any number of kills, at any
point of any save, each rank's weights have seen batches 1, 2, 3, ... once and in order
(the actor from the end of the critic's warm-up on). It needs all of: the position of the
dataloader saved with the weights, the tracker written last, the folder of an
interrupted save overwritten by the next run rather than mixed with it, and the rotation
never touching the folder the tracker names (for which two checkpoints must be kept, see
`trainer_checkpoint_keep_one`). `EndsOnASavedStep` relates the condition that saves the
last step to the loop's end, also for a finished job that is submitted again and trains
one step more. `JobEnds` excludes one case by name: a job killed between opening the
tracker with `"w"` and writing it leaves an empty file, and every later start raises on
it until somebody repairs it by hand.

Each property is paired with a mutant of the code that breaks it: a `notify` in place of
`notify_all`, a retry loop that forgets to count, a retry that does not pass the
teacher's response on, and so on. The mutated operators stand next to the originals in
the modules, marked "Mutant".

## 4. Bounds

| bound | where | why it is enough |
|---|---|---|
| callers, submitters, workers, actors | `MC...` | two to four; a stale report needs one straggler beside two probes, a missed wake-up needs two waiters of each kind |
| `MaxRetries`, quality budgets | cfg | 1 or 2: the loops only compare with their budgets, and the product of two budgets shows at these sizes |
| rolling window 2, two consecutive errors, cooldown 1 | cfg | both ways of opening the breaker occur, and the cooldown can be running when reports arrive |
| `MaxQueueSize` 2, four submitters | cfg | two submitters wait while the heap is full |
| one probe in `request_metrics`, two in `request_loop_recovery` | cfg | with one, every other admitted caller is a straggler from before the breaker opened |
| calls and counters in `request_metrics` | unbounded | states are identified by the view `Balances` |
| `BucketSize` 2, `MaxWant` 5, `MaxGap` 2, `MaxSections` 4 | cfg of `request_metrics` | a request beyond twice the bucket, an idle time that fills it, and a third party between two sections of one caller |
| `MaxDpSize` 3, `MaxBatch` 5, `MaxTokens` 2 | cfg of `teacher_sidecar` | more samples than actors, empty masks, an answer short in the middle |
| `MaxRuns` 3 | `TrainerCheckpoint` | two kills: one inside a save of a run that itself was resumed |
| 2 ranks, 5 steps, `SaveFreq` 2, `MaxActorCkptToKeep` 2, `MaxCriticCkptToKeep` 3, passes of 2 batches, 2 epochs | cfg of `trainer_checkpoint` | saves by frequency, by expiry and for the last step; a rotation, of the actor's folders before the critic's; checkpoints in the middle and at the end of a pass; the epochs (4 batches) of one run end before the last step, so a job that finishes short and is resumed occurs |
| `MaxSteps` 2 | `TeacherEngineService` | a left-over of one step can only hurt a later one |
| saturating history counters `apiCalls`, `lostProbes` | `JudgeRequestLoop` | one more than the limit the property compares with |
| 2 groups × 2 pairs, thresholds 1/4 and 1/2 | cfg of `quality_gate` | the failure rate lies on both sides of its threshold, and one of two groups is exactly enough; `RateUnit` makes other fractions, such as the default 3/32, expressible |
| `MaxDropped` 0 | the same | the strictest limit on dropped groups; that a larger one is respected is part of theorem `VerdictIsRight` only |
| `MaxRetryRounds` 1, `MaxStepAttempts` 2 | the same | the smallest values for which both loops and the first round of a later attempt occur |

Deadlock is checked in `request_metrics`, `request_loop_recovery` and
`quality_gate` (where a returned call stutters explicitly, so that any other state
without a successor is an error). In the other models the system really comes to rest:
all requests are resolved, the calls or steps are used up, the trainer has ended or
can not start and the runs are used up.

Symmetry is used in `request_metrics` (callers), `teacher_sidecar` (engines) and
`quality_gate` (groups and pair indices), where these are interchangeable. No run with
a liveness property uses it; the temporal properties checked under it, `SuccessIsFinal` and
`ImplementsTeacherCalls`, constrain single steps and are themselves symmetric.

## 5. Fairness

- Every thread that can take a step eventually does: weak fairness of each caller,
  submitter, worker, actor RPC, engine and the trainer thread. Python's and Ray's
  schedulers justify this.
- In `JudgeRequestLoop`, strong fairness for a caller that waits for the semaphore: the
  semaphore is released and taken by others in the meantime, so that its step is
  enabled again and again but not for good. `threading.BoundedSemaphore` keeps its
  waiters in a queue, though a newcomer may overtake one that was just notified; strong
  fairness states that a waiter is not overtaken for ever.
- Every request comes to an end: the clients are given timeouts. Fairness of a caller in
  `sending`, of `Finish` of a worker, and of `GiveUp` state this.
- The driver of a training job goes on while it can, and a job that was killed is started
  again by the cluster or by its operator: weak fairness of `Start`, `Loop` and `Save`
  together. Kills are never forced, and `MaxRuns` bounds them.
- Nothing is assumed to go wrong or to recover: engines need not die, the service need
  not come up, nobody has to call `create_text` or `shutdown`.

## 6. Theorems

All of them hold for every value of the constants that satisfies the named assumptions
(finite sets of callers, groups, pairs or whatever is counted; budgets that are naturals;
bounds that are positive), with no assumption about the number of threads, engines, ranks
or steps. Two have a hypothesis of their own, `KeepsMoreThanOne`: no role keeps exactly one
checkpoint; section 7 says what
happens without it. The bounds that keep the runs small, such as `MaxSteps`, `MaxRuns` or
`MaxSections`, are arbitrary naturals in the theorems.

**`BoundedRequestSchedulerProofs`.** The properties are not inductive: `OneHome`, for
example, needs to know that a submitter whose future is pending has its request
somewhere. The invariant `SchedInv` adds where a request can be given the state of its
submitter (`PlaceOfRequest`), what a worker's job is (`PlaceOfJob`), that the sequence
numbers given out are below the next one (`Numbered`), and that a worker leaves only when
the flag is set and the heap is empty (`Leaving`); the last is why nothing is left
behind after a shutdown. The proof of its preservation has one step per action.
`SchedulerImplementsPool` then maps each action to a step of the pool or a stutter:
`Enqueue` to `Accept`, `Dequeue` to `Start`, `Finish` to `Resolve`, and so on, with the
lemma that the accepted requests of the pool are exactly those on the heap.

**`SingleFlightProviderProofs`.** `FlightInv` says who holds whose future: a leader its own
while its request is under way (`LeadersHoldTheirOwn`), everybody else that of a leader
(`FollowersHoldALeaders`), whose promise is kept when it returns and as it returned
(`PromisesKept`). `OneFlight` then rests on the table: a fingerprint is in it exactly as
long as its leader has not popped it. `ProviderImplementsSharedRequests` needs two more facts:
nothing has been sent for a call that has not looked the table up (`NothingSentYet`), and a
follower's leader has its fingerprint. What a call that finds nothing may send is then what
`OneFlight` says, and what a follower joins is still `submitting`, thus unanswered. `KeptCalls`
says which steps leave a call's place in the abstract state alone, so that each action needs
to be followed for one call only. `SchedInv` is part of the invariant only where the
scheduler is enabled; a call that runs in its own thread passes through the same places,
but its request never has a number on the heap. That every step of the scheduler leaves
the flights alone, and the reverse, are lemmas of their own, so that the proofs of the two
modules compose.

**`JudgeRequestLoopProofs`.** `BreakerConsistent` holds of each of the breaker's methods
in any state that has it (`BreakerMethods`). `NoPhantomProbe` compares a counter with a
cardinality; it needs that a probe is a call between its admission and its report
(`ProbesAreOut`), from which each report takes one probe out when it frees one slot,
or none when the clamp at zero applies. `CallBudget` is a product of two nested budgets:
`PaidFor` says that what a call has sent is at most `MaxRetries + 1` for each quality retry
it has used, plus its present attempt, and the sum over the kinds is bounded by that of the
budgets, since the sum of a function grows with it. The counters' two equations,
`OneOutcomePerRequest` and `RetriesAccountForRequests`, are inductive once it is known by how
much the number of callers in a set of places changes when one of them moves (`AtMoves`).
`MetricsInv` adds `ErrorsAreFailures` to them: errors worth a retry and rejections never
outnumber the failures by more than the rejections that are on their way to their report,
because the step that counts one of either kind as a failure is the only one that takes a
rejection off its way or counts an error worth a retry.

**`SyncTokenBucketProofs`.** `OneSection` is the argument about one locked section, for each
of its three branches: the books balance (tokens after = tokens after the refill − taken
+ forgiven), and the sleep makes up for the debt. `BucketBalance` adds sections up, by the
first one at which it would fail, and `NothingForgiven` says that the books stay strict where
no request is oversize. `TheRateIsKept` follows for any bucket, any wants and
gaps, and any number of sections.

**`RewardQualityGateProofs`.** `GateInv` says, besides types, that a score belongs to
the present response of its group (`ScoresCurrent`), that a generated rubric is in the
cache under the present response (`RubricsCurrent`), that what is selected has not
succeeded (`SelectedFailed`) and that records agree with their results
(`RecordsAgree`). The heart of it is that the gate passes on the teacher response it
has, and the pipeline asks for one only where there is none, which makes the response
of a group final once there is one, although failures of the teacher itself are retried.
`RetriesStayBounded` needs one more invariant, `RetryBudget`, which relates a pair's
retries to the attempt and the round the gate is in. `RetriesAreAccountedFor` needs that the
sum of the pairs' counts grows by the number of pairs that were retried.

**`TeacherSidecarProofs`.** There are two invariants. `BatchInv` holds in every reachable
state, whatever fails: only the present step's `generate` can be anything but untouched
or done (`StepsInOrder`), and it is in one place, as a request in the queue or as hidden
states in the stream (`InOnePlace`), so that what an RPC reads off the stream is of its own
step (`OwnBatch`), even though the answers in the response queue may have crossed.
`NoBatchIsStale` follows. `SleepInv` holds as long as no sleep has failed and no exception is
on its way: then each actor has at most one RPC under way, that of the sidecar's phase, and
its queues are empty before and after it, so the answer it takes is its own, and a sleep that
was answered did release the memory. `MemoryIsFreeDuringRollout` follows; the two
violations of section 7 are what happens off that track. `SidecarImplementsCalls` puts both
together: every behaviour of the sidecar and its engines is one of `TeacherCalls`. It needs
one invariant more, `WorkDone`: while the engines compute, some actor that was sent a part
of the batch still has it before it, has failed, or holds its hidden states. So when all
have answered, there is a batch to return, and `BatchInv` says whose it is. That nobody
writes to a batch once it was returned is the lemma `ReturnedIsKept`.

Two theorems are about `TeacherBatching`, for any batch and number of actors.
`EveryDealIsBalanced`: the greedy deal keeps any two loads within the largest sample of each
other, because a sample goes to the least loaded actor, and a load of zero comes first.
`EveryBatchComesBack`, whichever samples the engines leave out: every index is dealt to one
actor, once (`DealsOnce`), so that the indices of all pairs are different
(`FlattenedPairs`). If there are as many pairs as samples, they are 1, 2, 3, ... when sorted,
for the place of a pair is the number of smaller indices (`SortedPairs`). Then the last index
of every actor has a pair, which it only has if the actor's answer is not short
(`AnswerIsPart`), and an answer that is not short is in order.

**`TrainerCheckpointProofs`.** `CkptInv` has five parts besides types. The weights are
determined by the step they were saved at (`TrainedFor`), and the position of the data
loader by the step of the loop (`Counters`, `Trained`). The tracker, when it is whole, names the
checkpoint that was committed last, and its files are whole (`Intact`). A save has written
what its phase says (`SavedSoFar`), and has not touched what the tracker names: the folder
being written is of a later step, even when an earlier run has left files there, and
the folders being deleted are of earlier ones, because each rank's list is in the order of
the steps, its last entry is the checkpoint the tracker names, and the last entry
is never deleted unless one checkpoint is all that is kept. `NoBatchIsLostOrRepeated`
and `FitEndsOnASavedStep` hold for any number to keep, for even a job that cannot be
resumed has not trained on a batch twice. `CheckpointsAreAtomic` maps each step to
`AtomicCheckpoint`: `Durable` is the committed checkpoint throughout, the step that
writes the tracker is `Commit`, and a start finds it. It needs `KeepsMoreThanOne`, as does
`ACompletedCheckpointRemains`, the promise that `trainer_checkpoint_keep_one` refutes for one.

**`InductionFacts`.** The library's induction theorems take an operator as a parameter,
which the provers cannot instantiate. The inductions that are needed are done by hand: a set
of naturals has a least element, a set of subsets of a finite set a smallest one, and a smallest
counterexample has none. With that, the fold behind `SumFunction` has a value on
every finite set and satisfies its recursion (`AddsExists`, `SumPick`), any element can be
taken first (`SumRemove`), and sums grow as the function does (`SumCounts`, `SumMonotone`).
In the same way there is a history of every schedule (`HistoryExists`) and a deal of every
batch (`DealExists`). `UpTo` is induction up to a number, and `StepsExist` says that what is
defined step by step, from the result of the step before, exists; `Iterates` is the name
under which the provers can use it.

| theorem | property |
|---|---|
| `SchedulerInvariant`, `FlightInvariant`, `LoopInvariant`, `MetricsInvariant`, `GateInvariant`, `BatchInvariant`, `SleepInvariant`, `CheckpointInvariant` | the strengthened invariants |
| `SchedulerTypes` | `SchedTypeOK` |
| `QueueStaysBounded` | `QueueBounded`, checked as part of `ImplementsPool` |
| `EveryRequestHasOneHome` | `OneHome` |
| `NobodyMissesAWakeup` | `NoMissedWakeup` |
| `ShutdownDrains` | `DrainedWhenClosed` |
| `NobodyIsOvertaken` | `FifoPerPriority` |
| `SchedulerImplementsPool` | `ImplementsPool` |
| `FlightTypes` | `FlightTypeOK` |
| `OneRequestPerFingerprint` | `OneFlight` |
| `FollowersShareTheirLeadersFate` | `SharedFate`, checked as part of `ImplementsSharedRequests` |
| `ProviderImplementsSharedRequests` | `ImplementsSharedRequests` |
| `LoopTypes`, `MetricsTypes` | the loop's `TypeOK`, and `MetricsTypeOK`, which contains it |
| `BreakerKeepsItsBooks` | `BreakerConsistent` |
| `EverySlotIsAProbe` | `NoPhantomProbe` |
| `CallsKeepTheirBudget` | `CallBudget` |
| `EveryRequestIsCountedOnce` | `OneOutcomePerRequest` |
| `RetriesAreCounted` | `RetriesAccountForRequests` |
| `TheRateIsKept` | `SchedulesKeepRate`, checked by `RateRespected` |
| `GateTypes` | `TypeOK` |
| `OneTeacher` | `OneTeacherPerGroup` |
| `OneRubric` | `RubricOnce` |
| `SuccessStays` | `SuccessIsFinal` |
| `VerdictIsRight` | `MaskMatchesVerdict` |
| `NothingGivenUpEarly` | `GivesUpLate` |
| `RetriesStayBounded` | `RetriesBounded` |
| `RetriesAreAccountedFor` | `RetryLedger` |
| `SidecarTypes` | `TypeOK` |
| `NoBatchIsStale` | `NoStaleBatch` |
| `MemoryIsFreeDuringRollout` | `AsleepDuringRollout` |
| `SidecarImplementsCalls` | `ImplementsTeacherCalls` |
| `EveryDealIsBalanced`, `EveryBatchComesBack` | `Balanced` and `Restored`, for every batch |
| `BatchesAreDealtAndRestored` | `EveryBatchRestored`, checked by `BatchDealtAndRestored` |
| `CheckpointTypes` | `TypeOK` |
| `NoBatchIsLostOrRepeated` | `EachBatchOnce` |
| `FitEndsOnASavedStep` | `EndsOnASavedStep` |
| `CheckpointsAreAtomic` | `ImplementsAtomicCheckpoint`, if no role keeps exactly one |
| `ACompletedCheckpointRemains` | `CompletedCheckpointRemains`, if no role keeps exactly one |

Every safety property of the passing runs is proved. Only model-checked are the liveness
properties (`CallsReturn`, `RecoveryCloses`, `SubmissionsEnd`, `ShutdownReturns`, `CallsEnd`,
`JobEnds`), for the prover has no support for fairness and `ENABLED`.

## 7. Findings

Four runs check what a comment or docstring says and end in a counterexample.

- `request_loop_quality_doc`. `_record_response_quality_failure` (`judge/provider.py:491`)
  is documented to leave the circuit breaker alone. It takes a slot off
  `_half_open_in_flight`, also for a call that was admitted before the breaker opened and
  holds none. One probe more than configured goes out. The clamp at zero keeps the
  counter sane, and `NoPhantomProbe` shows that nothing worse follows.
- `teacher_sidecar_sleep_comment`. A failed sleep is called "a degraded condition, not a
  fatal one" (`teacher_sidecar.py:329`). If the sleep was only late, its answer is taken
  for the answer to the next wakeup, the wakeup's for that of `generate`, which fails: the
  trainer ends.
- `teacher_sidecar_wake_docstring`. "Any failure path" is said to leave the teacher
  asleep (`teacher_sidecar.py:284`). The wakeup is outside the `try` statement: if it
  fails on one engine, the others stay awake.
- `trainer_checkpoint_keep_one`. The checkpoint manager promises to keep at most the
  "number of recent checkpoints to retain" (`fsdp_checkpoint_manager.py:191`, `198`), and
  the tracker is there "for atomic usage" (`ray_trainer.py:2086`). With one checkpoint to
  keep, rank 0 deletes the shards of the only complete one before the next is written
  (`fsdp_checkpoint_manager.py:214`). A job killed from then on, until the tracker is
  written, leaves a tracker that names a folder without shards, and no start succeeds.
  With two or more, or without a limit, the promise is proved
  (`ACompletedCheckpointRemains`).

## 8. What is not modelled

- **The disabled quality gate** lets every pair through and retries nothing.
- **Conversions**: prompts, parsing and validation of judge answers, reward arithmetic,
  configuration. Their failures are the external choices of the models.
- **Errors that end a call of the reward manager** in ROPD, such as a miss in the offline
  teacher index or a rubric with an unusable score scale. `compute_reward`
  (`verl/trainer/ppo/reward.py:160`) catches any exception and calls the manager a second
  time, which starts afresh: a second behaviour of `RewardQualityGate`.
- **What the trainer does with the verdict of the gate**: nothing. `compute_reward` returns the
  rewards and the extra information only, and drops the update mask and the stop flag.
- **An initial sleep of the engines that fails** (`teacher_sidecar.py:247`). The first step
  of `TeacherSidecar` starts with the engines asleep; that an engine is left awake is the
  outcome of a late or failed sleep of a step.
- **Engine start-up, weight updates and shutdown**, which the sidecar never calls during
  a step.
- **Losses and the other methods**: tensor code without state or concurrency.
- **The rest of `verl/`**, the vendored framework, a project of its own. Of the trainer the
  loop and its checkpoints are in `TrainerCheckpoint`; that it calls the sidecar after each
  rollout and does not catch its exceptions is in `TeacherSidecar`. What a step computes,
  validation, balancing, the Megatron checkpoint manager, the asynchronous agent loop, the
  inference servers and the workers' kernels are not modelled.
- **Method registry, hook dispatcher**: tables filled by one thread during imports;
  nothing interleaves, and a registration that raises half-way is a single step.
- **Artifact exporter, data provider, offline tools**: files for people or for a later
  training run, written sequentially; no step of training reads them back. What a crash
  leaves behind is among the hazards.
- **The weighting of wants by the caller in the rate limiter** (the estimate of tokens per
  request) and the rounding of its floats.

## 9. Plan

Done, in this order: breaker and request loop, counters, scheduler with its abstract
pool and proofs, single flight, sidecar, pipeline and gate with proofs; rate limiter,
dealing of batches, trainer and checkpoints with their abstract specification.

Then the proofs: all safety properties of the scheduler, single flight, the request loop
and its counters, the rate limiter, the gate, the sidecar, the dealing of batches and the
trainer, and the four refinements.

Left to do: an abstract breaker (closed, open, probing) that the request loop implements.

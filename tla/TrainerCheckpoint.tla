------------------------- MODULE TrainerCheckpoint --------------------------
(***************************************************************************)
(* Training, saving and resuming: fit, _save_checkpoint and                *)
(* _load_checkpoint of the PPO trainer (verl/trainer/ppo/ray_trainer.py)   *)
(* with the FSDP checkpoint manager of its workers                         *)
(* (verl/utils/checkpoint/fsdp_checkpoint_manager.py).                     *)
(*                                                                         *)
(* A checkpoint is a folder of files that are written one by one: every    *)
(* rank's shard of the actor, then of the critic, then the position of the *)
(* dataloader, then the tracker file that names the latest checkpoint.     *)
(* Before the shards of a role rank 0 deletes the oldest checkpoints of    *)
(* that role.  The process may be killed between any two of these writes   *)
(* and in the middle of each; the next run starts from what is on disk.    *)
(*                                                                         *)
(* Weights are the batches they were trained on, each with the run that    *)
(* did it, so that states a crash has mixed together can be told apart.    *)
(* External: torch.save and torch.load, and the StatefulDataLoader, whose  *)
(* state is the number of batches it has delivered.                        *)
(***************************************************************************)
EXTENDS Naturals, Sequences

CONSTANTS
    Ranks,
    UseCritic,
    BatchesPerEpoch,      \* len(train_dataloader)
    TotalEpochs,
    TotalTrainingSteps,
    SaveFreq,             \* 0: no checkpoints
    MaxActorCkptToKeep,   \* 0: None, keep all
    MaxCriticCkptToKeep,
    CriticWarmup,
    EsiMayExpire,         \* should_save_ckpt_esi may ask for a save
    MaxRuns               \* bound: how often the job is started

ASSUME TrainerAssumption ==
    /\ Ranks # {}
    /\ UseCritic \in BOOLEAN /\ EsiMayExpire \in BOOLEAN
    /\ BatchesPerEpoch \in Nat \ {0} /\ TotalEpochs \in Nat \ {0}
    /\ TotalTrainingSteps \in Nat \ {0}
    /\ SaveFreq \in Nat /\ CriticWarmup \in Nat
    /\ MaxActorCkptToKeep \in Nat /\ MaxCriticCkptToKeep \in Nat
    /\ MaxRuns \in Nat \ {0}

\* The order in which _save_checkpoint saves them.
Roles == IF UseCritic THEN <<"actor", "critic">> ELSE <<"actor">>
RoleSet == {Roles[i] : i \in DOMAIN Roles}
MaxCkptToKeep == [actor |-> MaxActorCkptToKeep, critic |-> MaxCriticCkptToKeep]
\* A restart of a job that had finished adds a step.
Steps == 1..(TotalTrainingSteps + MaxRuns)
Updates == [batch : Steps, run : 1..MaxRuns]

VARIABLES
    \* on disk, per global_step_N folder
    shards,        \* per role and rank
    dataPt,        \* data.pt
    tracker,       \* latest_checkpointed_iteration.txt
    \* in memory
    phase,
    globalSteps,
    fetched,       \* batches the dataloader has delivered
    left,          \* batches left in the pass over the data that is under way
    epochsLeft,    \* passes fit has not begun
    weights,       \* per role and rank: the updates that went into it
    saving,        \* the role being saved, an index of Roles
    dump,          \* what each rank is doing for that role
    savedPaths,    \* previous_saved_paths of rank 0, per role: steps
    \* history
    runs,          \* how often the job was started
    committed      \* the checkpoint that was completed last

diskVars == <<shards, dataPt, tracker>>
loopVars == <<globalSteps, fetched, left, epochsLeft, weights>>
saveVars == <<saving, dump, savedPaths>>
historyVars == <<runs, committed>>
vars == <<diskVars, phase, loopVars, saveVars, historyVars>>

\* A file is missing, cut short, or holds what was written to it.
Missing(v) == [is |-> "missing", holds |-> v]
Torn(v) == [is |-> "torn", holds |-> v]
Whole(v) == [is |-> "whole", holds |-> v]
Files(V) == [is : {"missing", "torn", "whole"}, holds : V]

Running == {"fetch", "train", "trained", "rotate", "dump", "data", "dataOpen",
            "track", "trackOpen", "saved"}
Phases == Running \cup {"down", "finished", "stuck"}

Untrained == [r \in RoleSet |-> [k \in Ranks |-> <<>>]]
WeightsType == [RoleSet -> [Ranks -> Seq(Updates)]]

\* No rank keeps more checkpoints in its list than configured.
TypeOK ==
    /\ shards \in [Steps -> [RoleSet -> [Ranks -> Files(Seq(Updates))]]]
    /\ dataPt \in [Steps -> Files(0..(TotalTrainingSteps + MaxRuns))]
    /\ tracker \in Files(0..(TotalTrainingSteps + MaxRuns))
    /\ phase \in Phases
    /\ globalSteps \in 0..(TotalTrainingSteps + MaxRuns)
    /\ fetched \in 0..(TotalTrainingSteps + MaxRuns)
    /\ left \in 0..BatchesPerEpoch
    /\ epochsLeft \in 0..TotalEpochs
    /\ weights \in WeightsType
    /\ saving \in DOMAIN Roles
    /\ dump \in [Ranks -> {"idle", "writing", "done"}]
    /\ savedPaths \in [RoleSet -> Seq(Steps)]
    /\ \A r \in RoleSet : MaxCkptToKeep[r] > 0 => Len(savedPaths[r]) <= MaxCkptToKeep[r]
    /\ runs \in 0..MaxRuns
    /\ committed \in [step : 0..(TotalTrainingSteps + MaxRuns), weights : WeightsType,
                      fetched : 0..(TotalTrainingSteps + MaxRuns)]

\* Memory is gone: the values of a process that has not started.
MemoryLost ==
    /\ globalSteps' = 0 /\ fetched' = 0 /\ left' = 0 /\ epochsLeft' = 0
    /\ weights' = Untrained
    /\ saving' = 1 /\ dump' = [k \in Ranks |-> "idle"]
    /\ savedPaths' = [r \in RoleSet |-> <<>>]

Init ==
    /\ shards = [n \in Steps |-> [r \in RoleSet |-> [k \in Ranks |-> Missing(<<>>)]]]
    /\ dataPt = [n \in Steps |-> Missing(0)]
    /\ tracker = Missing(0)
    /\ phase = "down"
    /\ globalSteps = 0 /\ fetched = 0 /\ left = 0 /\ epochsLeft = 0
    /\ weights = Untrained
    /\ saving = 1 /\ dump = [k \in Ranks |-> "idle"]
    /\ savedPaths = [r \in RoleSet |-> <<>>]
    /\ runs = 0
    /\ committed = [step |-> 0, weights |-> Untrained, fetched |-> 0]

-----------------------------------------------------------------------------
(* Starting: _load_checkpoint with resume_mode "auto", then fit.           *)

ShardsLoad(n) == \A r \in RoleSet, k \in Ranks : shards[n][r][k].is = "whole"
Loads(n) == ShardsLoad(n) /\ dataPt[n].is # "torn"
Loadable == tracker.is = "whole" /\ Loads(tracker.holds)

\* What is left of the pass over the data that was under way after d batches:
\* nothing when the state was saved after the last batch of a pass.
Remaining(d) == IF d = 0 THEN BatchesPerEpoch
                ELSE (BatchesPerEpoch - (d % BatchesPerEpoch)) % BatchesPerEpoch

\* fit starts with the step after the checkpoint, and always with a full
\* number of epochs, the first of which is the pass under way.
BeginTraining(steps, loaded, position) ==
    /\ globalSteps' = steps + 1
    /\ weights' = loaded
    /\ fetched' = position
    /\ left' = Remaining(position)
    /\ epochsLeft' = TotalEpochs - 1
    /\ phase' = "fetch"

StartFromScratch ==
    /\ tracker.is = "missing"
    /\ BeginTraining(0, Untrained, 0)

\* A folder without data.pt only costs a warning: the data starts anew.
StartFromCheckpoint ==
    LET n == tracker.holds IN
    /\ Loadable
    /\ BeginTraining(n, [r \in RoleSet |-> [k \in Ranks |-> shards[n][r][k].holds]],
                     IF dataPt[n].is = "whole" THEN dataPt[n].holds ELSE 0)

\* int() of an empty tracker, or torch.load of a file that is not there, raises;
\* nothing repairs it, and every further start ends the same way.
StartFails ==
    /\ tracker.is # "missing" /\ ~Loadable
    /\ phase' = "stuck"
    /\ UNCHANGED loopVars

Start ==
    /\ phase = "down"
    /\ runs < MaxRuns
    /\ runs' = runs + 1
    /\ StartFromScratch \/ StartFromCheckpoint \/ StartFails
    /\ UNCHANGED <<diskVars, saveVars, committed>>

-----------------------------------------------------------------------------
(* The loop of fit.                                                        *)

NextBatch ==
    /\ phase = "fetch" /\ left > 0
    /\ left' = left - 1
    /\ fetched' = fetched + 1
    /\ phase' = "train"
    /\ UNCHANGED <<diskVars, globalSteps, epochsLeft, weights, saveVars, historyVars>>

NextEpoch ==
    /\ phase = "fetch" /\ left = 0 /\ epochsLeft > 0
    /\ epochsLeft' = epochsLeft - 1
    /\ left' = BatchesPerEpoch
    /\ UNCHANGED <<diskVars, phase, globalSteps, fetched, weights, saveVars, historyVars>>

\* The loops run out before the last step: fit returns without a save.
EpochsUsedUp ==
    /\ phase = "fetch" /\ left = 0 /\ epochsLeft = 0
    /\ phase' = "finished"
    /\ UNCHANGED <<diskVars, loopVars, saveVars, historyVars>>

IsLastStep == globalSteps >= TotalTrainingSteps

\* update_critic, and update_actor unless the critic is warming up.
Updated(r) == r = "critic" \/ CriticWarmup <= globalSteps

Train ==
    /\ phase = "train"
    /\ weights' = [r \in RoleSet |-> [k \in Ranks |->
                      IF Updated(r) THEN Append(weights[r][k], [batch |-> fetched, run |-> runs])
                                    ELSE weights[r][k]]]
    /\ phase' = "trained"
    /\ UNCHANGED <<diskVars, globalSteps, fetched, left, epochsLeft, saveVars, historyVars>>

\* Mutant: the last step is not saved for being the last.
SaveDueByFrequencyOnly(esi) == SaveFreq > 0 /\ (esi \/ globalSteps % SaveFreq = 0)

SaveDue(esi) == SaveFreq > 0 /\ (IsLastStep \/ esi \/ globalSteps % SaveFreq = 0)

BeginSave ==
    /\ phase = "trained"
    /\ \E esi \in {FALSE, EsiMayExpire} : SaveDue(esi)
    /\ phase' = "rotate"
    /\ saving' = 1
    /\ UNCHANGED <<diskVars, loopVars, dump, savedPaths, historyVars>>

StepEnds ==
    /\ \/ phase = "saved"
       \/ phase = "trained" /\ \E esi \in {FALSE, EsiMayExpire} : ~SaveDue(esi)
    /\ globalSteps' = globalSteps + 1
    /\ phase' = IF IsLastStep THEN "finished" ELSE "fetch"
    /\ UNCHANGED <<diskVars, fetched, left, epochsLeft, weights, saveVars, historyVars>>

-----------------------------------------------------------------------------
(* Saving one role: the checkpoint manager on every rank.                  *)

SavedRole == Roles[saving]

\* Mutant: one checkpoint too many survives.
DoomedTooFew(paths, keep) ==
    IF keep > 0 /\ Len(paths) > keep THEN Len(paths) - keep ELSE 0

\* How many of the oldest checkpoints make room for the one to be written.
Doomed(paths, keep) ==
    IF keep > 0 /\ Len(paths) >= keep THEN Len(paths) - keep + 1 ELSE 0

\* Mutant: the list is cut at the wrong end.
OldestPathsFromTheEnd(r) ==
    SubSeq(savedPaths[r], Len(savedPaths[r]) - Doomed(savedPaths[r], MaxCkptToKeep[r]) + 1,
           Len(savedPaths[r]))

OldestPaths(r) == SubSeq(savedPaths[r], 1, Doomed(savedPaths[r], MaxCkptToKeep[r]))
OnDisk(n, r) == {k \in Ranks : shards[n][r][k].is # "missing"}
Emptied(paths, r) == \A i \in DOMAIN paths : OnDisk(paths[i], r) = {}

\* remove_previous_save_local_path on rank 0: file after file.
RemoveShard ==
    /\ phase = "rotate"
    /\ LET r == SavedRole IN
       \E i \in DOMAIN OldestPaths(r) : \E k \in OnDisk(OldestPaths(r)[i], r) :
           shards' = [shards EXCEPT ![OldestPaths(r)[i]][r][k] = Missing(<<>>)]
    /\ UNCHANGED <<dataPt, tracker, phase, loopVars, saveVars, historyVars>>

\* The barrier behind the removal.
Rotated ==
    /\ phase = "rotate"
    /\ Emptied(OldestPaths(SavedRole), SavedRole)
    /\ savedPaths' = [savedPaths EXCEPT ![SavedRole] =
                         SubSeq(@, Doomed(@, MaxCkptToKeep[SavedRole]) + 1, Len(@))]
    /\ dump' = [k \in Ranks |-> "idle"]
    /\ phase' = "dump"
    /\ UNCHANGED <<diskVars, loopVars, saving, historyVars>>

\* torch.save of one rank's files: begun, and complete.
OpenShard(k) ==
    /\ phase = "dump" /\ dump[k] = "idle"
    /\ dump' = [dump EXCEPT ![k] = "writing"]
    /\ shards' = [shards EXCEPT ![globalSteps][SavedRole][k] = Torn(<<>>)]
    /\ UNCHANGED <<dataPt, tracker, phase, loopVars, saving, savedPaths, historyVars>>

WriteShard(k) ==
    /\ phase = "dump" /\ dump[k] = "writing"
    /\ dump' = [dump EXCEPT ![k] = "done"]
    /\ shards' = [shards EXCEPT ![globalSteps][SavedRole][k] = Whole(weights[SavedRole][k])]
    /\ UNCHANGED <<dataPt, tracker, phase, loopVars, saving, savedPaths, historyVars>>

\* Mutant: the driver does not wait for the other ranks.
DumpedBySomeone == \E k \in Ranks : dump[k] = "done"

\* The barrier every rank waits at with its shard written.
Dumped == \A k \in Ranks : dump[k] = "done"

RoleSaved ==
    /\ phase = "dump"
    /\ Dumped
    /\ savedPaths' = [savedPaths EXCEPT ![SavedRole] = Append(@, globalSteps)]
    /\ IF saving < Len(Roles)
       THEN saving' = saving + 1 /\ phase' = "rotate"
       ELSE UNCHANGED saving /\ phase' = "data"
    /\ UNCHANGED <<diskVars, loopVars, dump, historyVars>>

-----------------------------------------------------------------------------
(* Completing the checkpoint on the driver.                                *)

OpenData ==
    /\ phase = "data"
    /\ dataPt' = [dataPt EXCEPT ![globalSteps] = Torn(0)]
    /\ phase' = "dataOpen"
    /\ UNCHANGED <<shards, tracker, loopVars, saveVars, historyVars>>

\* Mutant: the position of the dataloader is that of the step before.
WriteStaleData ==
    /\ phase = "dataOpen"
    /\ dataPt' = [dataPt EXCEPT ![globalSteps] = Whole(fetched - 1)]
    /\ phase' = "track"
    /\ UNCHANGED <<shards, tracker, loopVars, saveVars, historyVars>>

WriteData ==
    /\ phase = "dataOpen"
    /\ dataPt' = [dataPt EXCEPT ![globalSteps] = Whole(fetched)]
    /\ phase' = "track"
    /\ UNCHANGED <<shards, tracker, loopVars, saveVars, historyVars>>

\* open(..., "w") empties the tracker before anything is written to it.
OpenTracker ==
    /\ phase = "track"
    /\ tracker' = Torn(0)
    /\ phase' = "trackOpen"
    /\ UNCHANGED <<shards, dataPt, loopVars, saveVars, historyVars>>

WriteTracker ==
    /\ phase = "trackOpen"
    /\ tracker' = Whole(globalSteps)
    /\ committed' = [step |-> globalSteps, weights |-> weights, fetched |-> fetched]
    /\ phase' = "saved"
    /\ UNCHANGED <<shards, dataPt, loopVars, saveVars, runs>>

-----------------------------------------------------------------------------
\* The job is killed, or it has finished and is submitted again.
Crash ==
    /\ phase \in Running \cup {"finished"}
    /\ runs < MaxRuns
    /\ phase' = "down"
    /\ MemoryLost
    /\ UNCHANGED <<diskVars, historyVars>>

Loop == NextBatch \/ NextEpoch \/ EpochsUsedUp \/ Train \/ BeginSave \/ StepEnds
Save == \/ RemoveShard \/ Rotated \/ RoleSaved
        \/ \E k \in Ranks : OpenShard(k) \/ WriteShard(k)
        \/ OpenData \/ WriteData \/ OpenTracker \/ WriteTracker

Next == Start \/ Loop \/ Save \/ Crash

\* The driver goes on while it can, and a job that was killed is started again.
Spec == Init /\ [][Next]_vars /\ WF_vars(Start \/ Loop \/ Save)

-----------------------------------------------------------------------------
Up == phase \in Running \cup {"finished"}

\* What a job has done: its weights and its place in the data.
Progress(w, d) == [up |-> TRUE, weights |-> w, fetched |-> d]
NoJob == [up |-> FALSE, weights |-> Untrained, fetched |-> 0]

\* The folder the tracker names, as a restart would read it.
TrackedProgress ==
    LET n == tracker.holds IN
    IF tracker.is = "missing" THEN Progress(Untrained, 0)
    ELSE Progress([r \in RoleSet |-> [k \in Ranks |-> shards[n][r][k].holds]],
                  dataPt[n].holds)

\* While the tracker is cut short no job starts: what was completed last stands
\* for it until the tracker is written.
Durable == IF tracker.is = "torn" THEN Progress(committed.weights, committed.fetched)
           ELSE TrackedProgress
Live == IF Up THEN Progress(weights, fetched) ELSE NoJob

Checkpoint == INSTANCE AtomicCheckpoint
    WITH Fresh <- Progress(Untrained, 0), Down <- NoJob,
         live <- Live, durable <- Durable

\* Writing, rotating and overwriting files one by one, with a crash between
\* any two of them, looks to whoever restarts the job as if each checkpoint
\* were taken at one instant, when the tracker is written.
ImplementsAtomicCheckpoint == Checkpoint!CheckpointSpec

\* Steps that have been trained, and those of them in which a role was.
Done == IF phase \in {"fetch", "train", "finished"} THEN globalSteps - 1 ELSE globalSteps
Skipped(r) == IF r = "actor" /\ CriticWarmup > 0 THEN CriticWarmup - 1 ELSE 0
DoneBy(r) == IF Done > Skipped(r) THEN Done - Skipped(r) ELSE 0

\* However often the job was killed, and wherever in a save: the weights of
\* every rank were trained on every batch once and in order, and the step
\* counter, the dataloader and the two roles agree on where that is.
EachBatchOnce ==
    Up =>
      /\ fetched = IF phase = "train" THEN globalSteps ELSE Done
      /\ \A r \in RoleSet, k \in Ranks :
            /\ Len(weights[r][k]) = DoneBy(r)
            /\ \A i \in DOMAIN weights[r][k] : weights[r][k][i].batch = i + Skipped(r)
            /\ \A l \in Ranks : weights[r][l] = weights[r][k]

\* fit returns when the last step is what a restart would find, and a further
\* run adds one step at most, or when it has gone through all its epochs, which
\* can only fall short of the last step if they hold fewer batches than steps.
EndsOnASavedStep ==
    phase = "finished" /\ SaveFreq > 0 =>
      \/ /\ tracker.is = "whole" /\ tracker.holds = globalSteps - 1
         /\ tracker.holds \in TotalTrainingSteps..(TotalTrainingSteps + runs - 1)
      \/ /\ globalSteps <= TotalTrainingSteps
         /\ TotalTrainingSteps > BatchesPerEpoch * TotalEpochs

\* A job that is started again after every crash ends, unless the crash fell
\* into the moment in which the tracker is empty.
JobEnds == <>[](phase = "finished" \/ (phase = "stuck" /\ tracker.is = "torn"))

\* Once a checkpoint has been completed, a restart finds one, except in the
\* instant in which the tracker is replaced.  "latest checkpointed iteration
\* tracker (for atomic usage)" and "Number of recent checkpoints to retain".
CompletedCheckpointRemains ==
    committed.step > 0 /\ tracker.is = "whole" => Loads(tracker.holds)
=============================================================================

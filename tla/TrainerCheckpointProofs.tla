------------------------ MODULE TrainerCheckpointProofs ------------------------
(***************************************************************************)
(* Proofs about TrainerCheckpoint, for any number of ranks, epochs, steps  *)
(* and restarts, with and without a critic, whatever is kept, and wherever *)
(* in a save the job is killed.                                            *)
(***************************************************************************)
EXTENDS TrainerCheckpoint, SequenceTheorems, TLAPS

LastStep == TotalTrainingSteps + MaxRuns

(***************************************************************************)
(* The invariant says what has been written of the save under way, and     *)
(* that the save has not yet touched the checkpoint the tracker names: the *)
(* folder being written is of a later step, and the folders being deleted  *)
(* are of earlier ones, because a rank's list is in the order of the steps *)
(* and its last entry is never deleted, unless one checkpoint is all that  *)
(* is kept.                                                                *)
(***************************************************************************)

\* The weights are those of a job that has trained n steps.
StepsOf(r, n) == IF n > Skipped(r) THEN n - Skipped(r) ELSE 0
TrainedFor(w, n) ==
    \A r \in RoleSet, k \in Ranks :
        /\ Len(w[r][k]) = StepsOf(r, n)
        /\ \A i \in DOMAIN w[r][k] : w[r][k][i].batch = i + Skipped(r)
        /\ \A l \in Ranks : w[r][l] = w[r][k]

\* Where the step counters and the data loader are, and that the batches left
\* are enough for all epochs.  Each run goes one step beyond the last at most.
CountersOfTheJob ==
    /\ runs > 0 /\ globalSteps > 0
    /\ fetched = IF phase = "train" THEN globalSteps ELSE Done
    /\ IF phase = "saved" THEN committed.step = globalSteps ELSE committed.step < globalSteps
    /\ IF phase = "finished" THEN globalSteps <= TotalTrainingSteps + runs
                             ELSE globalSteps < TotalTrainingSteps + runs
    /\ phase = "fetch" /\ globalSteps > TotalTrainingSteps => committed.step = globalSteps - 1
    /\ fetched + left + epochsLeft * BatchesPerEpoch >= BatchesPerEpoch * TotalEpochs

Counters ==
    /\ committed.step < TotalTrainingSteps + runs
    /\ Up => CountersOfTheJob

Trained ==
    /\ Up => TrainedFor(weights, Done)
    /\ committed.fetched = committed.step
    /\ TrainedFor(committed.weights, committed.step)

\* The tracker names the checkpoint that was completed last, and that is whole.
Nothing == [step |-> 0, weights |-> Untrained, fetched |-> 0]
Intact ==
    /\ tracker.is = "missing" => committed = Nothing
    /\ tracker.is = "torn" => phase \in {"trackOpen", "down", "stuck"}
    /\ tracker.is = "whole" =>
          /\ tracker.holds = committed.step /\ committed.step > 0
          /\ dataPt[committed.step] = Whole(committed.fetched)
          /\ \A r \in RoleSet, k \in Ranks :
                \/ shards[committed.step][r][k] = Whole(committed.weights[r][k])
                \/ MaxCkptToKeep[r] = 1 /\ shards[committed.step][r][k] = Missing(<<>>)

\* The save under way is done with the role.
IsSaved(i) ==
    \/ phase \in {"rotate", "dump"} /\ i < saving
    \/ phase \in {"data", "dataOpen", "track", "trackOpen"}

PathsOfRole(i) ==
    LET paths == savedPaths[Roles[i]] IN
    /\ \A j, l \in DOMAIN paths : j < l => paths[j] < paths[l]
    /\ \A j \in DOMAIN paths :
          paths[j] <= committed.step \/ (IsSaved(i) /\ paths[j] = globalSteps)

ShardsOfRole(i) ==
    IsSaved(i) => \A k \in Ranks :
        shards[globalSteps][Roles[i]][k] = Whole(weights[Roles[i]][k])

RoleUnderWay ==
    phase = "dump" =>
       /\ MaxCkptToKeep[SavedRole] > 0 => Len(savedPaths[SavedRole]) < MaxCkptToKeep[SavedRole]
       /\ \A k \in Ranks : dump[k] = "done" =>
             shards[globalSteps][SavedRole][k] = Whole(weights[SavedRole][k])

SavedSoFar ==
    /\ \A i \in DOMAIN Roles : PathsOfRole(i) /\ ShardsOfRole(i)
    /\ RoleUnderWay
    /\ phase \in {"track", "trackOpen"} => dataPt[globalSteps] = Whole(fetched)

CkptInv == TypeOK /\ Counters /\ Trained /\ Intact /\ SavedSoFar /\ EndsOnASavedStep

-----------------------------------------------------------------------------
(* Roles, files and steps.                                                 *)

LEMMA RoleFacts ==
    /\ Len(Roles) \in Nat /\ DOMAIN Roles = 1..Len(Roles) /\ 1 \in DOMAIN Roles
    /\ \A i \in DOMAIN Roles : Roles[i] \in RoleSet /\ i \in Nat
    /\ \A i, j \in DOMAIN Roles : Roles[i] = Roles[j] => i = j
    /\ \A r \in RoleSet : \E i \in DOMAIN Roles : r = Roles[i]
    /\ RoleSet \subseteq {"actor", "critic"}
<1>1. CASE UseCritic
  <2>1. Roles = <<"actor", "critic">>
    BY <1>1 DEF Roles
  <2>2. Len(Roles) = 2 /\ DOMAIN Roles = 1..2 /\ Roles[1] = "actor" /\ Roles[2] = "critic"
    BY <2>1
  <2> QED
    BY <2>2 DEF RoleSet
<1>2. CASE ~UseCritic
  <2>1. Roles = <<"actor">>
    BY <1>2 DEF Roles
  <2>2. Len(Roles) = 1 /\ DOMAIN Roles = 1..1 /\ Roles[1] = "actor"
    BY <2>1
  <2> QED
    BY <2>2 DEF RoleSet
<1> QED
  BY <1>1, <1>2

\* How many checkpoints are kept, by role.
LEMMA KeepType == \A r \in RoleSet : MaxCkptToKeep[r] \in Nat
  BY RoleFacts, TrainerAssumption DEF MaxCkptToKeep

LEMMA FileFacts ==
    ASSUME NEW V, NEW v \in V
    PROVE  /\ Missing(v) \in Files(V) /\ Torn(v) \in Files(V) /\ Whole(v) \in Files(V)
           /\ Missing(v).is = "missing" /\ Torn(v).is = "torn" /\ Whole(v).is = "whole"
           /\ Missing(v).holds = v /\ Torn(v).holds = v /\ Whole(v).holds = v
BY DEF Missing, Torn, Whole, Files

LEMMA StepArithmetic ==
    /\ TotalTrainingSteps \in Nat \ {0} /\ MaxRuns \in Nat \ {0} /\ LastStep \in Nat
    /\ \A n \in Steps : n \in Nat \ {0}
    /\ \A n \in Nat : 0 < n /\ n <= LastStep => n \in Steps
    /\ \A r \in RoleSet : Skipped(r) \in Nat
BY TrainerAssumption DEF Steps, Skipped, LastStep

\* One file of a shard is written or removed.
ChangeShard(n, r, k, v) == shards' = [shards EXCEPT ![n][r][k] = v]

LEMMA ShardChanged ==
    ASSUME TypeOK, NEW n \in Steps, NEW r \in RoleSet, NEW k \in Ranks,
           NEW v \in Files(Seq(Updates)), ChangeShard(n, r, k, v)
    PROVE  /\ shards' \in [Steps -> [RoleSet -> [Ranks -> Files(Seq(Updates))]]]
           /\ \A m \in Steps, s \in RoleSet, l \in Ranks :
                  shards'[m][s][l] = IF m = n /\ s = r /\ l = k THEN v ELSE shards[m][s][l]
<1> DEFINE F == Files(Seq(Updates))
<1> HIDE DEF F
<1>1. shards \in [Steps -> [RoleSet -> [Ranks -> F]]] /\ v \in F
  BY DEF TypeOK, F
<1> USE DEF ChangeShard
<1>2. shards' \in [Steps -> [RoleSet -> [Ranks -> F]]]
  BY <1>1
<1>3. \A m \in Steps, s \in RoleSet, l \in Ranks :
          shards'[m][s][l] = IF m = n /\ s = r /\ l = k THEN v ELSE shards[m][s][l]
  BY <1>1
<1> QED
  BY <1>2, <1>3 DEF F
-----------------------------------------------------------------------------
(* The loop of fit.                                                        *)

\* The phases of a job.
LEMMA PhaseFacts ==
    ASSUME CkptInv
    PROVE  /\ phase \in Running => Up
           /\ phase = "finished" => Up
           /\ Up => CountersOfTheJob /\ TrainedFor(weights, Done)
           /\ Up /\ phase # "trackOpen" => tracker.is # "torn"
BY DEF CkptInv, Counters, Trained, Intact, Up, Running

\* While no save is under way, no list is ahead of the last checkpoint.
LEMMA NoSaveUnderWay ==
    ASSUME CkptInv, phase \in {"fetch", "train", "trained", "saved", "finished", "down", "stuck"},
           UNCHANGED <<diskVars, savedPaths, committed>>,
           phase' \notin {"dump", "data", "dataOpen", "track", "trackOpen"},
           phase' = "rotate" => saving' = 1
    PROVE  SavedSoFar'
<1>1. ~(\E i \in DOMAIN Roles : IsSaved(i) \/ IsSaved(i)')
  BY RoleFacts DEF IsSaved
<1>2. \A i \in DOMAIN Roles : PathsOfRole(i)' /\ ShardsOfRole(i)'
  BY <1>1 DEF CkptInv, SavedSoFar, PathsOfRole, ShardsOfRole
<1> QED
  BY <1>2 DEF SavedSoFar, RoleUnderWay

LEMMA LoopNext ==
    ASSUME CkptInv, Loop
    PROVE  CkptInv'
<1>0. /\ TypeOK /\ Up /\ CountersOfTheJob /\ TrainedFor(weights, Done)
      /\ tracker.is # "torn"
      /\ phase \in {"fetch", "train", "trained", "saved"}
      /\ UNCHANGED <<diskVars, dump, savedPaths, historyVars>>
  <2>1. /\ phase \in {"fetch", "train", "trained", "saved"}
        /\ UNCHANGED <<diskVars, dump, savedPaths, historyVars>>
    BY DEF Loop, NextBatch, NextEpoch, EpochsUsedUp, Train, BeginSave, StepEnds, saveVars
  <2> QED
    BY <2>1, PhaseFacts DEF CkptInv, Running
<1>1. /\ globalSteps \in Nat /\ fetched \in Nat /\ left \in 0..BatchesPerEpoch
      /\ epochsLeft \in 0..TotalEpochs /\ runs \in 0..MaxRuns /\ globalSteps \in 0..LastStep
      /\ fetched \in 0..LastStep
  BY <1>0, StepArithmetic DEF TypeOK, LastStep
<1>2. Intact' /\ committed' = committed /\ runs' = runs
  BY <1>0 DEF CkptInv, Intact, diskVars, historyVars
<1>3. SavedSoFar'
  <2>1. /\ phase' \notin {"dump", "data", "dataOpen", "track", "trackOpen"}
        /\ phase' = "rotate" => saving' = 1
    BY DEF Loop, NextBatch, NextEpoch, EpochsUsedUp, Train, BeginSave, StepEnds
  <2> QED
    BY <1>0, <2>1, NoSaveUnderWay DEF historyVars
<1>4. committed.fetched = committed.step /\ TrainedFor(committed.weights, committed.step)
  BY DEF CkptInv, Trained
<1>5. committed.step \in Nat /\ committed.step < TotalTrainingSteps + runs
  BY <1>0, StepArithmetic DEF CkptInv, TypeOK, Counters, LastStep
<1> DEFINE Types == /\ phase \in Phases /\ globalSteps \in 0..LastStep /\ fetched \in 0..LastStep
                    /\ left \in 0..BatchesPerEpoch /\ epochsLeft \in 0..TotalEpochs
                    /\ weights \in WeightsType /\ saving \in DOMAIN Roles
           Job == CountersOfTheJob /\ TrainedFor(weights, Done)
<1>6. ASSUME Types', Job', EndsOnASavedStep'
      PROVE  CkptInv'
  <2>1. TypeOK'
    <3>1. /\ phase' \in Phases
          /\ globalSteps' \in 0..(TotalTrainingSteps + MaxRuns)
          /\ fetched' \in 0..(TotalTrainingSteps + MaxRuns)
          /\ left' \in 0..BatchesPerEpoch /\ epochsLeft' \in 0..TotalEpochs
          /\ weights' \in WeightsType /\ saving' \in DOMAIN Roles
      BY <1>6 DEF LastStep
    <3>2. UNCHANGED <<shards, dataPt, tracker, dump, savedPaths, runs, committed>>
      BY <1>0 DEF diskVars, historyVars
    <3> QED
      BY <1>0, <3>1, <3>2 DEF TypeOK
  <2>2. Counters' /\ Trained'
    BY <1>2, <1>4, <1>5, <1>6 DEF Counters, Trained
  <2> QED
    BY <1>2, <1>3, <1>6, <2>1, <2>2 DEF CkptInv
<1>7. Types /\ 1 \in DOMAIN Roles
  BY <1>0, RoleFacts DEF TypeOK, LastStep
<1> HIDE DEF Types, Job
<1>8. CASE NextBatch
  <2>1. /\ phase = "fetch" /\ left > 0 /\ left' = left - 1 /\ fetched' = fetched + 1
        /\ phase' = "train" /\ UNCHANGED <<globalSteps, epochsLeft, weights, saving>>
    BY <1>8 DEF NextBatch, saveVars
  <2>2. fetched = globalSteps - 1 /\ Done' = Done
    BY <1>0, <2>1 DEF CountersOfTheJob, Done
  <2>3. Types'
    BY <1>1, <1>7, <2>1, <2>2, TrainerAssumption DEF Types, Phases, Running
  <2>4. Job'
    <3>1. TrainedFor(weights, Done)'
      BY <1>0, <2>1, <2>2 DEF TrainedFor
    <3>2. fetched' + left' + epochsLeft' * BatchesPerEpoch
             = fetched + left + epochsLeft * BatchesPerEpoch
      <4> DEFINE rest == epochsLeft * BatchesPerEpoch
      <4>1. rest \in Nat /\ rest' = rest
        BY <1>1, <2>1, TrainerAssumption
      <4> HIDE DEF rest
      <4>2. fetched' + left' + rest = fetched + left + rest
        BY <1>1, <2>1, <4>1
      <4> QED
        BY <4>1, <4>2 DEF rest
    <3>3. CountersOfTheJob'
      <4>1. fetched' = globalSteps'
        BY <1>1, <2>1, <2>2
      <4> QED
        BY <1>0, <1>2, <2>1, <3>2, <4>1 DEF CountersOfTheJob
    <3> QED
      BY <3>1, <3>3 DEF Job
  <2> QED
    BY <1>6, <2>1, <2>3, <2>4 DEF EndsOnASavedStep
<1>9. CASE NextEpoch
  <2>1. /\ phase = "fetch" /\ left = 0 /\ epochsLeft > 0 /\ epochsLeft' = epochsLeft - 1
        /\ left' = BatchesPerEpoch /\ UNCHANGED <<phase, globalSteps, fetched, weights, saving>>
    BY <1>9 DEF NextEpoch, saveVars
  <2>2. Types'
    BY <1>1, <1>7, <2>1, TrainerAssumption DEF Types
  <2>3. Job'
    <3>1. TrainedFor(weights, Done)'
      BY <1>0, <2>1 DEF TrainedFor, Done
    <3>2. left' + epochsLeft' * BatchesPerEpoch = left + epochsLeft * BatchesPerEpoch
      BY <1>1, <2>1, TrainerAssumption
    <3>3. fetched' + left' + epochsLeft' * BatchesPerEpoch
             = fetched + left + epochsLeft * BatchesPerEpoch
      <4>1. epochsLeft * BatchesPerEpoch \in Nat /\ epochsLeft' * BatchesPerEpoch \in Nat
        BY <1>1, <2>1, TrainerAssumption
      <4>2. left \in Nat /\ left' \in Nat /\ fetched \in Nat /\ fetched' = fetched
        BY <1>1, <2>1, TrainerAssumption
      <4>3. \A a, b, c, d, e \in Nat : b + c = d + e => a + b + c = a + d + e
        OBVIOUS
      <4> QED
        BY <3>2, <4>1, <4>2, <4>3
    <3>4. CountersOfTheJob'
      BY <1>0, <1>2, <2>1, <3>3 DEF CountersOfTheJob, Done
    <3> QED
      BY <3>1, <3>4 DEF Job
  <2> QED
    BY <1>6, <2>1, <2>2, <2>3 DEF EndsOnASavedStep
<1>10. CASE EpochsUsedUp
  <2>1. /\ phase = "fetch" /\ left = 0 /\ epochsLeft = 0 /\ phase' = "finished"
        /\ UNCHANGED <<globalSteps, fetched, left, epochsLeft, weights, saving>>
    BY <1>10 DEF EpochsUsedUp, saveVars, loopVars
  <2>2. Types'
    BY <1>7, <2>1 DEF Types, Phases
  <2>3. Job'
    <3>1. Done = globalSteps - 1 /\ Done' = globalSteps - 1
      BY <2>1 DEF Done
    <3>2. TrainedFor(weights, Done)'
      BY <1>0, <2>1, <3>1 DEF TrainedFor
    <3>3. CountersOfTheJob'
      <4>1. /\ fetched' + left' + epochsLeft' * BatchesPerEpoch >= BatchesPerEpoch * TotalEpochs
            /\ runs' > 0 /\ globalSteps' > 0
        BY <1>0, <1>2, <2>1 DEF CountersOfTheJob
      <4>2. fetched' = globalSteps' - 1
        BY <1>0, <2>1, <3>1 DEF CountersOfTheJob
      <4>3. /\ committed'.step < globalSteps'
            /\ globalSteps' <= TotalTrainingSteps + runs'
        <5>1. committed.step < globalSteps /\ globalSteps < TotalTrainingSteps + runs
          BY <1>0, <2>1 DEF CountersOfTheJob
        <5> QED
          BY <1>1, <1>2, <2>1, <5>1, StepArithmetic
      <4> QED
        BY <2>1, <3>1, <4>1, <4>2, <4>3 DEF CountersOfTheJob
    <3> QED
      BY <3>2, <3>3 DEF Job
  <2>4. EndsOnASavedStep'
    <3>1. CASE globalSteps <= TotalTrainingSteps
      <4>1. fetched >= BatchesPerEpoch * TotalEpochs /\ fetched = globalSteps - 1
        BY <1>0, <1>1, <2>1, TrainerAssumption DEF CountersOfTheJob, Done
      <4> DEFINE all == BatchesPerEpoch * TotalEpochs
      <4>2. all \in Nat
        BY TrainerAssumption
      <4> HIDE DEF all
      <4>3. fetched >= all
        BY <4>1 DEF all
      <4>4. TotalTrainingSteps > all
        BY <1>1, <3>1, <4>1, <4>2, <4>3, StepArithmetic
      <4> QED
        BY <2>1, <3>1, <4>4 DEF EndsOnASavedStep, all
    <3>2. CASE globalSteps > TotalTrainingSteps
      <4>1. committed.step = globalSteps - 1 /\ globalSteps < TotalTrainingSteps + runs
        BY <1>0, <2>1, <3>2 DEF CountersOfTheJob
      <4>2. tracker.is = "whole" /\ tracker.holds = committed.step
        <5>1. committed # Nothing
          BY <1>1, <3>2, <4>1, StepArithmetic DEF Nothing
        <5>2. tracker.is \in {"missing", "torn", "whole"}
          BY <1>0 DEF TypeOK, Files
        <5> QED
          BY <1>0, <5>1, <5>2 DEF CkptInv, Intact
      <4>3. tracker' = tracker /\ tracker.holds = globalSteps - 1
        BY <1>0, <4>1, <4>2 DEF diskVars
      <4>4. globalSteps - 1 \in TotalTrainingSteps..(TotalTrainingSteps + runs - 1)
        BY <1>1, <3>2, <4>1, StepArithmetic
      <4> QED
        BY <1>2, <2>1, <4>2, <4>3, <4>4 DEF EndsOnASavedStep
    <3> QED
      BY <1>1, <3>1, <3>2, StepArithmetic
  <2> QED
    BY <1>6, <2>2, <2>3, <2>4
<1>11. CASE Train
  <2>1. /\ phase = "train" /\ phase' = "trained"
        /\ UNCHANGED <<globalSteps, fetched, left, epochsLeft, saving>>
    BY <1>11 DEF Train, saveVars
  <2>2. fetched = globalSteps /\ Done = globalSteps - 1 /\ Done' = globalSteps
    BY <1>0, <2>1 DEF CountersOfTheJob, Done
  <2>3. [batch |-> fetched, run |-> runs] \in Updates
    BY <1>0, <1>1, <2>2, StepArithmetic DEF Updates, CountersOfTheJob
  <2> DEFINE update == [batch |-> fetched, run |-> runs]
             trained(r, k) == IF Updated(r) THEN Append(weights[r][k], update) ELSE weights[r][k]
  <2>4. weights' = [r \in RoleSet |-> [k \in Ranks |-> trained(r, k)]]
    BY <1>11 DEF Train
  <2>5. update \in Updates /\ update.batch = globalSteps
    BY <2>2, <2>3
  <2>6. \A r \in RoleSet, k \in Ranks : weights[r][k] \in Seq(Updates)
    BY <1>0 DEF TypeOK, WeightsType
  <2> HIDE DEF update
  <2>7. \A r \in RoleSet, k \in Ranks : trained(r, k) \in Seq(Updates)
    BY <2>5, <2>6, AppendProperties
  <2>8. weights' \in WeightsType
    <3> HIDE DEF trained
    <3> QED
      BY <2>4, <2>7 DEF WeightsType
  <2>9. Types'
    BY <1>7, <2>1, <2>8 DEF Types, Phases, Running
  <2>10. TrainedFor(weights, Done)'
    <3>1. ASSUME NEW r \in RoleSet, NEW k \in Ranks
          PROVE  /\ Len(trained(r, k)) = StepsOf(r, globalSteps)
                 /\ \A i \in DOMAIN trained(r, k) : trained(r, k)[i].batch = i + Skipped(r)
                 /\ \A l \in Ranks : trained(r, l) = trained(r, k)
      <4> DEFINE old == weights[r][k]
      <4>1. /\ Len(old) = StepsOf(r, globalSteps - 1)
            /\ \A i \in DOMAIN old : old[i].batch = i + Skipped(r)
            /\ \A l \in Ranks : weights[r][l] = old
        BY <1>0, <2>2, <3>1 DEF TrainedFor
      <4>2. old \in Seq(Updates)
        BY <2>6, <3>1
      <4> HIDE DEF old
      <4>3. CASE Updated(r)
        <5>1. /\ Append(old, update) \in Seq(Updates)
              /\ Len(Append(old, update)) = Len(old) + 1
              /\ DOMAIN Append(old, update) = 1..(Len(old) + 1) /\ DOMAIN old = 1..Len(old)
              /\ \A i \in 1..Len(old) : Append(old, update)[i] = old[i]
              /\ Append(old, update)[Len(old) + 1] = update /\ Len(old) \in Nat
          BY <2>5, <4>2, AppendProperties, LenProperties
        <5>2. /\ StepsOf(r, globalSteps) = StepsOf(r, globalSteps - 1) + 1
              /\ StepsOf(r, globalSteps) + Skipped(r) = globalSteps
          <6>1. globalSteps > Skipped(r) /\ Skipped(r) \in Nat
            <7>1. r \in {"actor", "critic"}
              BY <3>1, RoleFacts
            <7> QED
              BY <1>0, <1>1, <4>3, <7>1, TrainerAssumption DEF Skipped, Updated, CountersOfTheJob
          <6> QED
            BY <1>1, <6>1 DEF StepsOf
        <5>3. Len(Append(old, update)) = StepsOf(r, globalSteps)
          BY <4>1, <5>1, <5>2
        <5>4. ASSUME NEW i \in DOMAIN Append(old, update)
              PROVE  Append(old, update)[i].batch = i + Skipped(r)
          <6>1. i \in 1..Len(old) \/ i = Len(old) + 1
            BY <5>1, <5>4
          <6> QED
            BY <2>5, <4>1, <5>1, <5>2, <6>1
        <5> QED
          BY <4>1, <4>3, <5>3, <5>4 DEF old
      <4>4. CASE ~Updated(r)
        <5>1. StepsOf(r, globalSteps) = StepsOf(r, globalSteps - 1)
          <6>1. r \in {"actor", "critic"}
            BY <3>1, RoleFacts
          <6>2. Skipped(r) \in Nat /\ globalSteps <= Skipped(r)
            BY <1>0, <1>1, <4>4, <6>1, TrainerAssumption DEF Skipped, Updated, CountersOfTheJob
          <6> QED
            BY <1>1, <6>2 DEF StepsOf
        <5> QED
          BY <4>1, <4>4, <5>1 DEF old
      <4> QED
        BY <4>3, <4>4
    <3> HIDE DEF trained
    <3>2. \A r \in RoleSet, k \in Ranks : weights'[r][k] = trained(r, k)
      BY <2>4
    <3>3. TrainedFor(weights', globalSteps)
      BY <3>1, <3>2 DEF TrainedFor
    <3> QED
      BY <2>2, <3>3 DEF TrainedFor
  <2>11. Job'
    BY <1>0, <1>2, <2>1, <2>2, <2>10 DEF Job, CountersOfTheJob
  <2> QED
    BY <1>6, <2>1, <2>9, <2>11 DEF EndsOnASavedStep
<1>12. CASE BeginSave
  <2>1. /\ phase = "trained" /\ phase' = "rotate" /\ saving' = 1
        /\ UNCHANGED <<globalSteps, fetched, left, epochsLeft, weights>>
    BY <1>12 DEF BeginSave, loopVars
  <2>2. Types'
    BY <1>7, <2>1 DEF Types, Phases, Running
  <2>3. Job'
    BY <1>0, <1>2, <2>1 DEF Job, CountersOfTheJob, TrainedFor, Done
  <2> QED
    BY <1>6, <2>1, <2>2, <2>3 DEF EndsOnASavedStep
<1>13. CASE StepEnds
  <2>1. /\ phase \in {"saved", "trained"} /\ globalSteps' = globalSteps + 1
        /\ phase' = IF IsLastStep THEN "finished" ELSE "fetch"
        /\ UNCHANGED <<fetched, left, epochsLeft, weights, saving>>
    BY <1>13 DEF StepEnds, saveVars
  <2>2. Done = globalSteps /\ Done' = globalSteps
    BY <1>1, <2>1 DEF Done
  <2>3. globalSteps > 0 /\ globalSteps < TotalTrainingSteps + runs /\ committed.step <= globalSteps
    BY <1>0, <1>1, <1>5, <2>1 DEF CountersOfTheJob
  <2>4. Types'
    BY <1>1, <1>7, <2>1, <2>3, StepArithmetic DEF Types, Phases, Running, LastStep
  <2>5. TrainedFor(weights, Done)'
    BY <1>0, <2>1, <2>2 DEF TrainedFor
  <2>6. CountersOfTheJob'
    <3>1. fetched' = Done' /\ fetched' + left' + epochsLeft' * BatchesPerEpoch
                                >= BatchesPerEpoch * TotalEpochs
      BY <1>0, <2>1, <2>2 DEF CountersOfTheJob
    <3>2. /\ phase' \in {"finished", "fetch"} /\ committed'.step < globalSteps' /\ globalSteps' > 0
          /\ globalSteps' <= TotalTrainingSteps + runs' /\ runs' > 0
      BY <1>0, <1>1, <1>2, <1>5, <2>1, <2>3, StepArithmetic DEF CountersOfTheJob
    <3>3. phase' = "fetch" => globalSteps' <= TotalTrainingSteps
      BY <1>1, <2>1, StepArithmetic DEF IsLastStep
    <3>4. phase' = "fetch" => ~(globalSteps' > TotalTrainingSteps)
                              /\ globalSteps' < TotalTrainingSteps + runs'
      BY <1>1, <1>2, <2>1, <3>2, <3>3, StepArithmetic
    <3> QED
      BY <3>1, <3>2, <3>4 DEF CountersOfTheJob
  <2>7. EndsOnASavedStep'
    <3> SUFFICES ASSUME phase' = "finished", SaveFreq > 0
                 PROVE  /\ tracker'.is = "whole" /\ tracker'.holds = globalSteps' - 1
                        /\ tracker'.holds \in TotalTrainingSteps..(TotalTrainingSteps + runs' - 1)
      BY DEF EndsOnASavedStep
    <3>1. IsLastStep
      BY <2>1
    <3>2. phase = "saved"
      BY <1>13, <3>1 DEF StepEnds, SaveDue
    <3>3. committed.step = globalSteps /\ committed # Nothing
      BY <1>0, <2>3, <3>2, <1>1 DEF CountersOfTheJob, Nothing
    <3>4. tracker.is \in {"missing", "torn", "whole"} /\ tracker' = tracker
      BY <1>0 DEF TypeOK, Files, diskVars
    <3>5. tracker.is = "whole" /\ tracker.holds = globalSteps
      BY <1>0, <3>3, <3>4 DEF CkptInv, Intact
    <3>6. globalSteps \in TotalTrainingSteps..(TotalTrainingSteps + runs - 1)
      BY <1>1, <2>3, <3>1, StepArithmetic DEF IsLastStep
    <3> QED
      BY <1>1, <1>2, <2>1, <3>4, <3>5, <3>6
  <2> QED
    BY <1>6, <2>4, <2>5, <2>6, <2>7 DEF Job
<1> QED
  BY <1>8, <1>9, <1>10, <1>11, <1>12, <1>13 DEF Loop
-----------------------------------------------------------------------------
(* Starting and being killed.                                              *)

\* The distance to the next multiple.
LEMMA ToTheNextMultiple ==
    ASSUME NEW B \in Nat \ {0}, NEW d \in Nat \ {0}
    PROVE  (B - (d % B)) % B \in 0..B /\ d + ((B - (d % B)) % B) >= B
<1>1. \A x \in Nat : x % B \in 0..(B - 1)
  OBVIOUS
<1>2. \A x \in Nat : x < B => x % B = x
  OBVIOUS
<1>3. d % B \in 0..(B - 1) /\ B - (d % B) \in 1..B
  BY <1>1
<1>4. (B - (d % B)) % B \in 0..(B - 1)
  BY <1>1, <1>3
<1>5. d < B => (B - (d % B)) % B = B - d
  BY <1>2
<1> QED
  BY <1>4, <1>5

\* With what is left of the pass under way, a job has not used up its first pass.
LEMMA RemainingFacts ==
    ASSUME NEW d \in Nat
    PROVE  Remaining(d) \in 0..BatchesPerEpoch /\ d + Remaining(d) >= BatchesPerEpoch
<1>1. BatchesPerEpoch \in Nat \ {0}
  BY TrainerAssumption
<1>2. CASE d = 0
  BY <1>1, <1>2 DEF Remaining
<1>3. CASE d # 0
  <2>1. Remaining(d) = (BatchesPerEpoch - (d % BatchesPerEpoch)) % BatchesPerEpoch
    BY <1>3 DEF Remaining
  <2> QED
    BY <1>1, <1>3, <2>1, ToTheNextMultiple
<1> QED
  BY <1>2, <1>3

\* A job that starts begins with the checkpoint that was completed last.
LEMMA StartsWhereItWasCommitted ==
    ASSUME CkptInv, StartFromScratch \/ StartFromCheckpoint
    PROVE  BeginTraining(committed.step, committed.weights, committed.fetched)
<1>1. CASE StartFromScratch
  <2>1. committed = Nothing
    BY <1>1 DEF StartFromScratch, CkptInv, Intact
  <2> QED
    BY <1>1, <2>1 DEF StartFromScratch, Nothing
<1>2. CASE StartFromCheckpoint
  <2> DEFINE n == tracker.holds
             loaded == [r \in RoleSet |-> [k \in Ranks |-> shards[n][r][k].holds]]
  <2>1. /\ tracker.is = "whole" /\ Loads(n)
        /\ BeginTraining(n, loaded, IF dataPt[n].is = "whole" THEN dataPt[n].holds ELSE 0)
    BY <1>2 DEF StartFromCheckpoint, Loadable
  <2>0. Intact
    BY DEF CkptInv
  <2>2. n = committed.step /\ dataPt[n] = Whole(committed.fetched)
    <3>1. n = committed.step /\ dataPt[committed.step] = Whole(committed.fetched)
      BY <2>0, <2>1 DEF Intact
    <3> QED
      BY <3>1
  <2>3. \A r \in RoleSet, k \in Ranks : shards[n][r][k].holds = committed.weights[r][k]
    <3>1. ASSUME NEW r \in RoleSet, NEW k \in Ranks
          PROVE  shards[n][r][k].holds = committed.weights[r][k]
      <4>1. \/ shards[committed.step][r][k] = Whole(committed.weights[r][k])
            \/ shards[committed.step][r][k] = Missing(<<>>)
        BY <2>0, <2>1 DEF Intact
      <4>2. shards[committed.step][r][k].is = "whole"
        BY <2>1, <2>2 DEF Loads, ShardsLoad
      <4> QED
        BY <2>2, <4>1, <4>2 DEF Whole, Missing
    <3> QED
      BY <3>1
  <2>4. committed.weights \in WeightsType
    BY DEF CkptInv, TypeOK
  <2>5. loaded = committed.weights
    <3> DEFINE w == committed.weights
    <3>1. w = [r \in RoleSet |-> w[r]] /\ \A r \in RoleSet : w[r] = [k \in Ranks |-> w[r][k]]
      BY <2>4 DEF WeightsType
    <3>2. \A r \in RoleSet : [k \in Ranks |-> shards[n][r][k].holds] = w[r]
      BY <2>3, <3>1
    <3> QED
      BY <3>1, <3>2
  <2>6. (IF dataPt[n].is = "whole" THEN dataPt[n].holds ELSE 0) = committed.fetched
    <3>1. Whole(committed.fetched).is = "whole" /\ Whole(committed.fetched).holds = committed.fetched
      BY DEF Whole
    <3> QED
      BY <2>2, <3>1
  <2> QED
    BY <2>1, <2>2, <2>5, <2>6
<1> QED
  BY <1>1, <1>2

LEMMA StartNext ==
    ASSUME CkptInv, Start
    PROVE  CkptInv'
<1>0. /\ TypeOK /\ phase = "down" /\ runs' = runs + 1 /\ runs < MaxRuns
      /\ UNCHANGED <<shards, dataPt, tracker, saving, dump, savedPaths, committed>>
  BY DEF CkptInv, Start, diskVars, saveVars
<1>1. /\ runs \in Nat /\ runs' \in 0..MaxRuns /\ runs' \in Nat
      /\ committed.step \in Nat /\ committed.step < TotalTrainingSteps + runs
      /\ committed.step <= LastStep /\ committed.fetched = committed.step
      /\ committed.weights \in WeightsType
  BY <1>0, StepArithmetic DEF CkptInv, Counters, Trained, TypeOK, LastStep
<1>2. TrainedFor(committed.weights, committed.step)
  BY DEF CkptInv, Trained
<1>3. CASE StartFails
  <2>1. phase' = "stuck" /\ UNCHANGED <<globalSteps, fetched, left, epochsLeft, weights>>
    BY <1>3 DEF StartFails, loopVars
  <2>2. TypeOK'
    BY <1>0, <1>1, <2>1 DEF TypeOK, Phases
  <2>3. ~Up'
    BY <2>1 DEF Up, Running
  <2>4. Counters' /\ Trained'
    BY <1>0, <1>1, <1>2, <2>3, StepArithmetic DEF Counters, Trained
  <2>5. Intact' /\ EndsOnASavedStep'
    BY <1>0, <2>1 DEF CkptInv, Intact, EndsOnASavedStep
  <2>6. SavedSoFar'
    BY <1>0, <2>1, NoSaveUnderWay DEF diskVars
  <2> QED
    BY <2>2, <2>4, <2>5, <2>6 DEF CkptInv
<1>4. CASE StartFromScratch \/ StartFromCheckpoint
  <2>1. BeginTraining(committed.step, committed.weights, committed.fetched)
    BY <1>4, StartsWhereItWasCommitted
  <2>2. /\ globalSteps' = committed.step + 1 /\ weights' = committed.weights
        /\ fetched' = committed.step /\ left' = Remaining(committed.step)
        /\ epochsLeft' = TotalEpochs - 1 /\ phase' = "fetch"
    BY <1>1, <2>1 DEF BeginTraining
  <2>3. /\ globalSteps' < TotalTrainingSteps + runs'
        /\ globalSteps' \in 0..LastStep /\ fetched' \in 0..LastStep
        /\ left' \in 0..BatchesPerEpoch /\ epochsLeft' \in 0..TotalEpochs
    BY <1>0, <1>1, <2>2, StepArithmetic, RemainingFacts, TrainerAssumption DEF LastStep
  <2>4. TypeOK'
    BY <1>0, <1>1, <2>2, <2>3 DEF TypeOK, Phases, Running, LastStep
  <2>5. Done' = committed.step
    BY <1>1, <2>2 DEF Done
  <2>6. fetched' + left' + epochsLeft' * BatchesPerEpoch >= BatchesPerEpoch * TotalEpochs
    <3>1. fetched' + left' \in Nat /\ fetched' + left' >= BatchesPerEpoch
      BY <1>1, <2>2, RemainingFacts, TrainerAssumption
    <3>2. epochsLeft' * BatchesPerEpoch = BatchesPerEpoch * TotalEpochs - BatchesPerEpoch
      BY <2>2, TrainerAssumption
    <3>3. BatchesPerEpoch * TotalEpochs \in Nat /\ BatchesPerEpoch \in Nat
      BY TrainerAssumption
    <3>4. \A x, b, all \in Nat : x >= b => x + (all - b) >= all
      OBVIOUS
    <3> QED
      BY <3>1, <3>2, <3>3, <3>4
  <2>7. Counters'
    <3>1. CountersOfTheJob'
      BY <1>0, <1>1, <2>2, <2>3, <2>5, <2>6 DEF CountersOfTheJob
    <3> QED
      BY <1>0, <1>1, <3>1, StepArithmetic DEF Counters
  <2>8. Trained'
    <3>1. TrainedFor(weights, Done)'
      BY <1>2, <2>2, <2>5 DEF TrainedFor
    <3> QED
      BY <1>0, <1>1, <1>2, <3>1 DEF Trained
  <2>9. Intact'
    <3>1. tracker.is # "torn"
      BY <1>4 DEF StartFromScratch, StartFromCheckpoint, Loadable
    <3> QED
      BY <1>0, <3>1 DEF CkptInv, Intact
  <2>10. SavedSoFar' /\ EndsOnASavedStep'
    BY <1>0, <2>2, NoSaveUnderWay DEF diskVars, EndsOnASavedStep
  <2> QED
    BY <2>4, <2>7, <2>8, <2>9, <2>10 DEF CkptInv
<1> QED
  BY <1>3, <1>4 DEF Start

LEMMA UntrainedType ==
    /\ Untrained \in WeightsType
    /\ [k \in Ranks |-> "idle"] \in [Ranks -> {"idle", "writing", "done"}]
    /\ [r \in RoleSet |-> <<>>] \in [RoleSet -> Seq(Steps)]
    /\ \A r \in RoleSet : Len([s \in RoleSet |-> <<>>][r]) = 0
BY EmptySeq DEF Untrained, WeightsType

LEMMA CrashNext ==
    ASSUME CkptInv, Crash
    PROVE  CkptInv'
<1>0. /\ TypeOK /\ phase' = "down" /\ MemoryLost
      /\ UNCHANGED <<shards, dataPt, tracker, runs, committed>>
  BY DEF CkptInv, Crash, diskVars, historyVars
<1>1. TypeOK'
  <2>1. /\ phase' \in Phases /\ weights' \in WeightsType /\ saving' \in DOMAIN Roles
        /\ dump' \in [Ranks -> {"idle", "writing", "done"}]
        /\ savedPaths' \in [RoleSet -> Seq(Steps)]
    BY <1>0, UntrainedType, RoleFacts DEF MemoryLost, Phases
  <2>2. \A r \in RoleSet : MaxCkptToKeep[r] > 0 => Len(savedPaths'[r]) <= MaxCkptToKeep[r]
    <3>1. \A r \in RoleSet : Len(savedPaths'[r]) = 0
      BY <1>0, UntrainedType DEF MemoryLost
    <3> QED
      BY <3>1, KeepType
  <2>3. /\ globalSteps' \in 0..(TotalTrainingSteps + MaxRuns)
        /\ fetched' \in 0..(TotalTrainingSteps + MaxRuns)
        /\ left' \in 0..BatchesPerEpoch /\ epochsLeft' \in 0..TotalEpochs
    BY <1>0, TrainerAssumption DEF MemoryLost
  <2> QED
    BY <1>0, <2>1, <2>2, <2>3 DEF TypeOK
<1>2. ~Up' /\ ~(\E i \in DOMAIN Roles : IsSaved(i)')
  BY <1>0 DEF Up, Running, IsSaved
<1>3. Counters' /\ Trained' /\ Intact' /\ EndsOnASavedStep'
  BY <1>0, <1>2 DEF CkptInv, Counters, Trained, TrainedFor, Intact, EndsOnASavedStep
<1>4. SavedSoFar'
  <2>1. \A i \in DOMAIN Roles : DOMAIN savedPaths'[Roles[i]] = {}
    BY <1>0, RoleFacts DEF MemoryLost
  <2>2. \A i \in DOMAIN Roles : PathsOfRole(i)' /\ ShardsOfRole(i)'
    BY <1>2, <2>1 DEF PathsOfRole, ShardsOfRole
  <2> QED
    BY <1>0, <2>2 DEF SavedSoFar, RoleUnderWay
<1> QED
  BY <1>1, <1>3, <1>4 DEF CkptInv
-----------------------------------------------------------------------------
(* Saving.                                                                 *)

Saving == {"rotate", "dump", "data", "dataOpen", "track", "trackOpen"}

\* What does not change while a checkpoint is written.
LEMMA SaveFacts ==
    ASSUME CkptInv, phase \in Saving
    PROVE  /\ TypeOK /\ Up /\ CountersOfTheJob
           /\ globalSteps \in Steps /\ fetched = globalSteps
           /\ committed.step \in Nat /\ committed.step < globalSteps
           /\ SavedRole \in RoleSet /\ saving \in DOMAIN Roles
           /\ savedPaths[SavedRole] \in Seq(Steps)
           /\ \A r \in RoleSet, k \in Ranks : weights[r][k] \in Seq(Updates)
           /\ PathsOfRole(saving)
<1>1. TypeOK /\ Up /\ CountersOfTheJob /\ phase \notin {"saved", "finished", "fetch", "train"}
  BY PhaseFacts DEF CkptInv, Saving, Running
<1>2. globalSteps \in Nat /\ runs \in 0..MaxRuns /\ committed.step \in Nat
  BY <1>1, TrainerAssumption DEF TypeOK
<1>3. globalSteps > 0 /\ globalSteps < TotalTrainingSteps + runs
  BY <1>1 DEF CountersOfTheJob
<1>4. globalSteps \in Steps
  BY <1>2, <1>3, StepArithmetic DEF LastStep
<1>5. fetched = globalSteps /\ committed.step < globalSteps
  BY <1>1 DEF CountersOfTheJob, Done
<1>6. SavedRole \in RoleSet /\ saving \in DOMAIN Roles /\ savedPaths[SavedRole] \in Seq(Steps)
  BY <1>1, RoleFacts DEF TypeOK, SavedRole
<1>7. \A r \in RoleSet, k \in Ranks : weights[r][k] \in Seq(Updates)
  BY <1>1 DEF TypeOK, WeightsType
<1>8. PathsOfRole(saving)
  BY <1>6 DEF CkptInv, SavedSoFar
<1> QED
  BY <1>1, <1>2, <1>4, <1>5, <1>6, <1>7, <1>8

\* Until the tracker is written, the job and what it last committed stay as they are.
LEMMA SaveFrame ==
    ASSUME CkptInv, phase \in Saving, phase' \in Saving, UNCHANGED <<loopVars, runs, committed>>
    PROVE  Counters' /\ Trained' /\ EndsOnASavedStep'
<1>1. /\ UNCHANGED <<globalSteps, fetched, left, epochsLeft, weights>>
      /\ Done' = globalSteps /\ Done = globalSteps
  BY DEF loopVars, Saving, Done
<1>2. Up' /\ CountersOfTheJob /\ TrainedFor(weights, Done)
  BY PhaseFacts DEF Saving, Up, Running
<1>3. CountersOfTheJob'
  BY <1>1, <1>2 DEF CountersOfTheJob, Saving
<1>4. TrainedFor(weights, Done)'
  BY <1>1, <1>2 DEF TrainedFor
<1>5. TrainedFor(committed.weights, committed.step)'
  BY DEF CkptInv, Trained, TrainedFor
<1> QED
  BY <1>3, <1>4, <1>5 DEF CkptInv, Counters, Trained, EndsOnASavedStep, Saving

\* The folder the tracker names stays whole when a file of another step's folder
\* changes.
LEMMA IntactFrame ==
    ASSUME CkptInv, NEW n \in Steps, n # committed.step, UNCHANGED <<tracker, committed>>,
           \A m \in Steps, r \in RoleSet, k \in Ranks : m # n => shards'[m][r][k] = shards[m][r][k],
           \A m \in Steps : m # n => dataPt'[m] = dataPt[m],
           tracker.is = "torn" => phase' \in {"trackOpen", "down", "stuck"}
    PROVE  Intact'
<1>1. Intact /\ committed.step \in Nat /\ committed.step <= LastStep
  BY StepArithmetic DEF CkptInv, TypeOK, LastStep
<1>2. tracker.is = "whole" => committed.step \in Steps
  BY <1>1, StepArithmetic DEF Intact
<1> QED
  BY <1>1, <1>2 DEF Intact

\* The oldest checkpoints are a prefix of the list, and never its last entry
\* unless only one is kept.
LEMMA OldestFacts ==
    ASSUME NEW paths \in Seq(Steps), NEW keep \in Nat, keep > 0 => Len(paths) <= keep
    PROVE  LET d == Doomed(paths, keep)
               kept == SubSeq(paths, d + 1, Len(paths))
           IN /\ d \in 0..Len(paths)
              /\ SubSeq(paths, 1, d) \in Seq(Steps) /\ DOMAIN SubSeq(paths, 1, d) = 1..d
              /\ \A i \in 1..d : SubSeq(paths, 1, d)[i] = paths[i]
              /\ d > 0 => keep = 1 \/ d < Len(paths)
              /\ kept \in Seq(Steps) /\ Len(kept) = Len(paths) - d
              /\ DOMAIN kept = 1..(Len(paths) - d)
              /\ \A i \in DOMAIN kept : kept[i] = paths[i + d]
              /\ keep > 0 => Len(kept) < keep
<1> DEFINE d == Doomed(paths, keep)
           old == SubSeq(paths, 1, d)
           kept == SubSeq(paths, d + 1, Len(paths))
<1>1. Len(paths) \in Nat /\ DOMAIN paths = 1..Len(paths) /\ keep \in Nat
  OBVIOUS
<1>2. /\ d \in 0..Len(paths)
      /\ d > 0 => keep = 1 \/ d < Len(paths)
      /\ keep > 0 => Len(paths) - d < keep
  BY <1>1 DEF Doomed
<1> HIDE DEF d
<1>3. \A i \in 1..Len(paths) : paths[i] \in Steps
  BY ElementOfSeq
<1>4. /\ old \in Seq(Steps) /\ Len(old) = IF 1 <= d THEN d - 1 + 1 ELSE 0
      /\ \A i \in 1..(d - 1 + 1) : old[i] = paths[1 + i - 1]
  <2>1. \A i \in 1..d : paths[i] \in Steps
    BY <1>1, <1>2, <1>3
  <2>2. d \in Int
    BY <1>1, <1>2
  <2> QED
    BY <2>1, <2>2, <1>1, <1>2, SubSeqProperties
<1>5. /\ kept \in Seq(Steps)
      /\ Len(kept) = IF d + 1 <= Len(paths) THEN Len(paths) - (d + 1) + 1 ELSE 0
      /\ \A i \in 1..(Len(paths) - (d + 1) + 1) : kept[i] = paths[d + 1 + i - 1]
  BY <1>1, <1>2, <1>3, SubSeqProperties
<1> HIDE DEF old, kept
<1>6. Len(old) = d /\ \A i \in 1..d : old[i] = paths[i]
  BY <1>1, <1>2, <1>4
<1>7. Len(kept) = Len(paths) - d /\ \A i \in 1..(Len(paths) - d) : kept[i] = paths[i + d]
  <2>1. Len(paths) - (d + 1) + 1 = Len(paths) - d /\ d \in Nat /\ d <= Len(paths)
    BY <1>1, <1>2
  <2>3. Len(kept) = Len(paths) - d
    <3>1. Len(kept) = IF d + 1 <= Len(paths) THEN Len(paths) - (d + 1) + 1 ELSE 0
      BY <1>5
    <3>2. \A l, e \in Nat : e <= l => (IF e + 1 <= l THEN l - (e + 1) + 1 ELSE 0) = l - e
      OBVIOUS
    <3>3. Len(paths) \in Nat
      BY <1>1
    <3>4. (IF d + 1 <= Len(paths) THEN Len(paths) - (d + 1) + 1 ELSE 0) = Len(paths) - d
      BY <2>1, <3>2, <3>3
    <3> QED
      BY <3>1, <3>4
  <2>2. ASSUME NEW i \in 1..(Len(paths) - d)
        PROVE  kept[i] = paths[i + d]
    <3>1. d + 1 + i - 1 = i + d
      BY <2>1
    <3>2. kept[i] = paths[d + 1 + i - 1]
      BY <1>5, <2>1
    <3> QED
      BY <3>1, <3>2
  <2> QED
    BY <2>2, <2>3
<1>8. DOMAIN old = 1..d /\ DOMAIN kept = 1..(Len(paths) - d)
  BY <1>4, <1>5, <1>6, <1>7, LenProperties
<1>9. /\ \A i \in DOMAIN kept : kept[i] = paths[i + d]
      /\ keep > 0 => Len(kept) < keep
  BY <1>2, <1>7, <1>8
<1>10. old \in Seq(Steps) /\ kept \in Seq(Steps)
  BY <1>4, <1>5
<1> QED
  BY <1>2, <1>6, <1>7, <1>8, <1>9, <1>10, Zenon DEF d, old, kept
\* Deleting the oldest checkpoints of a role.
LEMMA RemoveShardNext ==
    ASSUME CkptInv, RemoveShard
    PROVE  CkptInv'
<1> DEFINE r == SavedRole
           paths == savedPaths[r]
           keep == MaxCkptToKeep[r]
<1>1. PICK i \in DOMAIN OldestPaths(r) :
          \E k \in OnDisk(OldestPaths(r)[i], r) :
              shards' = [shards EXCEPT ![OldestPaths(r)[i]][r][k] = Missing(<<>>)]
  BY DEF RemoveShard
<1> DEFINE n == OldestPaths(r)[i]
<1>2. PICK k \in Ranks : ChangeShard(n, r, k, Missing(<<>>))
  BY <1>1 DEF OnDisk, ChangeShard
<1>3. /\ phase = "rotate" /\ phase \in Saving
      /\ UNCHANGED <<dataPt, tracker, phase, loopVars, saving, dump, savedPaths, runs, committed>>
  BY DEF RemoveShard, Saving, saveVars, historyVars
<1>4. /\ TypeOK /\ r \in RoleSet /\ saving \in DOMAIN Roles /\ paths \in Seq(Steps)
      /\ globalSteps \in Steps /\ committed.step < globalSteps /\ committed.step \in Nat
      /\ PathsOfRole(saving)
  BY <1>3, SaveFacts
<1>5. keep \in Nat /\ (keep > 0 => Len(paths) <= keep)
  BY <1>4, KeepType DEF TypeOK
<1>6. /\ i \in 1..Doomed(paths, keep) /\ n = paths[i] /\ Doomed(paths, keep) \in 0..Len(paths)
      /\ Doomed(paths, keep) > 0 => keep = 1 \/ Doomed(paths, keep) < Len(paths)
  <2>1. OldestPaths(r) = SubSeq(paths, 1, Doomed(paths, keep))
    BY DEF OldestPaths
  <2>2. /\ DOMAIN OldestPaths(r) = 1..Doomed(paths, keep) /\ Doomed(paths, keep) \in 0..Len(paths)
        /\ \A j \in 1..Doomed(paths, keep) : OldestPaths(r)[j] = paths[j]
        /\ Doomed(paths, keep) > 0 => keep = 1 \/ Doomed(paths, keep) < Len(paths)
    BY <1>4, <1>5, <2>1, OldestFacts
  <2> QED
    BY <1>1, <2>2
<1>7. i \in DOMAIN paths /\ n \in Steps /\ n \in Nat
  BY <1>4, <1>6, ElementOfSeq, LenProperties, StepArithmetic
<1>8. n <= committed.step /\ (n = committed.step => keep = 1)
  <2>1. \A j \in DOMAIN paths : paths[j] <= committed.step
    BY <1>3, <1>4, RoleFacts DEF PathsOfRole, IsSaved, SavedRole
  <2>2. Doomed(paths, keep) < Len(paths) => n < paths[Len(paths)] /\ Len(paths) \in DOMAIN paths
    <3>1. ASSUME Doomed(paths, keep) < Len(paths)
          PROVE  Len(paths) \in DOMAIN paths /\ i < Len(paths)
      BY <1>4, <1>6, <3>1, LenProperties
    <3> QED
      BY <1>4, <1>6, <1>7, <3>1 DEF PathsOfRole, SavedRole
  <2>3. \A j \in DOMAIN paths : paths[j] \in Nat
    BY <1>4, ElementOfSeq, LenProperties, StepArithmetic
  <2>4. Doomed(paths, keep) > 0
    BY <1>6
  <2> QED
    BY <1>4, <1>6, <1>7, <2>1, <2>2, <2>3, <2>4
<1>9. Missing(<<>>) \in Files(Seq(Updates))
  BY EmptySeq, FileFacts
<1>10. /\ shards' \in [Steps -> [RoleSet -> [Ranks -> Files(Seq(Updates))]]]
       /\ \A m \in Steps, s \in RoleSet, l \in Ranks :
              shards'[m][s][l] = IF m = n /\ s = r /\ l = k THEN Missing(<<>>) ELSE shards[m][s][l]
  BY <1>2, <1>4, <1>7, <1>9, ShardChanged
<1> HIDE DEF n, r
<1>11. TypeOK'
  BY <1>3, <1>4, <1>10 DEF TypeOK, loopVars
<1>12. Counters' /\ Trained' /\ EndsOnASavedStep'
  BY <1>3, SaveFrame
<1>13. Intact'
  <2>1. CASE n # committed.step
    BY <1>3, <1>7, <1>10, <2>1, IntactFrame DEF CkptInv, Intact
  <2>2. CASE n = committed.step
    <3>1. \A s \in RoleSet, l \in Ranks :
              \/ shards'[n][s][l] = shards[n][s][l]
              \/ MaxCkptToKeep[s] = 1 /\ shards'[n][s][l] = Missing(<<>>)
      BY <1>7, <1>8, <1>10, <2>2
    <3>2. Intact
      BY DEF CkptInv
    <3> HIDE DEF keep
    <3> QED
      BY <1>3, <2>2, <3>1, <3>2 DEF Intact
  <2> QED
    BY <2>1, <2>2
<1>14. SavedSoFar'
  <2>1. ASSUME NEW j \in DOMAIN Roles
        PROVE  PathsOfRole(j)' /\ ShardsOfRole(j)'
    <3>1. PathsOfRole(j) /\ ShardsOfRole(j)
      BY DEF CkptInv, SavedSoFar
    <3>2. PathsOfRole(j)'
      BY <1>3, <3>1 DEF PathsOfRole, IsSaved, loopVars
    <3>3. IsSaved(j) => Roles[j] # r /\ Roles[j] \in RoleSet
      BY <1>3, <1>4, RoleFacts DEF IsSaved, r, SavedRole
    <3>4. ShardsOfRole(j)'
      BY <1>3, <1>4, <1>10, <3>1, <3>3 DEF ShardsOfRole, IsSaved, loopVars
    <3> QED
      BY <3>2, <3>4
  <2> QED
    BY <1>3, <2>1 DEF SavedSoFar, RoleUnderWay
<1> QED
  BY <1>11, <1>12, <1>13, <1>14 DEF CkptInv

LEMMA RotatedNext ==
    ASSUME CkptInv, Rotated
    PROVE  CkptInv'
<1> DEFINE r == SavedRole
           paths == savedPaths[r]
           keep == MaxCkptToKeep[r]
           kept == SubSeq(paths, Doomed(paths, keep) + 1, Len(paths))
<1>1. /\ phase = "rotate" /\ phase' = "dump" /\ savedPaths' = [savedPaths EXCEPT ![r] = kept]
      /\ dump' = [k \in Ranks |-> "idle"]
      /\ UNCHANGED <<shards, dataPt, tracker, loopVars, saving, runs, committed>>
      /\ phase \in Saving /\ phase' \in Saving
  BY DEF Rotated, diskVars, historyVars, Saving
<1>2. /\ TypeOK /\ r \in RoleSet /\ saving \in DOMAIN Roles /\ paths \in Seq(Steps)
      /\ PathsOfRole(saving)
  BY <1>1, SaveFacts
<1>3. keep \in Nat /\ (keep > 0 => Len(paths) <= keep)
  BY <1>2, KeepType DEF TypeOK
<1>4. /\ Doomed(paths, keep) \in 0..Len(paths)
      /\ kept \in Seq(Steps) /\ Len(kept) = Len(paths) - Doomed(paths, keep)
      /\ DOMAIN kept = 1..(Len(paths) - Doomed(paths, keep))
      /\ \A j \in DOMAIN kept : kept[j] = paths[j + Doomed(paths, keep)]
      /\ keep > 0 => Len(kept) < keep
  BY <1>2, <1>3, OldestFacts
<1>5. \A j \in DOMAIN kept : j \in Nat /\ j + Doomed(paths, keep) \in DOMAIN paths
  BY <1>2, <1>4, LenProperties
<1> HIDE DEF kept, r
<1>6. /\ savedPaths' \in [RoleSet -> Seq(Steps)]
      /\ \A s \in RoleSet : savedPaths'[s] = IF s = r THEN kept ELSE savedPaths[s]
  BY <1>1, <1>2, <1>4 DEF TypeOK
<1>7. TypeOK'
  <2>1. \A s \in RoleSet : MaxCkptToKeep[s] > 0 => Len(savedPaths'[s]) <= MaxCkptToKeep[s]
    <3>1. Len(kept) \in Nat
      BY <1>4
    <3>2. keep > 0 => Len(kept) <= keep
      BY <1>3, <1>4, <3>1
    <3> QED
      BY <1>2, <1>6, <3>2 DEF TypeOK
  <2>2. dump' \in [Ranks -> {"idle", "writing", "done"}] /\ phase' \in Phases
    BY <1>1 DEF Phases, Running
  <2> QED
    BY <1>1, <1>2, <1>6, <2>1, <2>2 DEF TypeOK, loopVars
<1>8. Counters' /\ Trained' /\ EndsOnASavedStep'
  BY <1>1, SaveFrame
<1>9. Intact'
  BY <1>1 DEF CkptInv, Intact
<1>10. SavedSoFar'
  <2>1. ASSUME NEW j \in DOMAIN Roles
        PROVE  PathsOfRole(j)' /\ ShardsOfRole(j)'
    <3>1. PathsOfRole(j) /\ ShardsOfRole(j) /\ Roles[j] \in RoleSet
      BY RoleFacts DEF CkptInv, SavedSoFar
    <3>2. IsSaved(j)' <=> IsSaved(j)
      BY <1>1 DEF IsSaved
    <3>3. ShardsOfRole(j)'
      BY <1>1, <3>1, <3>2 DEF ShardsOfRole, loopVars
    <3>4. CASE Roles[j] # r
      <4>1. savedPaths'[Roles[j]] = savedPaths[Roles[j]] /\ committed' = committed
            /\ globalSteps' = globalSteps
        BY <1>1, <1>6, <3>1, <3>4 DEF loopVars
      <4> QED
        BY <3>1, <3>2, <3>3, <4>1 DEF PathsOfRole
    <3>5. CASE Roles[j] = r
      <4>1. savedPaths'[Roles[j]] = kept /\ committed' = committed /\ globalSteps' = globalSteps
        BY <1>1, <1>6, <3>1, <3>5 DEF loopVars
      <4>2. /\ \A x, y \in DOMAIN paths : x < y => paths[x] < paths[y]
            /\ \A x \in DOMAIN paths :
                  paths[x] <= committed.step \/ (IsSaved(j) /\ paths[x] = globalSteps)
        BY <3>1, <3>5 DEF PathsOfRole
      <4>3. \A x, y \in DOMAIN kept : x < y => kept[x] < kept[y]
        <5>1. ASSUME NEW x \in DOMAIN kept, NEW y \in DOMAIN kept, x < y
              PROVE  kept[x] < kept[y]
          <6>1. /\ x + Doomed(paths, keep) \in DOMAIN paths /\ y + Doomed(paths, keep) \in DOMAIN paths
                /\ kept[x] = paths[x + Doomed(paths, keep)] /\ kept[y] = paths[y + Doomed(paths, keep)]
            BY <1>4, <1>5
          <6>2. x + Doomed(paths, keep) < y + Doomed(paths, keep)
            BY <1>4, <1>5, <5>1
          <6> QED
            BY <4>2, <6>1, <6>2
        <5> QED
          BY <5>1
      <4>4. \A x \in DOMAIN kept :
                kept[x] <= committed.step \/ (IsSaved(j) /\ kept[x] = globalSteps)
        BY <1>4, <1>5, <4>2
      <4> QED
        BY <3>2, <3>3, <4>1, <4>3, <4>4 DEF PathsOfRole
    <3> QED
      BY <3>4, <3>5
  <2>2. RoleUnderWay'
    <3>1. SavedRole' = r
      BY <1>1 DEF r, SavedRole
    <3> QED
      BY <1>1, <1>2, <1>4, <1>6, <3>1 DEF RoleUnderWay
  <2> QED
    BY <1>1, <2>1, <2>2 DEF SavedSoFar
<1> QED
  BY <1>7, <1>8, <1>9, <1>10 DEF CkptInv
\* Writing a rank's shard, which is of the step being saved and of no other role.
LEMMA DumpNext ==
    ASSUME CkptInv, NEW k \in Ranks, OpenShard(k) \/ WriteShard(k)
    PROVE  CkptInv'
<1> DEFINE r == SavedRole
<1>1. /\ phase = "dump" /\ phase \in Saving
      /\ UNCHANGED <<dataPt, tracker, phase, loopVars, saving, savedPaths, runs, committed>>
      /\ \/ /\ dump' = [dump EXCEPT ![k] = "writing"]
            /\ ChangeShard(globalSteps, r, k, Torn(<<>>))
         \/ /\ dump' = [dump EXCEPT ![k] = "done"]
            /\ ChangeShard(globalSteps, r, k, Whole(weights[r][k]))
  BY DEF OpenShard, WriteShard, Saving, saveVars, historyVars, ChangeShard
<1>2. /\ TypeOK /\ r \in RoleSet /\ saving \in DOMAIN Roles
      /\ globalSteps \in Steps /\ committed.step < globalSteps /\ committed.step \in Nat
      /\ weights[r][k] \in Seq(Updates)
  BY <1>1, SaveFacts
<1>3. PICK v \in Files(Seq(Updates)), p \in {"writing", "done"} :
          /\ dump' = [dump EXCEPT ![k] = p]
          /\ ChangeShard(globalSteps, r, k, v)
          /\ p = "done" => v = Whole(weights[r][k])
  <2>1. Torn(<<>>) \in Files(Seq(Updates)) /\ Whole(weights[r][k]) \in Files(Seq(Updates))
    BY <1>2, EmptySeq, FileFacts
  <2> QED
    BY <1>1, <2>1
<1> HIDE DEF r
<1>4. /\ shards' \in [Steps -> [RoleSet -> [Ranks -> Files(Seq(Updates))]]]
      /\ \A m \in Steps, s \in RoleSet, l \in Ranks :
             shards'[m][s][l] = IF m = globalSteps /\ s = r /\ l = k THEN v ELSE shards[m][s][l]
  BY <1>2, <1>3, ShardChanged
<1>5. /\ dump' \in [Ranks -> {"idle", "writing", "done"}]
      /\ \A l \in Ranks : dump'[l] = IF l = k THEN p ELSE dump[l]
  BY <1>2, <1>3 DEF TypeOK
<1>6. UNCHANGED <<globalSteps, fetched, left, epochsLeft, weights>>
  BY <1>1 DEF loopVars
<1>7. TypeOK'
  BY <1>1, <1>2, <1>4, <1>5, <1>6 DEF TypeOK
<1>8. Counters' /\ Trained' /\ EndsOnASavedStep'
  BY <1>1, SaveFrame
<1>9. Intact'
  <2>1. globalSteps # committed.step /\ (tracker.is = "torn" => phase' \in {"trackOpen", "down", "stuck"})
    BY <1>1, <1>2, StepArithmetic DEF CkptInv, Intact
  <2> QED
    BY <1>1, <1>2, <1>4, <2>1, IntactFrame
<1>10. SavedSoFar'
  <2>1. ASSUME NEW j \in DOMAIN Roles
        PROVE  PathsOfRole(j)' /\ ShardsOfRole(j)'
    <3>1. PathsOfRole(j) /\ ShardsOfRole(j)
      BY DEF CkptInv, SavedSoFar
    <3>2. PathsOfRole(j)'
      BY <1>1, <1>6, <3>1 DEF PathsOfRole, IsSaved
    <3>3. IsSaved(j) => Roles[j] # r /\ Roles[j] \in RoleSet
      BY <1>1, <1>2, RoleFacts DEF IsSaved, r, SavedRole
    <3>4. ShardsOfRole(j)'
      BY <1>1, <1>2, <1>4, <1>6, <3>1, <3>3 DEF ShardsOfRole, IsSaved
    <3> QED
      BY <3>2, <3>4
  <2>2. RoleUnderWay'
    <3>1. /\ MaxCkptToKeep[r] > 0 => Len(savedPaths[r]) < MaxCkptToKeep[r]
          /\ \A l \in Ranks : dump[l] = "done" => shards[globalSteps][r][l] = Whole(weights[r][l])
      BY <1>1 DEF CkptInv, SavedSoFar, RoleUnderWay, r
    <3>2. \A l \in Ranks : dump'[l] = "done" => shards'[globalSteps][r][l] = Whole(weights[r][l])
      BY <1>2, <1>3, <1>4, <1>5, <3>1
    <3>3. SavedRole' = r
      BY <1>1 DEF r, SavedRole
    <3> QED
      BY <1>1, <1>6, <3>1, <3>2, <3>3 DEF RoleUnderWay
  <2> QED
    BY <1>1, <2>1, <2>2 DEF SavedSoFar
<1> QED
  BY <1>7, <1>8, <1>9, <1>10 DEF CkptInv

\* The barrier behind a role's shards.
LEMMA RoleSavedNext ==
    ASSUME CkptInv, RoleSaved
    PROVE  CkptInv'
<1> DEFINE r == SavedRole
           paths == savedPaths[r]
           longer == Append(paths, globalSteps)
<1>1. /\ phase = "dump" /\ Dumped /\ savedPaths' = [savedPaths EXCEPT ![r] = longer]
      /\ \/ saving < Len(Roles) /\ saving' = saving + 1 /\ phase' = "rotate"
         \/ ~(saving < Len(Roles)) /\ saving' = saving /\ phase' = "data"
      /\ UNCHANGED <<shards, dataPt, tracker, loopVars, dump, runs, committed>>
      /\ phase \in Saving /\ phase' \in Saving
  BY DEF RoleSaved, diskVars, historyVars, Saving
<1>2. /\ TypeOK /\ r \in RoleSet /\ saving \in DOMAIN Roles /\ paths \in Seq(Steps)
      /\ globalSteps \in Steps /\ committed.step < globalSteps /\ committed.step \in Nat
      /\ PathsOfRole(saving)
  BY <1>1, SaveFacts
<1>3. /\ MaxCkptToKeep[r] > 0 => Len(paths) < MaxCkptToKeep[r]
      /\ \A k \in Ranks : shards[globalSteps][r][k] = Whole(weights[r][k])
  BY <1>1 DEF CkptInv, SavedSoFar, RoleUnderWay, Dumped
<1>4. /\ longer \in Seq(Steps) /\ Len(longer) = Len(paths) + 1 /\ Len(paths) \in Nat
      /\ DOMAIN paths = 1..Len(paths) /\ DOMAIN longer = 1..(Len(paths) + 1)
      /\ \A j \in DOMAIN paths : longer[j] = paths[j]
      /\ longer[Len(paths) + 1] = globalSteps
  BY <1>2, AppendProperties, LenProperties
<1> HIDE DEF r, longer
<1>5. /\ savedPaths' \in [RoleSet -> Seq(Steps)]
      /\ \A s \in RoleSet : savedPaths'[s] = IF s = r THEN longer ELSE savedPaths[s]
  BY <1>1, <1>2, <1>4 DEF TypeOK
<1>6. UNCHANGED <<globalSteps, fetched, left, epochsLeft, weights>>
  BY <1>1 DEF loopVars
<1>7. TypeOK'
  <2>1. \A s \in RoleSet : MaxCkptToKeep[s] > 0 => Len(savedPaths'[s]) <= MaxCkptToKeep[s]
    <3>1. MaxCkptToKeep[r] > 0 => Len(longer) <= MaxCkptToKeep[r]
      BY <1>2, <1>3, <1>4, KeepType
    <3> QED
      BY <1>2, <1>5, <3>1 DEF TypeOK
  <2>2. saving' \in DOMAIN Roles /\ phase' \in Phases
    BY <1>1, <1>2, RoleFacts DEF Phases, Running
  <2> QED
    BY <1>1, <1>2, <1>5, <1>6, <2>1, <2>2 DEF TypeOK
<1>8. Counters' /\ Trained' /\ EndsOnASavedStep'
  BY <1>1, SaveFrame
<1>9. Intact'
  BY <1>1 DEF CkptInv, Intact
<1>10. SavedSoFar'
  <2>1. \A j \in DOMAIN Roles : /\ IsSaved(j) <=> j < saving
                                /\ IsSaved(j)' <=> j <= saving
    BY <1>1, <1>2, RoleFacts DEF IsSaved
  <2>2. ASSUME NEW j \in DOMAIN Roles
        PROVE  PathsOfRole(j)' /\ ShardsOfRole(j)'
    <3>1. PathsOfRole(j) /\ ShardsOfRole(j) /\ Roles[j] \in RoleSet /\ j \in Nat /\ saving \in Nat
      BY <1>2, RoleFacts DEF CkptInv, SavedSoFar
    <3>2. Roles[j] = r <=> j = saving
      BY <1>2, RoleFacts DEF r, SavedRole
    <3>3. CASE j # saving
      <4>1. savedPaths'[Roles[j]] = savedPaths[Roles[j]] /\ (IsSaved(j)' <=> IsSaved(j))
        BY <1>5, <2>1, <3>1, <3>2, <3>3
      <4>2. committed' = committed /\ shards' = shards
        BY <1>1
      <4> QED
        BY <1>6, <3>1, <4>1, <4>2 DEF PathsOfRole, ShardsOfRole
    <3>4. CASE j = saving
      <4>1. savedPaths'[Roles[j]] = longer /\ IsSaved(j)' /\ ~IsSaved(j) /\ Roles[j] = r
        BY <1>5, <2>1, <3>1, <3>2, <3>4
      <4>2. committed' = committed /\ shards' = shards
        BY <1>1
      <4>3. /\ \A x, y \in DOMAIN paths : x < y => paths[x] < paths[y]
            /\ \A x \in DOMAIN paths : paths[x] <= committed.step
        BY <3>1, <4>1 DEF PathsOfRole
      <4>4. \A x \in DOMAIN longer :
                \/ x \in DOMAIN paths /\ longer[x] = paths[x] /\ x <= Len(paths)
                \/ x = Len(paths) + 1 /\ longer[x] = globalSteps
        BY <1>4
      <4>5. globalSteps \in Nat /\ \A x \in DOMAIN paths : paths[x] \in Nat /\ paths[x] < globalSteps
        <5>1. \A x \in DOMAIN paths : paths[x] \in Steps
          BY <1>2, <1>4, ElementOfSeq
        <5> QED
          BY <1>2, <4>3, <5>1, StepArithmetic
      <4>6. \A x, y \in DOMAIN longer : x < y => longer[x] < longer[y]
        <5>1. ASSUME NEW x \in DOMAIN longer, NEW y \in DOMAIN longer, x < y
              PROVE  longer[x] < longer[y]
          <6>1. x \in DOMAIN paths /\ longer[x] = paths[x] /\ x \in Nat /\ y \in Nat
            BY <1>4, <5>1
          <6>2. CASE y \in DOMAIN paths
            BY <1>4, <4>3, <5>1, <6>1, <6>2
          <6>3. CASE y \notin DOMAIN paths
            BY <4>4, <4>5, <6>1, <6>3
          <6> QED
            BY <6>2, <6>3
        <5> QED
          BY <5>1
      <4>7. \A x \in DOMAIN longer : longer[x] <= committed.step \/ longer[x] = globalSteps
        BY <4>3, <4>4
      <4>8. PathsOfRole(j)'
        BY <1>6, <4>1, <4>2, <4>6, <4>7 DEF PathsOfRole
      <4>9. ShardsOfRole(j)'
        BY <1>3, <1>6, <4>1, <4>2 DEF ShardsOfRole, r
      <4> QED
        BY <4>8, <4>9
    <3> QED
      BY <3>3, <3>4
  <2>3. RoleUnderWay' /\ phase' \notin {"track", "trackOpen"}
    BY <1>1 DEF RoleUnderWay
  <2> QED
    BY <2>2, <2>3 DEF SavedSoFar
<1> QED
  BY <1>7, <1>8, <1>9, <1>10 DEF CkptInv
\* The position of the data loader, and emptying the tracker.
LEMMA CompleteNext ==
    ASSUME CkptInv, OpenData \/ WriteData \/ OpenTracker
    PROVE  CkptInv'
<1>1. /\ phase \in {"data", "dataOpen", "track"} /\ phase \in Saving
      /\ phase' \in {"dataOpen", "track", "trackOpen"} /\ phase' \in Saving
      /\ UNCHANGED <<shards, loopVars, saving, dump, savedPaths, runs, committed>>
      /\ phase' = "track" => dataPt' = [dataPt EXCEPT ![globalSteps] = Whole(fetched)]
      /\ phase' = "trackOpen" => phase = "track" /\ dataPt' = dataPt /\ tracker' = Torn(0)
      /\ phase' # "trackOpen" => tracker' = tracker
      /\ phase' = "dataOpen" => dataPt' = [dataPt EXCEPT ![globalSteps] = Torn(0)]
  BY DEF OpenData, WriteData, OpenTracker, Saving, saveVars, historyVars
<1>2. /\ TypeOK /\ globalSteps \in Steps /\ fetched = globalSteps
      /\ committed.step < globalSteps /\ committed.step \in Nat
      /\ UNCHANGED <<globalSteps, fetched, left, epochsLeft, weights>>
  BY <1>1, SaveFacts DEF loopVars
<1>3. /\ dataPt' \in [Steps -> Files(0..LastStep)]
      /\ \A m \in Steps : m # globalSteps => dataPt'[m] = dataPt[m]
      /\ phase' = "track" => dataPt'[globalSteps] = Whole(fetched)
  <2>1. Torn(0) \in Files(0..LastStep) /\ Whole(fetched) \in Files(0..LastStep)
    <3>1. 0 \in 0..LastStep /\ fetched \in 0..LastStep
      BY <1>2, StepArithmetic DEF TypeOK, LastStep
    <3> QED
      BY <3>1, FileFacts
  <2>2. dataPt \in [Steps -> Files(0..LastStep)]
    BY <1>2 DEF TypeOK, LastStep
  <2> QED
    BY <1>1, <1>2, <2>1, <2>2
<1>4. tracker' \in Files(0..LastStep)
  <2>1. 0 \in 0..LastStep
    BY StepArithmetic
  <2>2. Torn(0) \in Files(0..LastStep)
    BY <2>1, FileFacts
  <2> QED
    BY <1>1, <1>2, <2>2 DEF TypeOK, LastStep
<1>5. TypeOK'
  <2>1. phase' \in Phases
    BY <1>1 DEF Phases, Running
  <2> QED
    BY <1>1, <1>2, <1>3, <1>4, <2>1 DEF TypeOK, LastStep
<1>6. Counters' /\ Trained' /\ EndsOnASavedStep'
  BY <1>1, SaveFrame
<1>7. Intact'
  <2>1. CASE phase' = "trackOpen"
    <3>1. tracker'.is = "torn"
      BY <1>1, <2>1 DEF Torn
    <3> QED
      BY <2>1, <3>1 DEF Intact
  <2>2. CASE phase' # "trackOpen"
    <3>1. globalSteps # committed.step /\ tracker.is # "torn"
      BY <1>1, <1>2, StepArithmetic DEF CkptInv, Intact
    <3> QED
      BY <1>1, <1>2, <1>3, <2>2, <3>1, IntactFrame
  <2> QED
    BY <2>1, <2>2
<1>8. SavedSoFar'
  <2>1. \A j \in DOMAIN Roles : PathsOfRole(j)' /\ ShardsOfRole(j)'
    BY <1>1, <1>2 DEF CkptInv, SavedSoFar, PathsOfRole, ShardsOfRole, IsSaved
  <2>2. phase' \in {"track", "trackOpen"} => dataPt'[globalSteps'] = Whole(fetched')
    BY <1>1, <1>2, <1>3 DEF CkptInv, SavedSoFar
  <2>3. RoleUnderWay'
    BY <1>1 DEF RoleUnderWay
  <2> QED
    BY <2>1, <2>2, <2>3 DEF SavedSoFar
<1> QED
  BY <1>5, <1>6, <1>7, <1>8 DEF CkptInv

\* With the tracker written the checkpoint is the one a restart would find.
LEMMA WriteTrackerNext ==
    ASSUME CkptInv, WriteTracker
    PROVE  CkptInv'
<1>1. /\ phase = "trackOpen" /\ phase' = "saved" /\ phase \in Saving
      /\ tracker' = Whole(globalSteps)
      /\ committed' = [step |-> globalSteps, weights |-> weights, fetched |-> fetched]
      /\ UNCHANGED <<shards, dataPt, loopVars, saving, dump, savedPaths, runs>>
  BY DEF WriteTracker, Saving, saveVars
<1>2. /\ TypeOK /\ CountersOfTheJob /\ globalSteps \in Steps /\ fetched = globalSteps
      /\ committed.step < globalSteps /\ committed.step \in Nat
      /\ UNCHANGED <<globalSteps, fetched, left, epochsLeft, weights>>
  BY <1>1, SaveFacts DEF loopVars
<1>3. globalSteps \in Nat \ {0} /\ globalSteps \in 0..LastStep /\ runs \in 0..MaxRuns
  BY <1>2, StepArithmetic DEF TypeOK, LastStep
<1>4. /\ committed'.step = globalSteps /\ committed'.weights = weights
      /\ committed'.fetched = fetched
      /\ tracker'.is = "whole" /\ tracker'.holds = globalSteps
  BY <1>1 DEF Whole
<1>5. TypeOK'
  <2>1. tracker' \in Files(0..LastStep)
    BY <1>1, <1>3, FileFacts
  <2>2. committed' \in [step : 0..LastStep, weights : WeightsType, fetched : 0..LastStep]
    BY <1>1, <1>2, <1>3 DEF TypeOK
  <2>3. phase' \in Phases
    BY <1>1 DEF Phases, Running
  <2> QED
    BY <1>1, <1>2, <2>1, <2>2, <2>3 DEF TypeOK, LastStep
<1>6. Done = globalSteps /\ Done' = globalSteps
  BY <1>1, <1>2 DEF Done
<1>7. Counters'
  <2>1. CountersOfTheJob'
    BY <1>1, <1>2, <1>4, <1>6 DEF CountersOfTheJob
  <2> QED
    BY <1>1, <1>2, <1>4, <2>1 DEF Counters, CountersOfTheJob
<1>8. Trained'
  <2>1. TrainedFor(weights, globalSteps)
    BY <1>1, <1>6, PhaseFacts DEF Running
  <2>2. TrainedFor(weights', Done') /\ TrainedFor(committed'.weights, committed'.step)
    BY <1>2, <1>4, <1>6, <2>1
  <2>3. TrainedFor(weights, Done)' /\ TrainedFor(committed.weights, committed.step)'
    BY <2>2 DEF TrainedFor
  <2> QED
    BY <1>2, <1>4, <2>3 DEF Trained
<1>9. \A i \in DOMAIN Roles : IsSaved(i) /\ ~IsSaved(i)'
  BY <1>1 DEF IsSaved
<1>10. Intact'
  <2>1. dataPt'[globalSteps] = Whole(fetched)
    BY <1>1 DEF CkptInv, SavedSoFar
  <2>2. \A r \in RoleSet, k \in Ranks : shards'[globalSteps][r][k] = Whole(weights[r][k])
    <3>1. \A i \in DOMAIN Roles, k \in Ranks :
              shards[globalSteps][Roles[i]][k] = Whole(weights[Roles[i]][k])
      BY <1>9 DEF CkptInv, SavedSoFar, ShardsOfRole
    <3>2. ASSUME NEW r \in RoleSet, NEW k \in Ranks
          PROVE  shards'[globalSteps][r][k] = Whole(weights[r][k])
      <4>1. PICK i \in DOMAIN Roles : r = Roles[i]
        BY RoleFacts
      <4>2. shards[globalSteps][r][k] = Whole(weights[r][k])
        BY <3>1, <4>1
      <4> QED
        BY <1>1, <4>2
    <3> QED
      BY <3>2
  <2> QED
    BY <1>3, <1>4, <2>1, <2>2 DEF Intact
<1>11. SavedSoFar'
  <2>1. ASSUME NEW i \in DOMAIN Roles
        PROVE  PathsOfRole(i)' /\ ShardsOfRole(i)'
    <3>1. PathsOfRole(i) /\ savedPaths[Roles[i]] \in Seq(Steps)
      BY <1>2, RoleFacts DEF CkptInv, SavedSoFar, TypeOK
    <3>2. \A j \in DOMAIN savedPaths[Roles[i]] : savedPaths[Roles[i]][j] \in Nat
      BY <3>1, ElementOfSeq, LenProperties, StepArithmetic
    <3>3. \A j \in DOMAIN savedPaths[Roles[i]] : savedPaths[Roles[i]][j] <= globalSteps
      BY <1>2, <1>3, <3>1, <3>2 DEF PathsOfRole
    <3>4. PathsOfRole(i)'
      BY <1>1, <1>4, <3>1, <3>3 DEF PathsOfRole
    <3> QED
      BY <1>9, <3>4 DEF ShardsOfRole
  <2> QED
    BY <1>1, <2>1 DEF SavedSoFar, RoleUnderWay
<1>12. EndsOnASavedStep'
  BY <1>1 DEF EndsOnASavedStep
<1> QED
  BY <1>5, <1>7, <1>8, <1>10, <1>11, <1>12 DEF CkptInv

-----------------------------------------------------------------------------
(* The invariant, and what follows from it.                                *)

LEMMA CkptNext ==
    ASSUME CkptInv, [Next]_vars
    PROVE  CkptInv'
<1>1. CASE UNCHANGED vars
  BY <1>1 DEF CkptInv, TypeOK, Counters, CountersOfTheJob, Trained, TrainedFor, Intact, SavedSoFar,
              PathsOfRole, ShardsOfRole, RoleUnderWay, IsSaved, SavedRole, EndsOnASavedStep, Up, Done,
              vars, diskVars, loopVars, saveVars, historyVars
<1>2. CASE Next
  BY <1>2, StartNext, LoopNext, CrashNext, RemoveShardNext, RotatedNext, DumpNext, RoleSavedNext,
     CompleteNext, WriteTrackerNext DEF Next, Save
<1> QED
  BY <1>1, <1>2

LEMMA CkptInitially == Init => CkptInv
<1> SUFFICES ASSUME Init PROVE CkptInv
  OBVIOUS
<1>1. TypeOK
  <2>1. /\ Missing(<<>>) \in Files(Seq(Updates)) /\ 0 \in 0..LastStep
        /\ Missing(0) \in Files(0..LastStep) /\ runs \in 0..MaxRuns
    <3>1. 0 \in 0..LastStep /\ runs \in 0..MaxRuns
      BY StepArithmetic DEF Init
    <3> QED
      BY <3>1, EmptySeq, FileFacts
  <2>2. /\ shards \in [Steps -> [RoleSet -> [Ranks -> Files(Seq(Updates))]]]
        /\ dataPt \in [Steps -> Files(0..LastStep)] /\ tracker \in Files(0..LastStep)
    BY <2>1 DEF Init
  <2>3. /\ weights \in WeightsType /\ saving \in DOMAIN Roles
        /\ dump \in [Ranks -> {"idle", "writing", "done"}]
        /\ savedPaths \in [RoleSet -> Seq(Steps)] /\ phase \in Phases
    BY UntrainedType, RoleFacts DEF Init, Phases
  <2>4. \A r \in RoleSet : MaxCkptToKeep[r] > 0 => Len(savedPaths[r]) <= MaxCkptToKeep[r]
    <3>1. \A r \in RoleSet : Len(savedPaths[r]) = 0
      BY UntrainedType DEF Init
    <3> QED
      BY <3>1, KeepType
  <2>5. /\ globalSteps \in 0..LastStep /\ fetched \in 0..LastStep
        /\ left \in 0..BatchesPerEpoch /\ epochsLeft \in 0..TotalEpochs
    BY <2>1, TrainerAssumption DEF Init
  <2>6. committed \in [step : 0..LastStep, weights : WeightsType, fetched : 0..LastStep]
    BY <2>1, UntrainedType DEF Init
  <2> QED
    BY <2>1, <2>2, <2>3, <2>4, <2>5, <2>6 DEF TypeOK, LastStep
<1>2. ~Up /\ committed = Nothing /\ tracker.is = "missing" /\ phase = "down"
  BY DEF Init, Up, Running, Nothing, Missing
<1>3. Counters /\ Intact /\ EndsOnASavedStep
  BY <1>2, StepArithmetic DEF Init, Counters, Intact, EndsOnASavedStep, Nothing
<1>4. Trained
  <2>1. TrainedFor(Untrained, 0)
    <3>1. \A r \in RoleSet, k \in Ranks : Untrained[r][k] = <<>>
      BY DEF Untrained
    <3>2. \A r \in RoleSet : StepsOf(r, 0) = 0
      BY StepArithmetic DEF StepsOf
    <3>3. Len(<<>>) = 0 /\ DOMAIN <<>> = {}
      OBVIOUS
    <3>4. \A r \in RoleSet, k \in Ranks :
              /\ Len(Untrained[r][k]) = 0 /\ DOMAIN Untrained[r][k] = {}
              /\ \A l \in Ranks : Untrained[r][l] = Untrained[r][k]
      BY <3>1, <3>3
    <3> QED
      BY <3>2, <3>4 DEF TrainedFor
  <2> QED
    BY <1>2, <2>1 DEF Trained, Nothing
<1>5. SavedSoFar
  <2>1. \A i \in DOMAIN Roles : DOMAIN savedPaths[Roles[i]] = {} /\ ~IsSaved(i)
    BY <1>2, RoleFacts DEF Init, IsSaved
  <2> QED
    BY <1>2, <2>1 DEF SavedSoFar, PathsOfRole, ShardsOfRole, RoleUnderWay
<1> QED
  BY <1>1, <1>3, <1>4, <1>5 DEF CkptInv

\* What is on disk, in memory and in the counters fits together at any moment
\* of any save, for any number of ranks, roles, steps and restarts.
THEOREM CheckpointInvariant == Spec => []CkptInv
BY CkptInitially, CkptNext, PTL DEF Spec

\* The types, and with them that no list of checkpoints outgrows its limit and
\* that no step counter runs further than one step per run beyond the last.
THEOREM CheckpointTypes == Spec => []TypeOK
<1>1. CkptInv => TypeOK
  BY DEF CkptInv
<1> QED
  BY <1>1, CheckpointInvariant, PTL

\* Wherever in a save the job was killed, and however often: every rank's
\* weights were trained on every batch once and in order.
THEOREM NoBatchIsLostOrRepeated == Spec => []EachBatchOnce
<1>1. CkptInv => EachBatchOnce
  BY PhaseFacts DEF EachBatchOnce, CountersOfTheJob, TrainedFor, StepsOf, DoneBy
<1> QED
  BY <1>1, CheckpointInvariant, PTL

\* When fit returns, its last step is what a restart would find, or there were
\* fewer batches in all its epochs than steps to train.
THEOREM FitEndsOnASavedStep == Spec => []EndsOnASavedStep
<1>1. CkptInv => EndsOnASavedStep
  BY DEF CkptInv
<1> QED
  BY <1>1, CheckpointInvariant, PTL
-----------------------------------------------------------------------------
(***************************************************************************)
(* The refinement.  With more than one checkpoint kept, or with all of     *)
(* them, what a restart would find is at any moment the checkpoint that    *)
(* was completed last; writing the tracker commits the job's progress, and *)
(* every other step of a save leaves it alone.                             *)
(***************************************************************************)

\* Each role keeps two, or more, or all of them.
KeepsMoreThanOne == \A r \in RoleSet : MaxCkptToKeep[r] # 1

LEMMA DurableIsWhatWasCommitted ==
    KeepsMoreThanOne /\ CkptInv => Durable = Progress(committed.weights, committed.fetched)
<1> SUFFICES ASSUME KeepsMoreThanOne, CkptInv
             PROVE  Durable = Progress(committed.weights, committed.fetched)
  OBVIOUS
<1>1. tracker.is \in {"missing", "torn", "whole"} /\ committed.weights \in WeightsType
  BY DEF CkptInv, TypeOK, Files
<1>2. CASE tracker.is = "torn"
  BY <1>2 DEF Durable
<1>3. CASE tracker.is = "missing"
  BY <1>3 DEF Durable, TrackedProgress, CkptInv, Intact, Nothing
<1>4. CASE tracker.is = "whole"
  <2> DEFINE n == tracker.holds
             w == committed.weights
             found == [r \in RoleSet |-> [k \in Ranks |-> shards[n][r][k].holds]]
  <2>1. /\ n = committed.step /\ dataPt[committed.step] = Whole(committed.fetched)
        /\ \A r \in RoleSet, k \in Ranks : shards[committed.step][r][k] = Whole(w[r][k])
    <3>1. Intact
      BY DEF CkptInv
    <3> QED
      BY <1>4, <3>1 DEF Intact, KeepsMoreThanOne
  <2>0. \A v : Whole(v).holds = v
    BY DEF Whole
  <2>2. dataPt[n].holds = committed.fetched
    BY <2>0, <2>1
  <2>3. \A r \in RoleSet, k \in Ranks : shards[n][r][k].holds = w[r][k]
    BY <2>0, <2>1
  <2>4. found = w
    <3>1. w = [r \in RoleSet |-> w[r]] /\ \A r \in RoleSet : w[r] = [k \in Ranks |-> w[r][k]]
      BY <1>1 DEF WeightsType
    <3>2. \A r \in RoleSet : [k \in Ranks |-> shards[n][r][k].holds] = w[r]
      BY <2>3, <3>1
    <3> QED
      BY <3>1, <3>2
  <2>5. Durable = Progress(found, dataPt[n].holds)
    BY <1>4 DEF Durable, TrackedProgress
  <2> QED
    BY <2>2, <2>4, <2>5
<1> QED
  BY <1>1, <1>2, <1>3, <1>4

LEMMA AJobIsNoJobWhenDown == \A w, d : Progress(w, d) # NoJob
<1>1. \A w, d : Progress(w, d).up = TRUE
  BY DEF Progress
<1>2. NoJob.up = FALSE
  BY DEF NoJob
<1> QED
  BY <1>1, <1>2

LEMMA CheckpointStep ==
    ASSUME CkptInv, CkptInv', KeepsMoreThanOne, [Next]_vars
    PROVE  [Checkpoint!CheckpointNext]_(Checkpoint!checkpointVars)
<1> USE DEF Checkpoint!CheckpointNext, Checkpoint!checkpointVars, Checkpoint!Resume,
            Checkpoint!Advance, Checkpoint!Commit, Checkpoint!Stop
<1>0. /\ Durable = Progress(committed.weights, committed.fetched)
      /\ (Durable = Progress(committed.weights, committed.fetched))'
  BY DurableIsWhatWasCommitted, PTL
<1>1. /\ Durable = Progress(committed.weights, committed.fetched)
      /\ Durable' = Progress(committed'.weights, committed'.fetched)
  BY <1>0
<1>2. committed' = committed => Durable' = Durable
  BY <1>1
<1>3. Up => Live = Progress(weights, fetched) /\ Live # NoJob
  BY AJobIsNoJobWhenDown DEF Live
<1>4. Up' => Live' = Progress(weights', fetched') /\ Live' # NoJob
  BY AJobIsNoJobWhenDown DEF Live
<1>5. CASE UNCHANGED vars
  <2>1. Live' = Live
    BY <1>5 DEF Live, Up, vars, loopVars
  <2>2. Durable' = Durable
    BY <1>2, <1>5 DEF vars, historyVars
  <2> QED
    BY <2>1, <2>2
<1>6. CASE Start
  <2>1. committed' = committed /\ Live = NoJob
    BY <1>6 DEF Start, Live, Up, Running
  <2>2. CASE StartFails
    <3>1. Live' = NoJob
      BY <2>2 DEF StartFails, Live, Up, Running
    <3> QED
      BY <1>2, <2>1, <3>1
  <2>3. CASE StartFromScratch \/ StartFromCheckpoint
    <3>1. BeginTraining(committed.step, committed.weights, committed.fetched)
      BY <2>3, StartsWhereItWasCommitted
    <3>2. Live' = Progress(committed.weights, committed.fetched)
      BY <1>4, <3>1 DEF BeginTraining, Up, Running
    <3> QED
      BY <1>1, <1>2, <2>1, <3>2
  <2> QED
    BY <1>6, <2>2, <2>3 DEF Start
<1>7. CASE Crash
  <2>1. committed' = committed /\ Live' = NoJob
    BY <1>7 DEF Crash, historyVars, Live, Up, Running
  <2> QED
    BY <1>2, <2>1
<1>8. CASE Loop
  <2>1. committed' = committed /\ phase \in Running /\ phase' \in Running \cup {"finished"}
    BY <1>8 DEF Loop, NextBatch, NextEpoch, EpochsUsedUp, Train, BeginSave, StepEnds, Running,
                historyVars
  <2> QED
    BY <1>2, <1>3, <1>4, <2>1 DEF Up
<1>9. CASE WriteTracker
  <2>1. /\ committed'.weights = weights /\ committed'.fetched = fetched
        /\ weights' = weights /\ fetched' = fetched /\ Up /\ Up'
    BY <1>9 DEF WriteTracker, loopVars, Up, Running
  <2> QED
    BY <1>1, <1>3, <1>4, <2>1
<1>10. CASE Save /\ ~WriteTracker
  <2>1. committed' = committed /\ phase \in Running /\ phase' \in Running
    BY <1>10 DEF Save, RemoveShard, Rotated, OpenShard, WriteShard, RoleSaved, OpenData, WriteData,
                 OpenTracker, Running, historyVars
  <2> QED
    BY <1>2, <1>3, <1>4, <2>1 DEF Up
<1> QED
  BY <1>5, <1>6, <1>7, <1>8, <1>9, <1>10 DEF Next

\* To whoever restarts the job each checkpoint was taken at one instant, when
\* the tracker was written, if more than one checkpoint is kept.
THEOREM CheckpointsAreAtomic ==
    ASSUME KeepsMoreThanOne
    PROVE  Spec => ImplementsAtomicCheckpoint
<1>1. Init => Checkpoint!CheckpointInit
  <2> SUFFICES ASSUME Init PROVE Live = NoJob /\ Durable = Progress(Untrained, 0)
    BY DEF Checkpoint!CheckpointInit
  <2>1. phase = "down" /\ tracker.is = "missing"
    BY DEF Init, Missing
  <2> QED
    BY <2>1 DEF Live, Up, Running, Durable, TrackedProgress
<1>2. CkptInv /\ CkptInv' /\ [Next]_vars => [Checkpoint!CheckpointNext]_(Checkpoint!checkpointVars)
  BY CheckpointStep
<1> QED
  BY <1>1, <1>2, CheckpointInvariant, PTL
     DEF Spec, ImplementsAtomicCheckpoint, Checkpoint!CheckpointSpec

\* With more than one checkpoint kept the tracker never names an incomplete one.
THEOREM ACompletedCheckpointRemains ==
    ASSUME KeepsMoreThanOne
    PROVE  Spec => []CompletedCheckpointRemains
<1>1. CkptInv => CompletedCheckpointRemains
  <2> SUFFICES ASSUME CkptInv, tracker.is = "whole"
               PROVE  Loads(tracker.holds)
    BY DEF CompletedCheckpointRemains
  <2>1. \A v : Whole(v).is = "whole"
    BY DEF Whole
  <2>2. Intact
    BY DEF CkptInv
  <2>3. /\ tracker.holds = committed.step /\ dataPt[committed.step] = Whole(committed.fetched)
        /\ \A r \in RoleSet, k \in Ranks :
              shards[committed.step][r][k] = Whole(committed.weights[r][k])
    BY <2>2 DEF Intact, KeepsMoreThanOne
  <2> QED
    BY <2>1, <2>3 DEF Loads, ShardsLoad
<1> QED
  BY <1>1, CheckpointInvariant, PTL
=============================================================================

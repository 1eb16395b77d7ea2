--------------------------- MODULE RewardQualityGate ---------------------------
(***************************************************************************)
(* One call of ROPDRewardManager                                           *)
(* (easyopd/methods/ropd/reward_manager.py): evaluate every pair, then run *)
(* the quality gate.  The gate retries failed pairs in two nested loops:   *)
(* rounds while the failure rate is too high, and step attempts, after a   *)
(* back-off, while too few groups are effective.  It ends with the mask of *)
(* the samples that may be trained on and the verdict to stop.  The trainer*)
(* of this repository reads neither: compute_reward passes on only the     *)
(* rewards and the extra information.                                      *)
(*                                                                         *)
(* The module adds the gate to RopdPipeline: while phase is "evaluating"   *)
(* the pipeline's threads run; when all have returned, the results are     *)
(* applied to the records in one step, for the thread pool's map yields    *)
(* them only then and a single thread applies them.                        *)
(*                                                                         *)
(* Rates are compared as integer products.  The back-off only takes time   *)
(* and is left out; so are the histories of rates and the metrics, and the *)
(* disabled gate, which lets every pair through as it is.                  *)
(***************************************************************************)
EXTENDS RopdPipeline, Functions

CONSTANTS
    RateUnit,               \* rates are in 1/RateUnit: 3 of 32 is 3.0 / 32.0
    MaxFallbackRate,        \* max_fallback_rate
    MaxRetryRounds,         \* max_retry_rounds
    MaxStepAttempts,        \* max_step_judge_retry_attempts
    MinGroupSize,           \* min_group_size_after_exclusion
    MaxDropped,             \* max_dropped_pairs_per_group
    MinEffectiveRate        \* min_effective_group_rate

ASSUME GateAssumption ==
    /\ RateUnit \in Nat \ {0}
    /\ MaxFallbackRate \in 0..RateUnit
    /\ MaxRetryRounds \in Nat
    /\ MaxStepAttempts \in Nat \ {0}
    /\ MinGroupSize \in Nat \ {0}
    /\ MaxDropped \in Nat
    /\ MinEffectiveRate \in 0..RateUnit

VARIABLES
    phase,          \* "evaluating", "deciding" or, after the return, "done"
    round,          \* what is evaluated: the batch, a step retry or a local one
    status,         \* final_status of each pair's record
    result,         \* the result in the record
    retryCount,     \* retry_count of the record
    stepAttempt,    \* step_retry_attempt
    localRounds,    \* local_retry_round_count
    retriedPairs,   \* retried_pair_count
    updateMask,     \* the pairs whose samples update_mask lets through
    stop            \* quality_gate_stop

gateVars == <<phase, round, status, result, retryCount, stepAttempt, localRounds,
              retriedPairs, updateMask, stop>>
vars == <<pipelineVars, gateVars>>

Statuses == {"none", "success", "retryable_failure", "terminal_failure"}

TypeOK ==
    /\ PipelineTypeOK
    /\ phase \in {"evaluating", "deciding", "done"}
    /\ round \in {"initial", "step", "local"}
    /\ status \in [Pairs -> Statuses]
    /\ result \in [Pairs -> Results \cup {"none"}]
    /\ retryCount \in [Pairs -> Nat]
    /\ stepAttempt \in 1..MaxStepAttempts
    /\ localRounds \in 0..MaxRetryRounds
    /\ retriedPairs \in Nat
    /\ updateMask \subseteq Pairs
    /\ stop \in BOOLEAN

Init ==
    /\ PipelineInit
    /\ phase = "evaluating" /\ round = "initial"
    /\ status = [p \in Pairs |-> "none"]
    /\ result = [p \in Pairs |-> "none"]
    /\ retryCount = [p \in Pairs |-> 0]
    /\ stepAttempt = 1 /\ localRounds = 0 /\ retriedPairs = 0
    /\ updateMask = {} /\ stop = FALSE

-----------------------------------------------------------------------------
(***************************************************************************)
(* What the gate computes from the records.                                *)
(***************************************************************************)
Succeeded == {p \in Pairs : status[p] = "success"}
FailureRateTooHigh ==
    RateUnit * Cardinality(Pairs \ Succeeded) > MaxFallbackRate * Cardinality(Pairs)

StepRetryable(class) == class \in {"transient", "circuit_open"}
RoundRetryable(class) == class = "transient"

StepCandidates ==
    {p \in Pairs : status[p] = "retryable_failure" /\ StepRetryable(result[p])}

\* Mutant: all pairs of a group in which one may be retried.
RoundCandidatesByGroup ==
    {p \in Pairs : \E q \in PairsOf(GroupOf(p)) :
                       status[q] = "retryable_failure" /\ RoundRetryable(result[q])}

RoundCandidates ==
    {p \in Pairs : status[p] = "retryable_failure" /\ RoundRetryable(result[p])}

\* Mutant: failures that may be retried are not dropped yet.
EffectiveWithRetryable(g) ==
    /\ Cardinality({p \in PairsOf(g) : status[p] = "terminal_failure"}) <= MaxDropped
    /\ Cardinality(PairsOf(g) \cap Succeeded) >= MinGroupSize

\* Not excluded by _build_update_mask.
Effective(g) ==
    /\ Cardinality(PairsOf(g) \ Succeeded) <= MaxDropped
    /\ Cardinality(PairsOf(g) \cap Succeeded) >= MinGroupSize

EffectiveGroups == {g \in Groups : Effective(g)}
UpdateMask == {p \in Succeeded : Effective(GroupOf(p))}
EnoughGroups ==
    RateUnit * Cardinality(EffectiveGroups) >= MinEffectiveRate * Cardinality(Groups)

\* Mutants: the last attempt is not made; one too many is made.
AttemptsLeftTooFew == stepAttempt + 1 < MaxStepAttempts
AttemptsLeftTooMany == stepAttempt <= MaxStepAttempts
AttemptsLeft == stepAttempt < MaxStepAttempts

-----------------------------------------------------------------------------
(***************************************************************************)
(* The results of a round reach the records: _apply_pair_result for each   *)
(* evaluated pair, with increment_retry except for the initial evaluation. *)
(***************************************************************************)
StatusAfter(class) ==
    IF class = "scored" THEN "success"
    ELSE IF StepRetryable(class) THEN "retryable_failure" ELSE "terminal_failure"

Recorded ==
    /\ status' = [p \in Pairs |->
                     IF p \in selected THEN StatusAfter(evaluated[p]) ELSE status[p]]
    /\ result' = [p \in Pairs |-> IF p \in selected THEN evaluated[p] ELSE result[p]]

InitialResults ==
    /\ phase = "evaluating" /\ round = "initial" /\ Evaluated
    /\ phase' = "deciding"
    /\ Recorded
    /\ UNCHANGED <<pipelineVars, round, retryCount, stepAttempt, localRounds,
                   retriedPairs, updateMask, stop>>

\* Mutants: a round that is not counted; a ledger of the repaired pairs only.
LocalRoundsUncounted == localRounds
RepairedPairs == {p \in selected : evaluated[p] = "scored"}

LocalRoundsAfter == IF round = "local" THEN localRounds + 1 ELSE localRounds
RetriedNow == selected

RetryResults ==
    /\ phase = "evaluating" /\ round # "initial" /\ Evaluated
    /\ phase' = "deciding"
    /\ Recorded
    /\ retryCount' = [p \in Pairs |-> IF p \in selected THEN retryCount[p] + 1 ELSE retryCount[p]]
    /\ retriedPairs' = retriedPairs + Cardinality(RetriedNow)
    /\ localRounds' = LocalRoundsAfter
    /\ UNCHANGED <<pipelineVars, round, stepAttempt, updateMask, stop>>

-----------------------------------------------------------------------------
(***************************************************************************)
(* The gate's decisions.                                                   *)
(***************************************************************************)
\* Mutant: a retry does not pass the teacher's response on.
NoResponses == [g \in Groups |-> 0]
\* teacher_responses: what each group's last evaluation has returned.
TeacherResponses == teacher

AnotherRound ==
    /\ FailureRateTooHigh
    /\ localRounds < MaxRetryRounds
    /\ RoundCandidates # {}

LocalRound ==
    /\ phase = "deciding"
    /\ AnotherRound
    /\ Evaluate(RoundCandidates, TeacherResponses)
    /\ phase' = "evaluating" /\ round' = "local"
    /\ UNCHANGED <<status, result, retryCount, stepAttempt, localRounds,
                   retriedPairs, updateMask, stop>>

AnotherAttempt ==
    /\ ~EnoughGroups
    /\ AttemptsLeft
    /\ StepCandidates # {}

\* _sleep_before_step_retry, and the next attempt starts with a round of its own.
StepRound ==
    /\ phase = "deciding"
    /\ ~AnotherRound /\ AnotherAttempt
    /\ stepAttempt' = stepAttempt + 1
    /\ localRounds' = 0
    /\ Evaluate(StepCandidates, TeacherResponses)
    /\ phase' = "evaluating" /\ round' = "step"
    /\ UNCHANGED <<status, result, retryCount, retriedPairs, updateMask, stop>>

Finish ==
    /\ phase = "deciding"
    /\ ~AnotherRound /\ ~AnotherAttempt
    /\ updateMask' = UpdateMask
    /\ stop' = ~EnoughGroups
    /\ status' = [p \in Pairs |-> IF status[p] = "retryable_failure" THEN "terminal_failure" ELSE status[p]]
    /\ phase' = "done"
    /\ UNCHANGED <<pipelineVars, round, result, retryCount, stepAttempt, localRounds, retriedPairs>>

GateStep ==
    \/ InitialResults \/ RetryResults
    \/ LocalRound \/ StepRound \/ Finish

\* The call has returned; any other state without a step is a deadlock.
Returned == phase = "done" /\ UNCHANGED vars

Next ==
    \/ phase = "evaluating" /\ PipelineStep /\ UNCHANGED gateVars
    \/ GateStep
    \/ Returned

Spec == Init /\ [][Next]_vars

-----------------------------------------------------------------------------
(***************************************************************************)
(* Properties.                                                             *)
(***************************************************************************)
\* A pair that succeeded is never evaluated again, and its score stays: a
\* retry must neither pay for it twice nor replace it by a fallback.
SuccessIsFinal ==
    [][\A p \in Pairs : status[p] = "success" =>
          status'[p] = "success" /\ scoredWith'[p] = scoredWith[p]]_vars

\* The scores of a group's pairs were all given against one teacher response,
\* in whichever round each of them was obtained: rewards within a group are
\* comparable.
OneTeacherPerGroup ==
    \A p, q \in Pairs :
        GroupOf(p) = GroupOf(q) /\ scoredWith[p] # 0 /\ scoredWith[q] # 0
            => scoredWith[p] = scoredWith[q]

\* However often a pair is retried after verifier errors, its rubric is
\* generated once: a retried pair is judged by the rubric of its first try.
RubricOnce == \A p \in Pairs : rubricCalls[p] <= 1

\* Between rounds retried_pair_count is the sum of the records' retry_counts:
\* the two ledgers, one kept by the gate and one per record, agree.
RetryLedger == phase # "evaluating" => retriedPairs = SumFunction(retryCount)

\* However the failures fall, no pair is retried more often than the two
\* nested budgets allow: a local round in every attempt, and the round that
\* starts each attempt after the first.
RetriesBounded ==
    \A p \in Pairs : retryCount[p] <= MaxStepAttempts * (MaxRetryRounds + 1) - 1

\* The verdict is about what the mask lets through: the mask holds scored
\* pairs only, whole groups of survivors, and the step goes on exactly when
\* the groups with a pair in the mask are enough.
MaskMatchesVerdict ==
    phase = "done" =>
        LET trained == {g \in Groups : PairsOf(g) \cap updateMask # {}} IN
        /\ \A p \in updateMask : result[p] = "scored" /\ scoredWith[p] # 0
        /\ \A g \in trained : PairsOf(g) \ updateMask \subseteq {p \in Pairs : result[p] # "scored"}
        /\ \A g \in trained : Cardinality(PairsOf(g) \ updateMask) <= MaxDropped
        /\ stop <=> RateUnit * Cardinality(trained) < MinEffectiveRate * Cardinality(Groups)

\* The verdict is to stop only after the last attempt, or when no failure is
\* one that another attempt could repair.
GivesUpLate ==
    phase = "done" /\ stop =>
        \/ stepAttempt = MaxStepAttempts
        \/ \A p \in Pairs : ~StepRetryable(result[p])
=============================================================================

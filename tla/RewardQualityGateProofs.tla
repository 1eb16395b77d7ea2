------------------------ MODULE RewardQualityGateProofs ------------------------
(***************************************************************************)
(* Proofs about RewardQualityGate, for any batch, any thresholds and any   *)
(* budgets of retries: the type invariant, that retries keep what earlier  *)
(* rounds have won, the bound on retries, and the gate's verdict.          *)
(***************************************************************************)
EXTENDS RewardQualityGate, FiniteSetTheorems, InductionFacts, TLAPS

\* A score was given against the response the group has now, or there is none.
ScoresCurrent == \A p \in Pairs : scoredWith[p] \in {0, teacher[GroupOf(p)]}

\* A rubric that was generated is in the cache, under the present response.
RubricsCurrent ==
    \A p \in Pairs :
        \/ rubricCalls[p] = 0
        \/ rubricCalls[p] = 1 /\ teacher[GroupOf(p)] # 0 /\ RubricKey(p) \in rubrics

\* What a score is worth: it was given against some response.
ScoresCount ==
    \A p \in Pairs : evaluated[p] = "scored" \/ result[p] = "scored" => scoredWith[p] # 0

\* The first evaluation is of all pairs and finds no records; a retry is of
\* failed pairs only.
SelectedFailed ==
    /\ phase = "evaluating" /\ round = "initial" =>
           selected = Pairs /\ \A p \in Pairs : status[p] = "none" /\ retryCount[p] = 0
    /\ phase = "evaluating" => \A p \in selected : status[p] # "success"

\* Once there are records, their status is that of their results; at the end
\* retryable failures have become terminal ones.
RecordsAgree ==
    /\ phase = "deciding" \/ (phase = "evaluating" /\ round # "initial") =>
           \A p \in Pairs : result[p] # "none" /\ status[p] = StatusAfter(result[p])
    /\ phase = "done" => \A p \in Pairs : status[p] = "success" <=> result[p] = "scored"

\* A local round has been started within the budget.
LocalRoundLeft ==
    phase = "evaluating" /\ round = "local" => localRounds < MaxRetryRounds

TypeInv == TypeOK /\ LocalRoundLeft

-----------------------------------------------------------------------------
\* A batch has finitely many pairs.
LEMMA PairsFinite == IsFiniteSet(Pairs)
  BY PipelineAssumption, FS_Product DEF Pairs

\* A pair is a pair of one of the groups.
LEMMA GroupOfType == \A p \in Pairs : GroupOf(p) \in Groups
  BY DEF Pairs, GroupOf

\* _apply_pair_result gives a record one of the final statuses.
LEMMA StatusAfterType == \A c \in Results : StatusAfter(c) \in Statuses
  BY DEF StatusAfter, Statuses

\* The pairs that a round evaluates are pairs.
LEMMA CandidatesType == StepCandidates \subseteq Pairs /\ RoundCandidates \subseteq Pairs
  BY DEF StepCandidates, RoundCandidates

\* The variables are of their types from the start ...
LEMMA TypeInit == Init => TypeInv
<1> SUFFICES ASSUME Init PROVE TypeInv
  OBVIOUS
<1>1. PipelineTypeOK
  BY DEF Init, PipelineInit, PipelineTypeOK
<1>2. stepAttempt \in 1..MaxStepAttempts /\ localRounds \in 0..MaxRetryRounds
  BY GateAssumption DEF Init
<1>3. QED
  BY <1>1, <1>2 DEF Init, TypeInv, TypeOK, LocalRoundLeft, Statuses

\* ... and every step keeps them so.
LEMMA TypeStep == TypeInv /\ [Next]_vars => TypeInv'
<1> SUFFICES ASSUME TypeInv, [Next]_vars PROVE TypeInv'
  OBVIOUS
<1> USE DEF TypeInv, LocalRoundLeft, TypeOK, PipelineTypeOK
<1>1. CASE phase = "evaluating" /\ PipelineStep /\ UNCHANGED gateVars
  <2> USE <1>1 DEF gateVars
  <2>1. CASE \E g \in Groups : TeacherAnswers(g)
    <3>1. PICK g \in Groups : TeacherAnswers(g)
      BY <2>1
    <3>2. teacherCalls' \in [Groups -> Nat] /\ teacher' \in [Groups -> Nat]
      BY <3>1 DEF TeacherAnswers
    <3>3. QED
      BY <3>1, <3>2 DEF TeacherAnswers
  <2>2. CASE \E g \in Groups : TeacherFails(g)
    BY <2>2, PipelineAssumption DEF TeacherFails, Results
  <2>3. CASE \E p \in Pairs : RubricGenerated(p)
    BY <2>3, GroupOfType DEF RubricGenerated, RubricKey
  <2>4. CASE \E p \in Pairs : RubricFails(p) \/ VerifierFails(p)
    BY <2>4, PipelineAssumption DEF RubricFails, VerifierFails, Yields, Results
  <2>5. CASE \E p \in Pairs : Scored(p)
    BY <2>5, GroupOfType DEF Scored, Yields, Results
  <2>6. QED
    BY <1>1, <2>1, <2>2, <2>3, <2>4, <2>5 DEF PipelineStep
<1>2. CASE InitialResults \/ RetryResults
  <2>1. UNCHANGED pipelineVars /\ phase' = "deciding" /\ Recorded /\ Evaluated
    BY <1>2 DEF InitialResults, RetryResults
  <2>2. status' \in [Pairs -> Statuses] /\ result' \in [Pairs -> Results \cup {"none"}]
    BY <2>1, StatusAfterType DEF Recorded, Evaluated
  <2>3. Cardinality(selected) \in Nat
    BY PairsFinite, FS_Subset, FS_CardinalityType
  <2>4. /\ retryCount' \in [Pairs -> Nat] /\ retriedPairs' \in Nat
        /\ round' \in {"initial", "step", "local"} /\ stepAttempt' \in 1..MaxStepAttempts
        /\ updateMask' \subseteq Pairs /\ stop' \in BOOLEAN
    BY <1>2, <2>3 DEF InitialResults, RetryResults, RetriedNow
  <2>5. localRounds' \in 0..MaxRetryRounds
    BY <1>2, GateAssumption DEF InitialResults, RetryResults, LocalRoundsAfter
  <2>6. QED
    BY <2>1, <2>2, <2>4, <2>5 DEF pipelineVars
<1>3. CASE LocalRound \/ StepRound
  <2>1. stepAttempt' \in 1..MaxStepAttempts /\ localRounds' \in 0..MaxRetryRounds
    BY <1>3, GateAssumption DEF LocalRound, StepRound, AnotherAttempt, AttemptsLeft
  <2>2. /\ selected' \subseteq Pairs /\ teacher' = teacher
        /\ evaluated' \in [Pairs -> Results \cup {"pending"}]
        /\ UNCHANGED <<rubrics, scoredWith, teacherCalls, rubricCalls>>
    BY <1>3, CandidatesType DEF LocalRound, StepRound, Evaluate, TeacherResponses
  <2>3. QED
    BY <1>3, <2>1, <2>2 DEF LocalRound, StepRound, AnotherRound
<1>4. CASE Finish
  BY <1>4 DEF Finish, pipelineVars, UpdateMask, Succeeded, Statuses
<1>5. CASE UNCHANGED vars
  BY <1>5 DEF vars, pipelineVars, gateVars
<1>6. QED
  BY <1>1, <1>2, <1>3, <1>4, <1>5 DEF Next, GateStep, Returned

-----------------------------------------------------------------------------
(***************************************************************************)
(* What a step of the pipeline and what a decision of the gate do to the   *)
(* variables the invariants below are about.                               *)
(***************************************************************************)
\* The gate neither scores nor asks for rubrics, and keeps the responses.
LEMMA GateKeepsScores ==
    GateStep \/ UNCHANGED vars => UNCHANGED <<teacher, rubrics, scoredWith, rubricCalls>>
  BY DEF GateStep, InitialResults, RetryResults, LocalRound, StepRound, Finish,
         Evaluate, TeacherResponses, vars, pipelineVars

\* A score stays the one of the group's present response.
LEMMA ScoresStep ==
    ASSUME TypeInv, ScoresCurrent, [Next]_vars
    PROVE  ScoresCurrent'
<1> USE DEF ScoresCurrent, TypeInv, TypeOK, PipelineTypeOK
<1>1. CASE PipelineStep
  <2>1. CASE \E g \in Groups : TeacherAnswers(g)
    <3>1. PICK g \in Groups : TeacherAnswers(g)
      BY <2>1
    <3>2. teacher[g] = 0 /\ \A h \in Groups : h # g => teacher'[h] = teacher[h]
      BY <3>1 DEF TeacherAnswers
    <3>3. scoredWith' = scoredWith
      BY <3>1 DEF TeacherAnswers
    <3>4. QED
      BY <3>2, <3>3, GroupOfType
  <2>2. CASE \E p \in Pairs : Scored(p)
    BY <2>2, GroupOfType DEF Scored
  <2>3. CASE UNCHANGED <<teacher, scoredWith>>
    BY <2>3
  <2>4. QED
    BY <1>1, <2>1, <2>2, <2>3
    DEF PipelineStep, TeacherFails, RubricGenerated, RubricFails, VerifierFails
<1>2. CASE GateStep \/ UNCHANGED vars
  BY <1>2, GateKeepsScores
<1>3. QED
  BY <1>1, <1>2 DEF Next, Returned

\* A rubric is generated only where none has been.
LEMMA RubricsStep ==
    ASSUME TypeInv, RubricsCurrent, [Next]_vars
    PROVE  RubricsCurrent'
<1> USE DEF RubricsCurrent, RubricKey, TypeInv, TypeOK, PipelineTypeOK
<1>1. CASE PipelineStep
  <2>1. CASE \E g \in Groups : TeacherAnswers(g)
    <3>1. PICK g \in Groups : TeacherAnswers(g)
      BY <2>1
    <3>2. teacher[g] = 0 /\ \A h \in Groups : h # g => teacher'[h] = teacher[h]
      BY <3>1 DEF TeacherAnswers
    <3>3. UNCHANGED <<rubrics, rubricCalls>>
      BY <3>1 DEF TeacherAnswers
    <3>4. QED
      BY <3>2, <3>3, GroupOfType
  <2>2. CASE \E p \in Pairs : RubricGenerated(p)
    <3>1. PICK p \in Pairs : RubricGenerated(p)
      BY <2>2
    <3>2. rubricCalls[p] = 0 /\ teacher[GroupOf(p)] # 0
      BY <3>1 DEF RubricGenerated, InEvaluatePair
    <3>3. /\ rubricCalls' = [rubricCalls EXCEPT ![p] = 1]
          /\ rubrics' = rubrics \cup {RubricKey(p)} /\ teacher' = teacher
      BY <3>1, <3>2 DEF RubricGenerated
    <3>4. QED
      BY <3>2, <3>3
  <2>3. CASE UNCHANGED <<teacher, rubrics, rubricCalls>>
    BY <2>3
  <2>4. QED
    BY <1>1, <2>1, <2>2, <2>3
    DEF PipelineStep, TeacherFails, RubricFails, Scored, VerifierFails
<1>2. CASE GateStep \/ UNCHANGED vars
  BY <1>2, GateKeepsScores
<1>3. QED
  BY <1>1, <1>2 DEF Next, Returned

\* A pair is selected while its record is not a success.
LEMMA SelectedStep ==
    ASSUME TypeInv, SelectedFailed, [Next]_vars
    PROVE  SelectedFailed'
<1> USE DEF SelectedFailed
<1>1. CASE PipelineStep /\ UNCHANGED gateVars
  BY <1>1 DEF PipelineStep, TeacherAnswers, TeacherFails, RubricGenerated, RubricFails,
              Scored, VerifierFails, gateVars
<1>2. CASE LocalRound \/ StepRound
  BY <1>2 DEF LocalRound, StepRound, Evaluate, RoundCandidates, StepCandidates
<1>3. CASE phase' # "evaluating"
  BY <1>3
<1>4. CASE UNCHANGED vars
  BY <1>4 DEF vars, pipelineVars, gateVars
<1>5. QED
  BY <1>1, <1>2, <1>3, <1>4 DEF Next, GateStep, Returned, InitialResults, RetryResults, Finish

\* The records carry the status of their results.
LEMMA RecordsStep ==
    ASSUME TypeInv, SelectedFailed, RecordsAgree, [Next]_vars
    PROVE  RecordsAgree'
<1> USE DEF RecordsAgree
<1>1. CASE PipelineStep /\ UNCHANGED gateVars
  BY <1>1 DEF gateVars, StatusAfter, StepRetryable
<1>2. CASE InitialResults \/ RetryResults
  <2>1. phase' = "deciding" /\ Recorded /\ \A p \in selected : evaluated[p] \in Results
    BY <1>2 DEF InitialResults, RetryResults, Evaluated, TypeInv, TypeOK, PipelineTypeOK
  <2>2. \A p \in Pairs : p \notin selected => result[p] # "none" /\ status[p] = StatusAfter(result[p])
    BY <1>2 DEF InitialResults, RetryResults, SelectedFailed
  <2>3. ASSUME NEW p \in Pairs
        PROVE  result'[p] # "none" /\ status'[p] = StatusAfter(result'[p])
    <3>1. CASE p \in selected
      BY <2>1, <3>1 DEF Recorded, Results, FailureClasses
    <3>2. CASE p \notin selected
      BY <2>1, <2>2, <3>2 DEF Recorded
    <3>3. QED
      BY <3>1, <3>2
  <2>4. QED
    BY <2>1, <2>3 DEF StatusAfter, StepRetryable
<1>3. CASE LocalRound \/ StepRound
  <2>1. /\ phase = "deciding" /\ phase' = "evaluating"
        /\ UNCHANGED <<status, result>>
    BY <1>3 DEF LocalRound, StepRound
  <2>2. QED
    BY <2>1 DEF StatusAfter, StepRetryable
<1>4. CASE Finish
  <2>1. /\ phase = "deciding" /\ phase' = "done" /\ result' = result
        /\ \A p \in Pairs : status'[p] = "success" <=> status[p] = "success"
    BY <1>4 DEF Finish, TypeInv, TypeOK
  <2>2. \A p \in Pairs : status[p] = "success" <=> result[p] = "scored"
    BY <2>1 DEF StatusAfter
  <2>3. QED
    BY <2>1, <2>2
<1>5. CASE UNCHANGED vars
  BY <1>5 DEF vars, gateVars, StatusAfter, StepRetryable
<1>6. QED
  BY <1>1, <1>2, <1>3, <1>4, <1>5 DEF Next, GateStep, Returned

\* A result that counts has a score behind it.
LEMMA ScoresCountStep ==
    ASSUME TypeInv, ScoresCount, [Next]_vars
    PROVE  ScoresCount'
<1> USE DEF ScoresCount, TypeInv, TypeOK, PipelineTypeOK
<1>1. CASE PipelineStep /\ UNCHANGED gateVars
  <2> USE <1>1 DEF gateVars
  <2>1. CASE \E p \in Pairs : Scored(p)
    BY <2>1, GroupOfType DEF Scored, Yields, InEvaluatePair
  <2>2. CASE \E p \in Pairs : RubricFails(p) \/ VerifierFails(p)
    BY <2>2, PipelineAssumption DEF RubricFails, VerifierFails, Yields, FailureClasses
  <2>3. CASE \E g \in Groups : TeacherFails(g)
    BY <2>3, PipelineAssumption DEF TeacherFails, FailureClasses
  <2>4. CASE UNCHANGED <<evaluated, scoredWith>>
    BY <2>4
  <2>5. QED
    BY <2>1, <2>2, <2>3, <2>4 DEF PipelineStep, TeacherAnswers, RubricGenerated
<1>2. CASE GateStep \/ UNCHANGED vars
  <2>1. scoredWith' = scoredWith
    BY <1>2, GateKeepsScores
  <2>2. \A p \in Pairs : evaluated'[p] = "scored" => evaluated[p] = "scored"
    BY <1>2, CandidatesType DEF GateStep, InitialResults, RetryResults, LocalRound, StepRound, Finish, Evaluate,
       vars, pipelineVars
  <2>3. \A p \in Pairs : result'[p] = "scored" => result[p] = "scored" \/ evaluated[p] = "scored"
    BY <1>2 DEF GateStep, InitialResults, RetryResults, LocalRound, StepRound, Finish, Recorded,
       vars, gateVars
  <2>4. QED
    BY <2>1, <2>2, <2>3
<1>3. QED
  BY <1>1, <1>2 DEF Next, Returned

-----------------------------------------------------------------------------
GateInv ==
    /\ TypeInv
    /\ ScoresCurrent
    /\ RubricsCurrent
    /\ ScoresCount
    /\ SelectedFailed
    /\ RecordsAgree

\* The strengthened invariant of one call of the reward manager.
THEOREM GateInvariant == Spec => []GateInv
<1>1. Init => GateInv
  <2> SUFFICES ASSUME Init PROVE GateInv
    OBVIOUS
  <2>1. ScoresCurrent /\ RubricsCurrent /\ ScoresCount
    BY DEF Init, PipelineInit, ScoresCurrent, RubricsCurrent, ScoresCount
  <2>2. SelectedFailed /\ RecordsAgree
    BY DEF Init, PipelineInit, SelectedFailed, RecordsAgree
  <2>3. QED
    BY <2>1, <2>2, TypeInit DEF GateInv
<1>2. GateInv /\ [Next]_vars => GateInv'
  BY TypeStep, ScoresStep, RubricsStep, ScoresCountStep, SelectedStep, RecordsStep DEF GateInv
<1>3. QED
  BY <1>1, <1>2, PTL DEF Spec

\* The variables keep their types: step_retry_attempt and the local rounds
\* never leave their budgets.
THEOREM GateTypes == Spec => []TypeOK
<1>1. GateInv => TypeOK
  BY DEF GateInv, TypeInv
<1>2. QED
  BY <1>1, GateInvariant, PTL

\* The rewards of a group are all relative to one teacher response.
THEOREM OneTeacher == Spec => []OneTeacherPerGroup
<1>1. GateInv => OneTeacherPerGroup
  BY DEF GateInv, ScoresCurrent, OneTeacherPerGroup
<1>2. QED
  BY <1>1, GateInvariant, PTL

\* No pair pays for a second rubric.
THEOREM OneRubric == Spec => []RubricOnce
<1>1. GateInv => RubricOnce
  BY DEF GateInv, RubricsCurrent, RubricOnce
<1>2. QED
  BY <1>1, GateInvariant, PTL

\* A step never touches the record or the score of a pair that succeeded.
THEOREM SuccessStays == Spec => SuccessIsFinal
<1>1. ASSUME GateInv, [Next]_vars, NEW p \in Pairs, status[p] = "success"
      PROVE  status'[p] = "success" /\ scoredWith'[p] = scoredWith[p]
  <2> USE <1>1 DEF GateInv, TypeInv, TypeOK, PipelineTypeOK
  <2>1. CASE phase = "evaluating" /\ PipelineStep /\ UNCHANGED gateVars
    <3>1. p \notin selected /\ status' = status
      BY <2>1 DEF SelectedFailed, gateVars
    <3>2. CASE \E q \in Pairs : Scored(q)
      BY <3>1, <3>2 DEF Scored, InEvaluatePair, Waiting
    <3>3. CASE scoredWith' = scoredWith
      BY <3>1, <3>3
    <3>4. QED
      BY <2>1, <3>2, <3>3
      DEF PipelineStep, TeacherAnswers, TeacherFails, RubricGenerated, RubricFails, VerifierFails
  <2>2. CASE InitialResults \/ RetryResults
    <3>1. p \notin selected /\ Recorded
      BY <2>2 DEF InitialResults, RetryResults, SelectedFailed
    <3>2. scoredWith' = scoredWith
      BY <2>2 DEF InitialResults, RetryResults, pipelineVars
    <3>3. QED
      BY <3>1, <3>2 DEF Recorded
  <2>3. CASE LocalRound \/ StepRound
    BY <2>3 DEF LocalRound, StepRound, Evaluate
  <2>4. CASE Finish
    BY <2>4 DEF Finish, pipelineVars
  <2>5. CASE UNCHANGED vars
    BY <2>5 DEF vars, pipelineVars, gateVars
  <2>6. QED
    BY <1>1, <2>1, <2>2, <2>3, <2>4, <2>5 DEF Next, GateStep, Returned
<1>2. GateInv /\ [Next]_vars =>
        [\A p \in Pairs : status[p] = "success" =>
            status'[p] = "success" /\ scoredWith'[p] = scoredWith[p]]_vars
  BY <1>1
<1>3. QED
  BY <1>2, GateInvariant, PTL DEF Spec, SuccessIsFinal

-----------------------------------------------------------------------------
(***************************************************************************)
(* The gate's verdict.                                                     *)
(***************************************************************************)
\* Groups with a pair in the mask are the effective ones.
LEMMA TrainedAreEffective ==
    ASSUME TypeInv
    PROVE  {g \in Groups : PairsOf(g) \cap UpdateMask # {}} = EffectiveGroups
<1> USE DEF TypeInv, TypeOK, EffectiveGroups, UpdateMask, Succeeded, PairsOf
<1>1. ASSUME NEW g \in Groups, Effective(g)
      PROVE  PairsOf(g) \cap UpdateMask # {}
  <2>1. Cardinality(PairsOf(g) \cap Succeeded) # 0
    <3>1. Cardinality(PairsOf(g) \cap Succeeded) \in Nat
      BY PairsFinite, FS_Subset, FS_CardinalityType
    <3>2. QED
      BY <1>1, <3>1, GateAssumption DEF Effective
  <2>2. PairsOf(g) \cap Succeeded # {}
    BY <2>1, FS_EmptySet
  <2>3. QED
    BY <1>1, <2>2
<1>2. QED
  BY <1>1

\* When the gate finishes, mask and verdict fit, and it had to finish.
LEMMA VerdictOfFinish ==
    ASSUME TypeInv, ScoresCount, RecordsAgree, Finish
    PROVE  MaskMatchesVerdict' /\ GivesUpLate'
<1> DEFINE trained == {g \in Groups : PairsOf(g) \cap updateMask' # {}}
<1>1. /\ phase = "deciding" /\ updateMask' = UpdateMask /\ stop' = ~EnoughGroups
      /\ result' = result /\ scoredWith' = scoredWith /\ stepAttempt' = stepAttempt
      /\ ~AnotherAttempt
  BY DEF Finish, pipelineVars
<1>2. Succeeded = {p \in Pairs : result[p] = "scored"}
  BY <1>1 DEF RecordsAgree, Succeeded, StatusAfter
<1>3. trained = EffectiveGroups
  BY <1>1, TrainedAreEffective
<1>4. \A p \in updateMask' : result'[p] = "scored" /\ scoredWith'[p] # 0
  BY <1>1, <1>2 DEF UpdateMask, ScoresCount, Succeeded
<1>5. \A g \in trained : PairsOf(g) \ updateMask' = PairsOf(g) \ Succeeded
  BY <1>1, <1>3 DEF EffectiveGroups, UpdateMask, PairsOf, Succeeded
<1>6. \A g \in trained :
        /\ PairsOf(g) \ updateMask' \subseteq {p \in Pairs : result'[p] # "scored"}
        /\ Cardinality(PairsOf(g) \ updateMask') <= MaxDropped
  BY <1>1, <1>2, <1>3, <1>5 DEF PairsOf, EffectiveGroups, Effective
<1>7. stop' <=> RateUnit * Cardinality(trained) < MinEffectiveRate * Cardinality(Groups)
  <2>1. Cardinality(EffectiveGroups) \in Nat /\ Cardinality(Groups) \in Nat
    BY PipelineAssumption, FS_Subset, FS_CardinalityType DEF EffectiveGroups
  <2>2. /\ MinEffectiveRate * Cardinality(Groups) \in Nat
        /\ RateUnit * Cardinality(EffectiveGroups) \in Nat
    <3>1. \A x, y \in Nat : x * y \in Nat
      OBVIOUS
    <3>2. MinEffectiveRate \in Nat /\ RateUnit \in Nat
      BY GateAssumption
    <3> QED
      BY <2>1, <3>1, <3>2
  <2>3. ~EnoughGroups
          <=> RateUnit * Cardinality(EffectiveGroups) < MinEffectiveRate * Cardinality(Groups)
    <3>1. \A x, y \in Nat : ~(x >= y) <=> x < y
      OBVIOUS
    <3> QED
      BY <2>2, <3>1 DEF EnoughGroups
  <2>4. QED
    BY <1>1, <1>3, <2>3, Zenon
<1>8. MaskMatchesVerdict'
  BY <1>4, <1>6, <1>7 DEF MaskMatchesVerdict
<1>9. GivesUpLate'
  <2>1. CASE ~AttemptsLeft
    BY <1>1, <2>1, GateAssumption DEF AttemptsLeft, GivesUpLate, TypeInv, TypeOK
  <2>2. CASE StepCandidates = {}
    <3>1. \A p \in Pairs : StepRetryable(result[p]) => status[p] = "retryable_failure"
      BY <1>1 DEF RecordsAgree, StatusAfter, StepRetryable
    <3>2. \A p \in Pairs : ~StepRetryable(result[p])
      BY <2>2, <3>1 DEF StepCandidates
    <3>3. QED
      BY <1>1, <3>2 DEF GivesUpLate
  <2>3. CASE EnoughGroups
    BY <1>1, <2>3 DEF GivesUpLate
  <2>4. QED
    BY <1>1, <2>1, <2>2, <2>3 DEF AnotherAttempt
<1>10. QED
  BY <1>8, <1>9

\* Only the last step of the gate makes the verdict; nothing revises it.
LEMMA VerdictStep ==
    ASSUME GateInv, MaskMatchesVerdict, GivesUpLate, [Next]_vars
    PROVE  MaskMatchesVerdict' /\ GivesUpLate'
<1>1. CASE Finish
  BY <1>1, VerdictOfFinish DEF GateInv
<1>2. CASE phase' # "done"
  BY <1>2 DEF MaskMatchesVerdict, GivesUpLate
<1>3. CASE UNCHANGED vars
  BY <1>3 DEF MaskMatchesVerdict, GivesUpLate, vars, pipelineVars, gateVars
<1>4. QED
  BY <1>1, <1>2, <1>3
  DEF Next, GateStep, Returned, InitialResults, RetryResults, LocalRound, StepRound, gateVars

LEMMA VerdictInvariant == Spec => [](MaskMatchesVerdict /\ GivesUpLate)
<1>1. Init => MaskMatchesVerdict /\ GivesUpLate
  BY DEF Init, MaskMatchesVerdict, GivesUpLate
<1>2. GateInv /\ (MaskMatchesVerdict /\ GivesUpLate) /\ [Next]_vars
        => (MaskMatchesVerdict /\ GivesUpLate)'
  BY VerdictStep
<1>3. QED
  BY <1>1, <1>2, GateInvariant, PTL DEF Spec

\* The mask lets only scored pairs of whole groups through, and the step goes
\* on exactly when the groups with a pair in it are enough.
THEOREM VerdictIsRight == Spec => []MaskMatchesVerdict
  BY VerdictInvariant, PTL

\* The verdict to stop comes only when no attempt is left or no failure could
\* be repaired by another.
THEOREM NothingGivenUpEarly == Spec => []GivesUpLate
  BY VerdictInvariant, PTL

-----------------------------------------------------------------------------
(***************************************************************************)
(* The bound on retries.  An attempt has a round that starts it, except    *)
(* the first, and at most MaxRetryRounds local ones.                       *)
(***************************************************************************)
RoundsPerAttempt == MaxRetryRounds + 1
RoundsBefore == (stepAttempt - 1) * RoundsPerAttempt

\* What a pair may have been retried, at each place of the gate.
RetryBudget ==
    \A p \in Pairs :
        /\ phase # "evaluating" => retryCount[p] <= RoundsBefore + localRounds
        /\ phase = "evaluating" /\ round = "local" => retryCount[p] <= RoundsBefore + localRounds
        /\ phase = "evaluating" /\ round = "step" =>
               localRounds = 0 /\ retryCount[p] <= RoundsBefore - 1
        /\ phase = "evaluating" /\ round = "initial" => retryCount[p] = 0

\* The rounds of an attempt add up.
LEMMA RoundsArithmetic ==
    ASSUME TypeInv
    PROVE  /\ RoundsBefore \in Nat
           /\ stepAttempt * RoundsPerAttempt = RoundsBefore + RoundsPerAttempt
           /\ stepAttempt * RoundsPerAttempt <= MaxStepAttempts * RoundsPerAttempt
<1>1. stepAttempt \in 1..MaxStepAttempts /\ MaxRetryRounds \in Nat /\ MaxStepAttempts \in Nat
  BY GateAssumption DEF TypeInv, TypeOK
<1>2. ASSUME NEW a \in Nat, NEW b \in Nat, NEW r \in Nat, a <= b
      PROVE  a * r <= b * r
  <2>1. PICK d \in Nat : b = a + d
    BY <1>2
  <2>2. b * r = a * r + d * r /\ d * r \in Nat /\ a * r \in Nat
    BY <1>2, <2>1
  <2>3. QED
    BY <2>2
<1>3. stepAttempt \in Nat /\ stepAttempt - 1 \in Nat /\ RoundsPerAttempt \in Nat
  BY <1>1 DEF RoundsPerAttempt
<1>4. RoundsBefore \in Nat /\ stepAttempt * RoundsPerAttempt = RoundsBefore + RoundsPerAttempt
  BY <1>3 DEF RoundsBefore
<1>5. QED
  BY <1>1, <1>2, <1>3, <1>4

\* Every step keeps within the budget.
LEMMA RetryBudgetStep ==
    ASSUME TypeInv, RetryBudget, [Next]_vars
    PROVE  RetryBudget'
<1>1. RoundsBefore \in Nat /\ localRounds \in 0..MaxRetryRounds /\ MaxRetryRounds \in Nat
      /\ retryCount \in [Pairs -> Nat]
  BY RoundsArithmetic, GateAssumption DEF TypeInv, TypeOK
<1>2. CASE PipelineStep /\ UNCHANGED gateVars
  BY <1>2 DEF gateVars, RetryBudget, RoundsBefore
<1>3. CASE InitialResults
  <2>1. /\ phase = "evaluating" /\ round = "initial" /\ phase' = "deciding"
        /\ UNCHANGED <<retryCount, stepAttempt, localRounds>>
    BY <1>3 DEF InitialResults
  <2>2. RoundsBefore' = RoundsBefore
    BY <2>1 DEF RoundsBefore
  <2>3. QED
    BY <1>1, <2>1, <2>2 DEF RetryBudget
<1>4. CASE RetryResults
  <2>1. /\ phase = "evaluating" /\ round \in {"local", "step"} /\ phase' = "deciding"
        /\ stepAttempt' = stepAttempt /\ localRounds' = LocalRoundsAfter
        /\ \A p \in Pairs : retryCount'[p] \in {retryCount[p], retryCount[p] + 1}
    BY <1>4 DEF RetryResults, TypeInv, TypeOK
  <2>2. RoundsBefore' = RoundsBefore
    BY <2>1 DEF RoundsBefore
  <2>3. CASE round = "local"
    BY <1>1, <2>1, <2>2, <2>3 DEF RetryBudget, LocalRoundsAfter
  <2>4. CASE round = "step"
    BY <1>1, <2>1, <2>2, <2>4 DEF RetryBudget, LocalRoundsAfter
  <2>5. QED
    BY <2>1, <2>3, <2>4
<1>5. CASE LocalRound
  <2>1. /\ phase = "deciding" /\ phase' = "evaluating" /\ round' = "local"
        /\ UNCHANGED <<retryCount, stepAttempt, localRounds>>
    BY <1>5 DEF LocalRound
  <2>2. RoundsBefore' = RoundsBefore
    BY <2>1 DEF RoundsBefore
  <2>3. QED
    BY <2>1, <2>2 DEF RetryBudget
<1>6. CASE StepRound
  <2>1. /\ phase = "deciding" /\ phase' = "evaluating" /\ round' = "step"
        /\ retryCount' = retryCount /\ stepAttempt' = stepAttempt + 1 /\ localRounds' = 0
    BY <1>6 DEF StepRound
  <2>2. RoundsBefore' = RoundsBefore + RoundsPerAttempt
    <3>1. stepAttempt' - 1 = stepAttempt
      BY <2>1 DEF TypeInv, TypeOK
    <3>2. RoundsBefore' = stepAttempt * RoundsPerAttempt
      BY <3>1 DEF RoundsBefore, RoundsPerAttempt
    <3>3. QED
      BY <3>2, RoundsArithmetic
  <2>3. QED
    BY <1>1, <2>1, <2>2 DEF RetryBudget, RoundsPerAttempt
<1>7. CASE Finish
  <2>1. /\ phase = "deciding" /\ phase' = "done"
        /\ UNCHANGED <<retryCount, stepAttempt, localRounds>>
    BY <1>7 DEF Finish
  <2>2. RoundsBefore' = RoundsBefore
    BY <2>1 DEF RoundsBefore
  <2>3. QED
    BY <2>1, <2>2 DEF RetryBudget
<1>8. CASE UNCHANGED vars
  BY <1>8 DEF vars, gateVars, RetryBudget, RoundsBefore
<1>9. QED
  BY <1>2, <1>3, <1>4, <1>5, <1>6, <1>7, <1>8 DEF Next, GateStep, Returned

\* No pair is retried more often than the two nested loops allow.
THEOREM RetriesStayBounded == Spec => []RetriesBounded
<1>1. Init => RetryBudget
  BY DEF Init, RetryBudget
<1>2. GateInv /\ RetryBudget /\ [Next]_vars => RetryBudget'
  BY RetryBudgetStep DEF GateInv
<1>3. GateInv /\ RetryBudget => RetriesBounded
  <2> SUFFICES ASSUME GateInv, RetryBudget, NEW p \in Pairs
               PROVE  retryCount[p] <= MaxStepAttempts * (MaxRetryRounds + 1) - 1
    BY DEF RetriesBounded
  <2>1. /\ RoundsBefore \in Nat /\ localRounds \in 0..MaxRetryRounds /\ MaxRetryRounds \in Nat
        /\ retryCount[p] \in Nat /\ MaxStepAttempts * RoundsPerAttempt \in Nat
        /\ phase \in {"evaluating", "deciding", "done"} /\ round \in {"initial", "step", "local"}
    BY RoundsArithmetic, GateAssumption DEF GateInv, TypeInv, TypeOK, RoundsPerAttempt
  <2>2. retryCount[p] <= RoundsBefore + MaxRetryRounds
    BY <2>1 DEF RetryBudget
  <2>3. RoundsBefore + RoundsPerAttempt <= MaxStepAttempts * RoundsPerAttempt
    BY RoundsArithmetic DEF GateInv
  <2>4. QED
    BY <2>1, <2>2, <2>3 DEF RoundsPerAttempt
<1>4. QED
  BY <1>1, <1>2, <1>3, GateInvariant, PTL DEF Spec
-----------------------------------------------------------------------------
(***************************************************************************)
(* Retries are counted twice, for the batch and pair by pair.              *)
(***************************************************************************)
Ledger == retriedPairs = SumFunction(retryCount)

\* Only a retry's results touch the two counts, and they add the number of
\* pairs that were retried to both.
LEMMA LedgerStep ==
    ASSUME TypeInv, Ledger, [Next]_vars
    PROVE  Ledger'
<1>1. CASE RetryResults
  <2>1. /\ retryCount \in [Pairs -> Nat] /\ selected \in SUBSET Pairs
        /\ \A p \in Pairs : retryCount[p] \in Nat
    BY DEF TypeInv, TypeOK, PipelineTypeOK
  <2>2. /\ retriedPairs' = retriedPairs + Cardinality(selected)
        /\ DOMAIN retryCount = Pairs /\ DOMAIN retryCount' = Pairs
        /\ \A p \in Pairs :
              retryCount'[p] = IF p \in selected THEN retryCount[p] + 1 ELSE retryCount[p]
    BY <1>1, <2>1 DEF RetryResults, RetriedNow
  <2>3. SumFunctionOnSet(retryCount', Pairs)
            = SumFunctionOnSet(retryCount, Pairs) + Cardinality(selected)
    BY <2>1, <2>2, PairsFinite, SumCounts
  <2>4. SumFunction(retryCount) = SumFunctionOnSet(retryCount, Pairs)
    BY <2>2 DEF SumFunction
  <2>5. SumFunction(retryCount') = SumFunctionOnSet(retryCount', Pairs)
    BY <2>2 DEF SumFunction
  <2>6. retriedPairs' = SumFunction(retryCount')
    BY <2>2, <2>3, <2>4, <2>5 DEF Ledger
  <2> QED
    BY <2>6 DEF Ledger
<1>2. CASE UNCHANGED <<retriedPairs, retryCount>>
  <2>1. retriedPairs' = SumFunction(retryCount')
    BY <1>2 DEF Ledger
  <2> QED
    BY <2>1 DEF Ledger
<1>3. RetryResults \/ UNCHANGED <<retriedPairs, retryCount>>
  BY DEF Next, GateStep, Returned, gateVars, vars, InitialResults, LocalRound, StepRound, Finish
<1> QED
  BY <1>1, <1>2, <1>3

\* The number of retries that the diagnostics report is the number of times
\* pairs were retried, after any sequence of rounds.
THEOREM RetriesAreAccountedFor == Spec => []RetryLedger
<1>1. Init => Ledger
  <2> SUFFICES ASSUME Init PROVE Ledger
    OBVIOUS
  <2>1. DOMAIN retryCount = Pairs /\ \A p \in Pairs : retryCount[p] = 0
    BY DEF Init
  <2>2. SumFunctionOnSet(retryCount, Pairs) = 0
    BY <2>1, PairsFinite, SumZero
  <2>3. SumFunction(retryCount) = 0
    BY <2>1, <2>2 DEF SumFunction
  <2> QED
    BY <2>3 DEF Init, Ledger
<1>2. TypeInv /\ Ledger /\ [Next]_vars => Ledger'
  BY LedgerStep
<1>3. Ledger => RetryLedger
  BY DEF Ledger, RetryLedger
<1> QED
  BY <1>1, <1>2, <1>3, GateInvariant, PTL DEF Spec, GateInv
=============================================================================

----------------------------- MODULE RopdPipeline -----------------------------
(***************************************************************************)
(* evaluate_selected_pairs of the ROPD pipeline                            *)
(* (easyopd/methods/ropd/pipeline.py): a group of rollouts shares one      *)
(* teacher response; each of its pairs gets a rubric for the teacher's and *)
(* the student's answer, and two verifier scores under that rubric.  A     *)
(* judge error turns the pair into a fallback result with reward 0.        *)
(*                                                                         *)
(* Groups run in one thread pool and the pairs of a group in another, so   *)
(* the steps of different pairs interleave.  They share the rubric cache,  *)
(* whose keys name the pair and the two answers, and the group's teacher   *)
(* response, which the first step of a group's evaluation produces.        *)
(*                                                                         *)
(* Teacher responses are numbered: the n-th that a group was given.  An    *)
(* exception that is no judge error ends the whole call and is left out:   *)
(* whoever calls again starts with nothing.                                *)
(* External: whether a judge call succeeds, and how it fails.              *)
(***************************************************************************)
EXTENDS Naturals, FiniteSets

CONSTANTS
    Groups,        \* the batch's uids
    PairIndices,   \* pair_index values, the same in every group
    Failures       \* the ways a judge call may fail, see below

Pairs == Groups \X PairIndices
GroupOf(p) == p[1]
PairsOf(g) == {p \in Pairs : GroupOf(p) = g}

\* A failure as the two retry predicates of the reward manager see it:
\* "transient" is worth a retry in the round and in the step, "circuit_open"
\* only after the step's back-off, "permanent" never.
FailureClasses == {"transient", "circuit_open", "permanent"}

ASSUME PipelineAssumption ==
    /\ IsFiniteSet(Groups) /\ Groups # {}
    /\ IsFiniteSet(PairIndices) /\ PairIndices # {}
    /\ Failures \subseteq FailureClasses

VARIABLES
    selected,      \* the pairs evaluate_selected_pairs was called for
    teacher,       \* the group's teacher response, 0 for None
    rubrics,       \* _retry_rubric_cache: pairs with the teacher response
    evaluated,     \* what this call returns for a pair, "pending" until then
    scoredWith,    \* the teacher response of a pair's last score, 0 for none
    teacherCalls,  \* history: teacher responses generated for each group
    rubricCalls    \* history: rubrics generated for each pair

pipelineVars ==
    <<selected, teacher, rubrics, evaluated, scoredWith, teacherCalls, rubricCalls>>

Results == {"scored"} \cup FailureClasses

PipelineTypeOK ==
    /\ selected \subseteq Pairs
    /\ teacher \in [Groups -> Nat]
    /\ rubrics \subseteq Pairs \X Nat
    /\ evaluated \in [Pairs -> Results \cup {"pending"}]
    /\ scoredWith \in [Pairs -> Nat]
    /\ teacherCalls \in [Groups -> Nat]
    /\ rubricCalls \in [Pairs -> Nat]

\* __call__ has reset the cache and evaluates every pair.
PipelineInit ==
    /\ selected = Pairs
    /\ teacher = [g \in Groups |-> 0]
    /\ rubrics = {}
    /\ evaluated = [p \in Pairs |-> "pending"]
    /\ scoredWith = [p \in Pairs |-> 0]
    /\ teacherCalls = [g \in Groups |-> 0]
    /\ rubricCalls = [p \in Pairs |-> 0]

-----------------------------------------------------------------------------
Waiting(p) == p \in selected /\ evaluated[p] = "pending"
Yields(p, result) == evaluated' = [evaluated EXCEPT ![p] = result]
\* The key of a pair's rubric in the cache.
RubricKey(p) == <<p, teacher[GroupOf(p)]>>

\* teacher_client.generate, where no earlier call has left a response ...
TeacherAnswers(g) ==
    /\ teacher[g] = 0
    /\ \E p \in PairsOf(g) : Waiting(p)
    /\ teacherCalls' = [teacherCalls EXCEPT ![g] = @ + 1]
    /\ teacher' = [teacher EXCEPT ![g] = teacherCalls'[g]]
    /\ UNCHANGED <<selected, rubrics, evaluated, scoredWith, rubricCalls>>

\* ... or it fails, and with it every selected pair of the group.
TeacherFails(g) ==
    /\ teacher[g] = 0
    /\ \E p \in PairsOf(g) : Waiting(p)
    /\ \E f \in Failures :
           evaluated' = [p \in Pairs |->
                            IF GroupOf(p) = g /\ Waiting(p) THEN f ELSE evaluated[p]]
    /\ UNCHANGED <<selected, teacher, rubrics, scoredWith, teacherCalls, rubricCalls>>

\* _evaluate_pair runs, with the teacher response at hand.
InEvaluatePair(p) == Waiting(p) /\ teacher[GroupOf(p)] # 0

\* The rubric: from the cache, generated and stored, or an error.
RubricGenerated(p) ==
    /\ InEvaluatePair(p) /\ RubricKey(p) \notin rubrics
    /\ rubrics' = rubrics \cup {RubricKey(p)}
    /\ rubricCalls' = [rubricCalls EXCEPT ![p] = @ + 1]
    /\ UNCHANGED <<selected, teacher, evaluated, scoredWith, teacherCalls>>

RubricFails(p) ==
    /\ InEvaluatePair(p) /\ RubricKey(p) \notin rubrics
    /\ \E f \in Failures : Yields(p, f)
    /\ UNCHANGED <<selected, teacher, rubrics, scoredWith, teacherCalls, rubricCalls>>

\* Both verifier calls succeed under the pair's rubric ...
Scored(p) ==
    /\ InEvaluatePair(p) /\ RubricKey(p) \in rubrics
    /\ Yields(p, "scored")
    /\ scoredWith' = [scoredWith EXCEPT ![p] = teacher[GroupOf(p)]]
    /\ UNCHANGED <<selected, teacher, rubrics, teacherCalls, rubricCalls>>

\* Mutant: a pair whose verifier failed loses its rubric.
VerifierFailsForgetsRubric(p) ==
    /\ InEvaluatePair(p) /\ RubricKey(p) \in rubrics
    /\ \E f \in Failures : Yields(p, f)
    /\ rubrics' = rubrics \ {RubricKey(p)}
    /\ UNCHANGED <<selected, teacher, scoredWith, teacherCalls, rubricCalls>>

\* ... or one of them fails; the rubric stays in the cache.
VerifierFails(p) ==
    /\ InEvaluatePair(p) /\ RubricKey(p) \in rubrics
    /\ \E f \in Failures : Yields(p, f)
    /\ UNCHANGED <<selected, teacher, rubrics, scoredWith, teacherCalls, rubricCalls>>

PipelineStep ==
    \/ \E g \in Groups : TeacherAnswers(g) \/ TeacherFails(g)
    \/ \E p \in Pairs : RubricGenerated(p) \/ RubricFails(p) \/ Scored(p) \/ VerifierFails(p)

\* evaluate_selected_pairs has returned for every group.
Evaluated == \A p \in selected : evaluated[p] # "pending"

\* evaluate_selected_pairs is called for a set of pairs, with the groups'
\* teacher responses as far as there are any.
Evaluate(pairs, responses) ==
    /\ selected' = pairs
    /\ teacher' = responses
    /\ evaluated' = [p \in Pairs |-> IF p \in pairs THEN "pending" ELSE evaluated[p]]
    /\ UNCHANGED <<rubrics, scoredWith, teacherCalls, rubricCalls>>
=============================================================================

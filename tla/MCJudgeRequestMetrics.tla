----------------------- MODULE MCJudgeRequestMetrics -----------------------
(* JudgeRequestMetrics on three threads that never stop calling, and the rate
   limiters' buckets on every short schedule. *)
EXTENDS JudgeRequestMetrics, SyncTokenBucket, TLC

CONSTANTS c1, c2, c3
MCCallers == {c1, c2, c3}
MCCallerSymmetry == Permutations(MCCallers)
\* One retry for an unusable answer, on top of those for API errors.
MCQualityKinds == {"incomplete"}
MCQualityRetries == [k \in MCQualityKinds |-> 1]

\* Calls that were admitted find limiters that keep the rate: _acquire_rate_limits
\* is a sequence of the sections SchedulesKeepRate is about.
RateRespected == (\E c \in Callers : pc[c] = "admitted") => SchedulesKeepRate
=============================================================================

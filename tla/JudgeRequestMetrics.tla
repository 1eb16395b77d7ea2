------------------------- MODULE JudgeRequestMetrics -------------------------
(***************************************************************************)
(* The counters of one stage (StageProviderRuntime.metrics) next to the    *)
(* request loop that feeds them.  The counters are what training logs of   *)
(* the judge: every step of JudgeRequestLoop is taken together with its    *)
(* _record_metric calls, each of which is atomic under _metrics_lock.      *)
(* callsBegun and uncaught are history variables.  Nothing reads a counter *)
(* to decide what to do, so a model may be explored up to their balances.  *)
(***************************************************************************)
EXTENDS JudgeRequestLoop

VARIABLES metrics, callsBegun, uncaught

metricVars == <<metrics, callsBegun, uncaught>>
allVars == <<vars, metricVars>>

MetricNames == {"requests_started", "requests_succeeded", "requests_failed",
                "retries", "retriable_errors", "circuit_open_rejections"}

MetricsTypeOK ==
    /\ TypeOK
    /\ metrics \in [MetricNames -> Nat]
    /\ callsBegun \in Nat
    /\ uncaught \in Nat

MetricsInit ==
    /\ Init
    /\ metrics = [m \in MetricNames |-> 0]
    /\ callsBegun = 0
    /\ uncaught = 0

-----------------------------------------------------------------------------
\* _record_metric for each name in a set.
Record(names) ==
    metrics' = [m \in MetricNames |-> IF m \in names THEN metrics[m] + 1 ELSE metrics[m]]

CreateTextM(c) ==
    /\ CreateText(c)
    /\ callsBegun' = callsBegun + 1
    /\ UNCHANGED <<metrics, uncaught>>

\* Mutant: the rejection is counted as a failure where it is raised as well.
RejectCountedTwice(c) ==
    /\ Reject(c)
    /\ Record({"circuit_open_rejections", "requests_failed"})
    /\ UNCHANGED <<callsBegun, uncaught>>

RejectM(c) ==
    /\ Reject(c)
    /\ Record({"circuit_open_rejections"})
    /\ UNCHANGED <<callsBegun, uncaught>>

SendM(c) ==
    /\ Send(c)
    /\ Record({"requests_started"})
    /\ UNCHANGED <<callsBegun, uncaught>>

UncaughtM(c) ==
    /\ Uncaught(c)
    /\ uncaught' = uncaught + 1
    /\ UNCHANGED <<metrics, callsBegun>>

\* A rejection counts as a failed request too.  "retries" is counted when the
\* loop goes round.
AfterRequestFailureM(c) ==
    /\ AfterRequestFailure(c)
    /\ Record({"requests_failed"}
                \cup (IF verdict[c] = "retriable" THEN {"retriable_errors"} ELSE {})
                \cup (IF pc'[c] = "before" THEN {"retries"} ELSE {}))
    /\ UNCHANGED <<callsBegun, uncaught>>

\* Mutant: quality retries are not counted as retries.
ResponseQualityFailureUnmetered(c) ==
    /\ ResponseQualityFailure(c)
    /\ Record({"requests_failed"})
    /\ UNCHANGED <<callsBegun, uncaught>>

ResponseQualityFailureM(c) ==
    /\ ResponseQualityFailure(c)
    /\ Record({"requests_failed"} \cup (IF pc'[c] = "before" THEN {"retries"} ELSE {}))
    /\ UNCHANGED <<callsBegun, uncaught>>

AfterRequestSuccessM(c) ==
    /\ AfterRequestSuccess(c)
    /\ Record({"requests_succeeded"})
    /\ UNCHANGED <<callsBegun, uncaught>>

Unmetered ==
    /\ \/ \E c \in Callers : Admit(c) \/ Respond(c) \/ ApiError(c)
       \/ ProviderFlips \/ Cooldown
    /\ UNCHANGED metricVars

MetricsNext ==
    \/ \E c \in Callers :
           \/ CreateTextM(c) \/ RejectM(c) \/ SendM(c) \/ UncaughtM(c)
           \/ AfterRequestFailureM(c) \/ ResponseQualityFailureM(c) \/ AfterRequestSuccessM(c)
    \/ Unmetered

MetricsSpec == MetricsInit /\ [][MetricsNext]_allVars

-----------------------------------------------------------------------------
At(places) == Cardinality({c \in Callers : pc[c] \in places})

\* Requests that have not been counted as a success or a failure yet, and
\* requests that no retry was counted for beyond the first of each call.
Unresolved ==
    metrics["requests_started"] + metrics["circuit_open_rejections"]
      - (metrics["requests_succeeded"] + metrics["requests_failed"] + uncaught)
BeyondRetries ==
    metrics["requests_started"] + metrics["circuit_open_rejections"]
      - (callsBegun + metrics["retries"])

\* Every request that was started or rejected is counted as exactly one
\* success or one failure once it has been reported, also where an attempt
\* ends in an unusable response or in a rejection.  Only exceptions that
\* nobody catches go uncounted.
OneOutcomePerRequest == Unresolved = At({"sending", "response", "failed"})

\* Every request is either the first of a call or a counted retry: the two
\* nested loops neither miss a retry nor count one twice.
RetriesAccountForRequests == BeyondRetries + At({"before", "admitted"}) = 0

\* What a state says apart from how far the counters have run.
Balances == <<vars, Unresolved, BeyondRetries>>
=============================================================================

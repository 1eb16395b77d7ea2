--------------------------- MODULE JudgeRequestLoop ---------------------------
(***************************************************************************)
(* Concurrent calls of OpenAICompatibleProvider._create_text_direct for    *)
(* one judge stage (easyopd/methods/ropd/judge/provider.py).  The          *)
(* scheduler's workers, or the pipeline's threads when there is no         *)
(* scheduler, each run one call at a time.  A call is two nested loops:    *)
(* _execute_with_retry repeats an attempt on retriable errors, and         *)
(* _create_text_direct repeats that on unusable responses.  The calls      *)
(* share the stage's breaker and the provider's semaphore.                 *)
(*                                                                         *)
(* allow_request, the request itself and the method that reports its       *)
(* outcome are separate steps, so a call that was admitted in one state of *)
(* the breaker may report in another.  Sleeps and the rate limiters only   *)
(* delay: they are the time a call may spend at "before" and "admitted".   *)
(*                                                                         *)
(* External: the judge service answers, or fails when it is not up.        *)
(***************************************************************************)
EXTENDS ProviderCircuitBreaker, Functions

CONSTANTS
    Callers,          \* threads that call create_text for this stage
    MaxRetries,       \* transport.max_retries
    MaxInFlight,      \* effective_max_in_flight, the semaphore's value
    QualityKinds,     \* error types of an unusable response
    QualityRetries,   \* the role's retry budget for each of them
    UncaughtErrors    \* whether an exception _execute_with_retry does not catch may occur

ASSUME LoopAssumption ==
    /\ IsFiniteSet(Callers) /\ IsFiniteSet(QualityKinds)
    /\ MaxRetries \in Nat
    /\ MaxInFlight \in Nat \ {0}
    /\ QualityRetries \in [QualityKinds -> Nat]
    /\ UncaughtErrors \in BOOLEAN

\* How an attempt fails: a timeout, a connection error or a transient HTTP
\* status; another status or an API-side error; a rejection by the breaker.
ApiErrors == {"retriable", "not_retriable"}
Verdicts == ApiErrors \cup {"circuit_open", "good"} \cup QualityKinds
ASSUME VerdictAssumption ==
    QualityKinds \cap (ApiErrors \cup {"circuit_open", "good"}) = {}

VARIABLES
    pc,              \* where each caller is
    attempt,         \* attempt_index of _execute_with_retry
    qualityCount,    \* the *_retry_count locals of _create_text_direct
    verdict,         \* last_error, or what the response is worth
    providerUp,      \* external: the service is healthy
    apiCalls,        \* history: API requests of the current call (saturating)
    probes,          \* history: callers admitted in the current half-open period
                     \*   that have not reported since
    lostProbes       \* history: those that left without reporting (saturating)

callVars == <<pc, attempt, qualityCount, verdict>>
vars == <<breakerVars, callVars, providerUp, apiCalls, probes, lostProbes>>

\* (max_retries + 1) requests for every response the quality budgets allow.
CallLimit == (MaxRetries + 1) * (1 + SumFunction(QualityRetries))

PCs == {"idle", "before", "admitted", "sending", "failed", "response"}

TypeOK ==
    /\ BreakerTypeOK
    /\ pc \in [Callers -> PCs]
    /\ attempt \in [Callers -> 0..MaxRetries]
    /\ qualityCount \in [Callers -> [QualityKinds -> Nat]]
    /\ \A c \in Callers, k \in QualityKinds : qualityCount[c][k] <= QualityRetries[k]
    /\ verdict \in [Callers -> Verdicts]
    /\ providerUp \in BOOLEAN
    /\ apiCalls \in [Callers -> Nat]
    /\ probes \subseteq Callers
    /\ lostProbes \in 0..HalfOpenProbeRequests

NoneYet == [k \in QualityKinds |-> 0]

Init ==
    /\ BreakerInit
    /\ pc = [c \in Callers |-> "idle"]
    /\ attempt = [c \in Callers |-> 0]
    /\ qualityCount = [c \in Callers |-> NoneYet]
    /\ verdict = [c \in Callers |-> "good"]
    /\ providerUp \in BOOLEAN
    /\ apiCalls = [c \in Callers |-> 0]
    /\ probes = {}
    /\ lostProbes = 0

-----------------------------------------------------------------------------
Goto(c, place) == pc' = [pc EXCEPT ![c] = place]

\* The caller's history variables, after the breaker has taken its step.
Enrolled(c) == IF state' = "half_open"
               THEN (IF state = "half_open" THEN probes ELSE {}) \cup {c}
               ELSE {}
Reported(c) == IF state' = "half_open" THEN probes \ {c} ELSE {}
StillLost == IF state = "half_open" /\ state' = "half_open" THEN lostProbes ELSE 0

\* The call returns or raises, and its locals are gone.
Leave(c) ==
    /\ Goto(c, "idle")
    /\ attempt' = [attempt EXCEPT ![c] = 0]
    /\ qualityCount' = [qualityCount EXCEPT ![c] = NoneYet]
    /\ verdict' = [verdict EXCEPT ![c] = "good"]
    /\ apiCalls' = [apiCalls EXCEPT ![c] = 0]

\* _create_text_direct is entered, its counters at zero.
CreateText(c) ==
    /\ pc[c] = "idle"
    /\ Goto(c, "before")
    /\ UNCHANGED <<breakerVars, attempt, qualityCount, verdict, providerUp,
                   apiCalls, probes, lostProbes>>

\* _before_request passes the breaker.
Admit(c) ==
    /\ pc[c] = "before"
    /\ AllowRequest
    /\ Goto(c, "admitted")
    /\ probes' = Enrolled(c)
    /\ lostProbes' = StillLost
    /\ UNCHANGED <<attempt, qualityCount, verdict, providerUp, apiCalls>>

\* _before_request raises circuit_open, which _execute_with_retry catches.
Reject(c) ==
    /\ pc[c] = "before"
    /\ RejectRequest
    /\ Goto(c, "failed")
    /\ verdict' = [verdict EXCEPT ![c] = "circuit_open"]
    /\ UNCHANGED <<attempt, qualityCount, providerUp, apiCalls, probes, lostProbes>>

\* The rate limiters have been passed and the semaphore is acquired.
Sending == {c \in Callers : pc[c] = "sending"}

Send(c) ==
    /\ pc[c] = "admitted"
    /\ Cardinality(Sending) < MaxInFlight
    /\ Goto(c, "sending")
    /\ apiCalls' = [apiCalls EXCEPT ![c] = SaturatingInc(@, CallLimit + 1)]
    /\ UNCHANGED <<breakerVars, attempt, qualityCount, verdict, providerUp, probes, lostProbes>>

\* A response arrives; its quality is judged outside the semaphore.
Respond(c) ==
    /\ pc[c] = "sending"
    /\ \E q \in {"good"} \cup (IF providerUp THEN {} ELSE QualityKinds) :
           verdict' = [verdict EXCEPT ![c] = q]
    /\ Goto(c, "response")
    /\ UNCHANGED <<breakerVars, attempt, qualityCount, providerUp, apiCalls, probes, lostProbes>>

\* The request raises, or its response carries an API-side error.
ApiError(c) ==
    /\ pc[c] = "sending"
    /\ ~providerUp
    /\ \E e \in ApiErrors : verdict' = [verdict EXCEPT ![c] = e]
    /\ Goto(c, "failed")
    /\ UNCHANGED <<breakerVars, attempt, qualityCount, providerUp, apiCalls, probes, lostProbes>>

\* An exception no handler expects (the client's constructor, a validator)
\* leaves both loops without a word to the breaker.
Uncaught(c) ==
    /\ UncaughtErrors
    /\ ~providerUp
    /\ pc[c] \in {"sending", "response"}
    /\ Leave(c)
    /\ probes' = probes \ {c}
    /\ lostProbes' = IF c \in probes THEN SaturatingInc(lostProbes, HalfOpenProbeRequests)
                     ELSE lostProbes
    /\ UNCHANGED <<breakerVars, providerUp>>

-----------------------------------------------------------------------------
\* Mutant: one attempt too many.
RetriesLeftOffByOne(c) == verdict[c] = "retriable" /\ attempt[c] <= MaxRetries

\* Mutant: the inner loop forgets to count its attempts.
AfterRequestFailureUncounted(c) ==
    /\ pc[c] = "failed"
    /\ IF verdict[c] = "retriable" THEN RecordRetriableError ELSE RecordIgnoredFailure
    /\ IF verdict[c] = "retriable" /\ attempt[c] < MaxRetries
       THEN /\ Goto(c, "before")
            /\ verdict' = [verdict EXCEPT ![c] = "good"]
            /\ UNCHANGED <<attempt, qualityCount, apiCalls>>
       ELSE Leave(c)
    /\ probes' = Reported(c)
    /\ lostProbes' = StillLost
    /\ UNCHANGED providerUp

\* The tests that end the two retry loops.
RetriesLeft(c) == verdict[c] = "retriable" /\ attempt[c] < MaxRetries
QualityRetriesLeft(c) == qualityCount[c][verdict[c]] < QualityRetries[verdict[c]]

\* _after_request_failure, then raise, or back off and try again.
AfterRequestFailure(c) ==
    /\ pc[c] = "failed"
    /\ IF verdict[c] = "retriable" THEN RecordRetriableError ELSE RecordIgnoredFailure
    /\ IF RetriesLeft(c)
       THEN /\ Goto(c, "before")
            /\ attempt' = [attempt EXCEPT ![c] = @ + 1]
            /\ verdict' = [verdict EXCEPT ![c] = "good"]
            /\ UNCHANGED <<qualityCount, apiCalls>>
       ELSE Leave(c)
    /\ probes' = Reported(c)
    /\ lostProbes' = StillLost
    /\ UNCHANGED providerUp

\* _record_response_quality_failure, then raise, or restart the inner loop.
ResponseQualityFailure(c) ==
    /\ pc[c] = "response"
    /\ verdict[c] \in QualityKinds
    /\ RecordResponseQualityFailure
    /\ IF QualityRetriesLeft(c)
       THEN /\ Goto(c, "before")
            /\ attempt' = [attempt EXCEPT ![c] = 0]
            /\ qualityCount' = [qualityCount EXCEPT ![c][verdict[c]] = @ + 1]
            /\ verdict' = [verdict EXCEPT ![c] = "good"]
            /\ UNCHANGED apiCalls
       ELSE Leave(c)
    /\ probes' = Reported(c)
    /\ lostProbes' = StillLost
    /\ UNCHANGED providerUp

\* _after_request_success; the call returns.
AfterRequestSuccess(c) ==
    /\ pc[c] = "response"
    /\ verdict[c] = "good"
    /\ RecordSuccess
    /\ Leave(c)
    /\ probes' = Reported(c)
    /\ lostProbes' = StillLost
    /\ UNCHANGED providerUp

\* External: the service fails or recovers.
ProviderFlips ==
    /\ providerUp' = ~providerUp
    /\ UNCHANGED <<breakerVars, callVars, apiCalls, probes, lostProbes>>

Cooldown ==
    /\ Tick
    /\ UNCHANGED <<callVars, providerUp, apiCalls, probes, lostProbes>>

CallStep(c) ==
    \/ Admit(c) \/ Reject(c) \/ Send(c) \/ Respond(c) \/ ApiError(c) \/ Uncaught(c)
    \/ AfterRequestFailure(c) \/ ResponseQualityFailure(c) \/ AfterRequestSuccess(c)

Next ==
    \/ \E c \in Callers : CreateText(c) \/ CallStep(c)
    \/ ProviderFlips
    \/ Cooldown

Spec == Init /\ [][Next]_vars

\* Threads are scheduled, the service answers every request it was sent, and
\* the clock runs.  Nobody has to call, and the service need not recover.  A
\* caller that waits for the semaphore gets it if it is released again and
\* again, which needs strong fairness.
FairSpec ==
    /\ Spec
    /\ \A c \in Callers : SF_vars(Send(c)) /\ WF_vars(CallStep(c))
    /\ WF_vars(Cooldown)

-----------------------------------------------------------------------------
\* The counters of the half-open period are zero outside it, and a breaker
\* that is closed has not overlooked a run of errors (_open_locked and
\* _close_locked reset them; record_retriable_error tests the run).
BreakerConsistent ==
    /\ state # "half_open" => halfOpenInFlight = 0 /\ halfOpenSuccesses = 0
    /\ state = "closed" => consecutiveRetriableErrors < ConsecutiveRetriableErrors
    /\ state # "open" => cooldownLeft = 0

\* Whatever order calls report in, also calls admitted before the breaker
\* opened, the breaker never counts a probe that is not out: a half-open
\* breaker refuses only on account of requests that will still report, or of
\* requests that left by an exception nobody caught.
NoPhantomProbe == halfOpenInFlight <= Cardinality(probes) + lostProbes

\* The nested retries of one call stay within the product of the two budgets,
\* whatever mix of API errors and unusable responses occurs.
CallBudget == \A c \in Callers : apiCalls[c] <= CallLimit

\* Every call of create_text returns or raises.
CallsReturn == \A c \in Callers : pc[c] # "idle" ~> pc[c] = "idle"

\* If the service stays up and the load pauses now and then (every training
\* step waits for all its calls), while calls keep coming, the breaker closes
\* for good, whatever was thrown before that.  Only a probe that is lost for
\* good, to an exception nobody caught in the present half-open period, keeps
\* its slot and may keep the breaker from closing.
Quiet == \A c \in Callers : pc[c] = "idle"
RecoveryCloses ==
    (<>[]providerUp /\ <>[](lostProbes = 0) /\ []<>Quiet /\ []<>~Quiet)
        => <>[](state = "closed")

\* What the docstring of _record_response_quality_failure says: an unusable
\* response has no effect on the circuit breaker.  A probe that ends this way
\* has to give its slot back, so this is asked only of calls that are no probe
\* of the current half-open period.
QualityFailureSparesBreaker ==
    [][\A c \in Callers :
           ResponseQualityFailure(c) /\ c \notin probes => UNCHANGED breakerVars]_vars
=============================================================================

------------------------ MODULE JudgeRequestLoopProofs ------------------------
(***************************************************************************)
(* Proofs about JudgeRequestLoop, for any number of threads, any budgets   *)
(* and any thresholds of the breaker, and about the counters that          *)
(* JudgeRequestMetrics adds.                                               *)
(***************************************************************************)
EXTENDS JudgeRequestMetrics, FiniteSetTheorems, SequenceTheorems, InductionFacts, TLAPS

\* A probe is a call that has been admitted and has not reported.
ProbesAreOut ==
    \A c \in probes : pc[c] \in {"admitted", "sending", "failed", "response"}

LoopInv ==
    /\ TypeOK
    /\ BreakerConsistent
    /\ ProbesAreOut
    /\ NoPhantomProbe

-----------------------------------------------------------------------------
(* The breaker's operators.                                                *)

\* The deque keeps its bound, and a full one drops its oldest outcome.
LEMMA PushOutcomeType ==
    ASSUME BreakerTypeOK, NEW b \in BOOLEAN
    PROVE  PushOutcome(b) \in Seq(BOOLEAN) /\ Len(PushOutcome(b)) <= RollingWindowSize
<1> DEFINE r == recentOutcomes
<1>0. r \in Seq(BOOLEAN) /\ Len(r) \in Nat /\ Len(r) <= RollingWindowSize
  BY LenProperties DEF BreakerTypeOK
<1>1. CASE Len(r) < RollingWindowSize
  <2>1. PushOutcome(b) = Append(r, b)
    BY <1>1 DEF PushOutcome
  <2>2. Append(r, b) \in Seq(BOOLEAN) /\ Len(Append(r, b)) = Len(r) + 1
    BY <1>0, AppendProperties
  <2> QED
    BY <1>0, <1>1, <2>1, <2>2, BreakerAssumption
<1>2. CASE ~(Len(r) < RollingWindowSize)
  <2>1. r # <<>>
    BY <1>0, <1>2, BreakerAssumption, EmptySeq
  <2>2. Tail(r) \in Seq(BOOLEAN) /\ Len(Tail(r)) = Len(r) - 1
    BY <1>0, <2>1, HeadTailProperties
  <2>3. PushOutcome(b) = Append(Tail(r), b)
    BY <1>2 DEF PushOutcome
  <2>4. /\ Append(Tail(r), b) \in Seq(BOOLEAN)
        /\ Len(Append(Tail(r), b)) = Len(Tail(r)) + 1
    BY <2>2, AppendProperties
  <2> QED
    BY <1>0, <2>2, <2>3, <2>4
<1> QED
  BY <1>1, <1>2

\* Every method of the breaker and the clock keep its types and its counters
\* consistent, whatever was reported before.
LEMMA BreakerMethods ==
    ASSUME BreakerTypeOK, BreakerConsistent,
           \/ AllowRequest \/ RejectRequest \/ RecordSuccess \/ RecordRetriableError
           \/ RecordIgnoredFailure \/ RecordResponseQualityFailure \/ Tick
           \/ UNCHANGED breakerVars
    PROVE  BreakerTypeOK' /\ BreakerConsistent'
<1>0. \A b \in BOOLEAN : /\ PushOutcome(b) \in Seq(BOOLEAN)
                         /\ Len(PushOutcome(b)) <= RollingWindowSize
  BY PushOutcomeType
<1> USE BreakerAssumption DEF BreakerTypeOK, BreakerConsistent
<1>1. CASE AllowRequest
  BY <1>1 DEF AllowRequest, CooledDown, breakerVars
<1>2. CASE RejectRequest \/ UNCHANGED breakerVars
  BY <1>2 DEF RejectRequest, breakerVars
<1>3. CASE RecordSuccess
  <2>1. CASE CompletesProbing /\ CloseLocked
    BY <1>3, <2>1 DEF RecordSuccess, CompletesProbing, CloseLocked
  <2>2. CASE ~CompletesProbing
    <3>1. recentOutcomes' = PushOutcome(FALSE) /\ consecutiveRetriableErrors' = 0
      BY <1>3, <2>2 DEF RecordSuccess
    <3>2. recentOutcomes' \in Seq(BOOLEAN) /\ Len(recentOutcomes') <= RollingWindowSize
      BY <1>0, <3>1
    <3>3. UNCHANGED <<state, cooldownLeft>>
      BY <1>3, <2>2 DEF RecordSuccess
    <3>4. /\ halfOpenInFlight' \in 0..HalfOpenProbeRequests
          /\ halfOpenSuccesses' \in 0..HalfOpenProbeRequests
          /\ state # "half_open" => /\ halfOpenInFlight' = halfOpenInFlight
                                    /\ halfOpenSuccesses' = halfOpenSuccesses
      <4>1. CASE state = "half_open"
        <5>1. /\ halfOpenInFlight' = OneFewerInFlight
              /\ halfOpenSuccesses' = SaturatingInc(halfOpenSuccesses, HalfOpenProbeRequests)
          BY <1>3, <2>2, <4>1 DEF RecordSuccess
        <5> QED
          BY <4>1, <5>1 DEF OneFewerInFlight, SaturatingInc
      <4>2. CASE state # "half_open"
        BY <1>3, <2>2, <4>2 DEF RecordSuccess
      <4> QED
        BY <4>1, <4>2
    <3>5. BreakerTypeOK'
      <4>1. /\ state' \in {"closed", "open", "half_open"}
            /\ cooldownLeft' \in 0..CooldownSeconds
            /\ consecutiveRetriableErrors' \in 0..ConsecutiveRetriableErrors
        BY <3>1, <3>3
      <4> QED
        BY <3>2, <3>4, <4>1
    <3>6. BreakerConsistent'
      BY <3>1, <3>3, <3>4
    <3> QED
      BY <3>5, <3>6
  <2> QED
    BY <1>3, <2>1, <2>2 DEF RecordSuccess
<1>4. CASE RecordRetriableError
  <2>1. recentOutcomes' \in Seq(BOOLEAN) /\ Len(recentOutcomes') <= RollingWindowSize
    BY <1>0, <1>4 DEF RecordRetriableError
  <2>2. consecutiveRetriableErrors' \in 0..ConsecutiveRetriableErrors
    BY <1>4 DEF RecordRetriableError, SaturatingInc
  <2>3. CASE OpenLocked
    BY <2>1, <2>2, <2>3 DEF OpenLocked
  <2>4. CASE ~Trips /\ UNCHANGED <<state, cooldownLeft, halfOpenInFlight, halfOpenSuccesses>>
    BY <2>1, <2>2, <2>4 DEF Trips
  <2> QED
    BY <1>4, <2>3, <2>4 DEF RecordRetriableError
<1>5. CASE RecordIgnoredFailure \/ RecordResponseQualityFailure
  BY <1>5 DEF RecordIgnoredFailure, RecordResponseQualityFailure, ReleaseSlot, OneFewerInFlight
<1>6. CASE Tick
  BY <1>6 DEF Tick
<1> QED
  BY <1>1, <1>2, <1>3, <1>4, <1>5, <1>6

\* A report takes at most one slot back, and closes or opens the breaker with
\* no slot taken.
LEMMA ReportsReleaseOneSlot ==
    ASSUME BreakerTypeOK, BreakerConsistent,
           \/ RecordSuccess \/ RecordRetriableError
           \/ RecordIgnoredFailure \/ RecordResponseQualityFailure
    PROVE  /\ state' = "half_open" => state = "half_open"
           /\ state' = "half_open" => halfOpenInFlight' = OneFewerInFlight
           /\ state' # "half_open" => halfOpenInFlight' = 0
<1> USE BreakerAssumption DEF BreakerTypeOK, BreakerConsistent
<1>1. CASE RecordSuccess
  BY <1>1 DEF RecordSuccess, CompletesProbing, CloseLocked
<1>2. CASE RecordRetriableError
  BY <1>2 DEF RecordRetriableError, Trips, OpenLocked
<1>3. CASE RecordIgnoredFailure \/ RecordResponseQualityFailure
  BY <1>3 DEF RecordIgnoredFailure, RecordResponseQualityFailure, ReleaseSlot
<1> QED
  BY <1>1, <1>2, <1>3

-----------------------------------------------------------------------------
(* The probes.                                                             *)

\* Whoever reports, whether a probe or a straggler from before the breaker
\* opened, the slots in use stay covered by the probes that are out.
LEMMA ReportKeepsProbes ==
    ASSUME LoopInv, NEW c \in Callers,
           \/ RecordSuccess \/ RecordRetriableError
           \/ RecordIgnoredFailure \/ RecordResponseQualityFailure,
           probes' = Reported(c), lostProbes' = StillLost
    PROVE  /\ probes' \subseteq Callers \ {c}
           /\ probes' \subseteq probes
           /\ lostProbes' \in 0..HalfOpenProbeRequests
           /\ NoPhantomProbe'
<1> USE BreakerAssumption, LoopAssumption DEF LoopInv, TypeOK, BreakerTypeOK
<1>1. IsFiniteSet(probes) /\ Cardinality(probes) \in Nat
  BY FS_Subset, FS_CardinalityType
<1>2. probes' \subseteq Callers \ {c} /\ probes' \subseteq probes
  BY DEF Reported
<1>3. lostProbes' \in 0..HalfOpenProbeRequests
  BY DEF StillLost
<1>4. NoPhantomProbe'
  <2>1. CASE state' # "half_open"
    <3>1. halfOpenInFlight' = 0 /\ probes' = {} /\ lostProbes' = 0
      BY <2>1, ReportsReleaseOneSlot DEF Reported, StillLost
    <3> QED
      BY <3>1, FS_EmptySet DEF NoPhantomProbe
  <2>2. CASE state' = "half_open"
    <3>1. /\ state = "half_open" /\ halfOpenInFlight' = OneFewerInFlight
          /\ probes' = probes \ {c} /\ lostProbes' = lostProbes
      BY <2>2, ReportsReleaseOneSlot DEF Reported, StillLost
    <3>2. Cardinality(probes \ {c}) = IF c \in probes THEN Cardinality(probes) - 1
                                                      ELSE Cardinality(probes)
      BY <1>1, FS_RemoveElement
    <3>3. Cardinality(probes \ {c}) \in Nat
      BY <1>1, FS_RemoveElement, FS_CardinalityType
    <3> QED
      BY <1>1, <3>1, <3>2, <3>3 DEF NoPhantomProbe, OneFewerInFlight
  <2> QED
    BY <2>1, <2>2
<1> QED
  BY <1>2, <1>3, <1>4

-----------------------------------------------------------------------------
(* The two loops.                                                          *)

\* What a call keeps in its locals, and the history of its requests.
LocalsTypeOK ==
    /\ pc \in [Callers -> PCs]
    /\ attempt \in [Callers -> 0..MaxRetries]
    /\ qualityCount \in [Callers -> [QualityKinds -> Nat]]
    /\ \A c \in Callers, k \in QualityKinds : qualityCount[c][k] <= QualityRetries[k]
    /\ verdict \in [Callers -> Verdicts]
    /\ apiCalls \in [Callers -> Nat]

LEMMA LeaveType ==
    ASSUME LocalsTypeOK, NEW c \in Callers, Leave(c)
    PROVE  LocalsTypeOK'
  BY LoopAssumption DEF LocalsTypeOK, Leave, Goto, NoneYet, PCs, Verdicts

\* A call may go round either loop while its budget lasts, and what it leaves
\* behind is in its place.
LEMMA CallStepTypes ==
    ASSUME LocalsTypeOK, NEW c \in Callers, CreateText(c) \/ CallStep(c)
    PROVE  LocalsTypeOK'
<1> USE LoopAssumption DEF LocalsTypeOK, Goto, PCs, Verdicts, ApiErrors
<1>1. CASE CreateText(c) \/ Admit(c) \/ Reject(c)
  BY <1>1 DEF CreateText, Admit, Reject
<1>2. CASE Send(c)
  <2>1. SaturatingInc(apiCalls[c], CallLimit + 1) \in Nat
    BY DEF SaturatingInc
  <2> QED
    BY <1>2, <2>1 DEF Send
<1>3. CASE Respond(c)
  BY <1>3 DEF Respond
<1>4. CASE ApiError(c)
  BY <1>4 DEF ApiError
<1>5. CASE Uncaught(c) \/ AfterRequestSuccess(c)
  BY <1>5, LeaveType DEF Uncaught, AfterRequestSuccess
<1>6. CASE AfterRequestFailure(c)
  <2>1. CASE RetriesLeft(c)
    <3>1. attempt[c] + 1 \in 0..MaxRetries
      BY <2>1 DEF RetriesLeft
    <3> QED
      BY <1>6, <2>1, <3>1 DEF AfterRequestFailure
  <2>2. CASE ~RetriesLeft(c)
    BY <1>6, <2>2, LeaveType DEF AfterRequestFailure
  <2> QED
    BY <2>1, <2>2
<1>7. CASE ResponseQualityFailure(c)
  <2>1. CASE QualityRetriesLeft(c)
    <3> DEFINE q == verdict[c]
    <3>1. q \in QualityKinds /\ qualityCount' = [qualityCount EXCEPT ![c][q] = @ + 1]
      BY <1>7, <2>1 DEF ResponseQualityFailure
    <3>2. qualityCount[c][q] \in Nat /\ QualityRetries[q] \in Nat
      BY <3>1
    <3>3. qualityCount[c][q] + 1 <= QualityRetries[q]
      BY <2>1, <3>2 DEF QualityRetriesLeft
    <3>4. qualityCount' \in [Callers -> [QualityKinds -> Nat]]
      BY <3>1
    <3>5. \A d \in Callers, k \in QualityKinds : qualityCount'[d][k] <= QualityRetries[k]
      BY <3>1, <3>3
    <3>6. /\ pc' \in [Callers -> PCs]
          /\ attempt' \in [Callers -> 0..MaxRetries]
          /\ verdict' \in [Callers -> Verdicts]
          /\ apiCalls' \in [Callers -> Nat]
      <4>1. /\ pc' = [pc EXCEPT ![c] = "before"]
            /\ attempt' = [attempt EXCEPT ![c] = 0]
            /\ verdict' = [verdict EXCEPT ![c] = "good"]
            /\ apiCalls' = apiCalls
        BY <1>7, <2>1 DEF ResponseQualityFailure
      <4> QED
        BY <4>1
    <3> QED
      BY <3>4, <3>5, <3>6, Zenon DEF LocalsTypeOK
  <2>2. CASE ~QualityRetriesLeft(c)
    BY <1>7, <2>2, LeaveType DEF ResponseQualityFailure
  <2> QED
    BY <2>1, <2>2
<1> QED
  BY <1>1, <1>2, <1>3, <1>4, <1>5, <1>6, <1>7 DEF CallStep

\* Where a step of a call leaves the probes: an admission enrols the caller, a
\* report or an exception strikes it off, and every other step leaves them be.
LEMMA AdmitKeepsProbes ==
    ASSUME LoopInv, NEW c \in Callers, Admit(c)
    PROVE  /\ probes' \subseteq Callers
           /\ lostProbes' \in 0..HalfOpenProbeRequests
           /\ ProbesAreOut'
           /\ NoPhantomProbe'
<1> USE BreakerAssumption, LoopAssumption DEF LoopInv, TypeOK, BreakerTypeOK
<1>1. IsFiniteSet(probes) /\ Cardinality(probes) \in Nat
  BY FS_Subset, FS_CardinalityType
<1>2. c \notin probes
  BY DEF ProbesAreOut, Admit
<1>3. /\ pc' = [pc EXCEPT ![c] = "admitted"]
      /\ probes' = Enrolled(c)
      /\ lostProbes' = StillLost
  BY DEF Admit, Goto
<1>4. probes' \subseteq probes \cup {c}
  BY <1>3 DEF Enrolled
<1>5. lostProbes' \in 0..HalfOpenProbeRequests
  BY <1>3 DEF StillLost
<1>6. ProbesAreOut'
  BY <1>3, <1>4 DEF ProbesAreOut
<1>7. NoPhantomProbe'
  <2>1. CASE state' # "half_open"
    <3>1. halfOpenInFlight' = 0 /\ probes' = {} /\ lostProbes' = 0
      <4>1. state' = "closed" /\ UNCHANGED breakerVars
        BY <2>1 DEF Admit, AllowRequest, breakerVars
      <4> QED
        BY <1>3, <2>1, <4>1 DEF BreakerConsistent, Enrolled, StillLost, breakerVars
    <3> QED
      BY <3>1, FS_EmptySet DEF NoPhantomProbe
  <2>2. CASE state' = "half_open" /\ state # "half_open"
    <3>1. halfOpenInFlight' = 1 /\ probes' = {c} /\ lostProbes' = 0
      <4>1. halfOpenInFlight' = 1
        BY <2>2 DEF Admit, AllowRequest, breakerVars
      <4> QED
        BY <1>3, <2>2, <4>1 DEF Enrolled, StillLost
    <3>2. Cardinality(probes') = 1
      BY <3>1, FS_Singleton
    <3> QED
      BY <3>1, <3>2 DEF NoPhantomProbe
  <2>3. CASE state' = "half_open" /\ state = "half_open"
    <3>1. /\ halfOpenInFlight' = halfOpenInFlight + 1
          /\ probes' = probes \cup {c} /\ lostProbes' = lostProbes
      <4>1. halfOpenInFlight' = halfOpenInFlight + 1
        BY <2>3 DEF Admit, AllowRequest, CooledDown
      <4> QED
        BY <1>3, <2>3, <4>1 DEF Enrolled, StillLost
    <3>2. Cardinality(probes \cup {c}) = Cardinality(probes) + 1
      BY <1>1, <1>2, FS_AddElement
    <3> QED
      BY <1>1, <3>1, <3>2 DEF NoPhantomProbe
  <2> QED
    BY <2>1, <2>2, <2>3
<1> QED
  BY <1>4, <1>5, <1>6, <1>7

\* A probe that leaves without a word moves from one side of the account to
\* the other, up to the point where every slot may be lost.
LEMMA UncaughtKeepsProbes ==
    ASSUME LoopInv, NEW c \in Callers, Uncaught(c)
    PROVE  /\ probes' \subseteq Callers
           /\ lostProbes' \in 0..HalfOpenProbeRequests
           /\ ProbesAreOut'
           /\ NoPhantomProbe'
<1> USE BreakerAssumption, LoopAssumption DEF LoopInv, TypeOK, BreakerTypeOK
<1>1. IsFiniteSet(probes) /\ Cardinality(probes) \in Nat
  BY FS_Subset, FS_CardinalityType
<1>2. /\ pc' = [pc EXCEPT ![c] = "idle"]
      /\ probes' = probes \ {c}
      /\ UNCHANGED breakerVars
  BY DEF Uncaught, Leave, Goto
<1>3. lostProbes' = IF c \in probes THEN SaturatingInc(lostProbes, HalfOpenProbeRequests)
                                     ELSE lostProbes
  BY DEF Uncaught
<1>4. lostProbes' \in 0..HalfOpenProbeRequests
  BY <1>3 DEF SaturatingInc
<1>5. ProbesAreOut'
  BY <1>2 DEF ProbesAreOut
<1>6. NoPhantomProbe'
  <2>1. Cardinality(probes \ {c}) = IF c \in probes THEN Cardinality(probes) - 1
                                                    ELSE Cardinality(probes)
    BY <1>1, FS_RemoveElement
  <2>2. Cardinality(probes \ {c}) \in Nat
    BY <1>1, FS_RemoveElement, FS_CardinalityType
  <2>3. halfOpenInFlight' = halfOpenInFlight
    BY <1>2 DEF breakerVars
  <2> QED
    BY <1>1, <1>2, <1>3, <2>1, <2>2, <2>3 DEF NoPhantomProbe, SaturatingInc
<1> QED
  BY <1>2, <1>4, <1>5, <1>6

-----------------------------------------------------------------------------
(* The invariant.                                                          *)

LEMMA LoopInit == Init => LoopInv
<1> SUFFICES ASSUME Init PROVE LoopInv
  OBVIOUS
<1> USE BreakerAssumption, LoopAssumption DEF Init, BreakerInit
<1>1. BreakerTypeOK /\ BreakerConsistent
  BY DEF BreakerTypeOK, BreakerConsistent
<1>2. LocalsTypeOK
  BY DEF LocalsTypeOK, NoneYet, PCs, Verdicts
<1>3. TypeOK
  BY <1>1, <1>2 DEF TypeOK, LocalsTypeOK
<1>4. ProbesAreOut
  BY DEF ProbesAreOut
<1>5. NoPhantomProbe
  BY FS_EmptySet DEF NoPhantomProbe
<1> QED
  BY <1>1, <1>3, <1>4, <1>5 DEF LoopInv

\* Every step takes at most one of the breaker's methods.
LEMMA NextTakesABreakerStep ==
    ASSUME LoopInv, [Next]_vars
    PROVE  BreakerTypeOK' /\ BreakerConsistent'
<1>1. \/ AllowRequest \/ RejectRequest \/ RecordSuccess \/ RecordRetriableError
      \/ RecordIgnoredFailure \/ RecordResponseQualityFailure \/ Tick
      \/ UNCHANGED breakerVars
  BY DEF Next, CallStep, CreateText, Admit, Reject, Send, Respond, ApiError, Uncaught,
         AfterRequestFailure, ResponseQualityFailure, AfterRequestSuccess,
         ProviderFlips, Cooldown, vars
<1> QED
  BY <1>1, BreakerMethods DEF LoopInv, TypeOK

LEMMA LoopNext ==
    ASSUME LoopInv, [Next]_vars
    PROVE  LoopInv'
<1> DEFINE Probes == /\ probes \subseteq Callers
                     /\ lostProbes \in 0..HalfOpenProbeRequests
                     /\ ProbesAreOut
                     /\ NoPhantomProbe
<1>1. BreakerTypeOK' /\ BreakerConsistent'
  BY NextTakesABreakerStep
<1>2. LocalsTypeOK /\ Probes
  BY DEF LoopInv, TypeOK, LocalsTypeOK
<1>3. LocalsTypeOK' /\ Probes' /\ providerUp' \in BOOLEAN
  <2>0. providerUp' \in BOOLEAN
    BY DEF Next, CallStep, CreateText, Admit, Reject, Send, Respond, ApiError, Uncaught,
           AfterRequestFailure, ResponseQualityFailure, AfterRequestSuccess,
           ProviderFlips, Cooldown, vars, LoopInv, TypeOK
  <2>1. ASSUME NEW c \in Callers, CreateText(c) \/ CallStep(c)
        PROVE  LocalsTypeOK' /\ Probes'
    <3>1. LocalsTypeOK'
      BY <1>2, <2>1, CallStepTypes
    <3>2. CASE CreateText(c)
      <4>1. UNCHANGED <<probes, lostProbes, breakerVars>> /\ pc' = [pc EXCEPT ![c] = "before"]
            /\ c \notin probes
        BY <1>2, <3>2 DEF CreateText, Goto, ProbesAreOut
      <4> QED
        BY <1>2, <3>1, <4>1 DEF ProbesAreOut, NoPhantomProbe, LocalsTypeOK, breakerVars
    <3>3. CASE Admit(c)
      BY <3>1, <3>3, AdmitKeepsProbes
    <3>4. CASE Reject(c) \/ Send(c) \/ Respond(c) \/ ApiError(c)
      <4>1. /\ UNCHANGED <<probes, lostProbes, breakerVars>>
            /\ \/ pc[c] = "before" /\ pc' = [pc EXCEPT ![c] = "failed"]
               \/ pc' = [pc EXCEPT ![c] = "sending"]
               \/ pc' = [pc EXCEPT ![c] = "response"]
               \/ pc' = [pc EXCEPT ![c] = "failed"]
        BY <3>4 DEF Reject, RejectRequest, Send, Respond, ApiError, Goto
      <4> QED
        BY <1>2, <3>1, <4>1 DEF ProbesAreOut, NoPhantomProbe, LocalsTypeOK, breakerVars
    <3>5. CASE Uncaught(c)
      BY <3>1, <3>5, UncaughtKeepsProbes
    <3>6. CASE \/ AfterRequestFailure(c) \/ ResponseQualityFailure(c)
               \/ AfterRequestSuccess(c)
      <4>1. /\ \/ RecordSuccess \/ RecordRetriableError
               \/ RecordIgnoredFailure \/ RecordResponseQualityFailure
            /\ probes' = Reported(c) /\ lostProbes' = StillLost
            /\ \A d \in Callers \ {c} : pc'[d] = pc[d]
        BY <1>2, <3>6 DEF AfterRequestFailure, ResponseQualityFailure, AfterRequestSuccess,
                          Leave, Goto, LocalsTypeOK
      <4>2. /\ probes' \subseteq Callers \ {c}
            /\ probes' \subseteq probes
            /\ lostProbes' \in 0..HalfOpenProbeRequests
            /\ NoPhantomProbe'
        BY <4>1, ReportKeepsProbes
      <4>3. ProbesAreOut'
        BY <1>2, <4>1, <4>2 DEF ProbesAreOut
      <4> QED
        BY <3>1, <4>2, <4>3
    <3> QED
      BY <2>1, <3>2, <3>3, <3>4, <3>5, <3>6 DEF CallStep
  <2>2. CASE ProviderFlips \/ Cooldown \/ UNCHANGED vars
    <3>1. UNCHANGED <<callVars, apiCalls, probes, lostProbes, halfOpenInFlight>>
      BY <2>2 DEF ProviderFlips, Cooldown, Tick, vars, breakerVars
    <3> QED
      BY <1>2, <2>0, <3>1 DEF LocalsTypeOK, callVars, ProbesAreOut, NoPhantomProbe
  <2> QED
    BY <2>0, <2>1, <2>2 DEF Next
<1> QED
  BY <1>1, <1>3 DEF LoopInv, TypeOK, LocalsTypeOK

THEOREM LoopInvariant == Spec => []LoopInv
<1> QED
  BY LoopInit, LoopNext, PTL DEF Spec

\* The type invariant of the request loop.
THEOREM LoopTypes == Spec => []TypeOK
<1>1. LoopInv => TypeOK
  BY DEF LoopInv
<1> QED
  BY <1>1, LoopInvariant, PTL

\* A breaker that is closed has not overlooked a run of errors, and the counters
\* of a half-open period are zero outside it, for any thresholds and however
\* many threads report in whatever order.
THEOREM BreakerKeepsItsBooks == Spec => []BreakerConsistent
<1>1. LoopInv => BreakerConsistent
  BY DEF LoopInv
<1> QED
  BY <1>1, LoopInvariant, PTL

\* A half-open breaker never refuses a call on account of a request that has
\* already reported, stragglers from before it opened included.
THEOREM EverySlotIsAProbe == Spec => []NoPhantomProbe
<1>1. LoopInv => NoPhantomProbe
  BY DEF LoopInv
<1> QED
  BY <1>1, LoopInvariant, PTL

-----------------------------------------------------------------------------
(***************************************************************************)
(* The budget of a call.  Each unusable response that is retried grants a  *)
(* new round of MaxRetries + 1 requests, so what a call has sent is paid   *)
(* for by the quality retries it has used up and by its present attempt.   *)
(***************************************************************************)
Round == MaxRetries + 1
RoundsUsed(c) == SumFunction(qualityCount[c])
Underway(c) == IF pc[c] \in {"sending", "failed", "response"} THEN 1 ELSE 0

PaidFor ==
    \A c \in Callers : apiCalls[c] <= Round * RoundsUsed(c) + attempt[c] + Underway(c)

\* The counts of a call add up to a natural, and one more retry to one more.
LEMMA RoundsUsedType ==
    ASSUME TypeOK, NEW c \in Callers
    PROVE  /\ RoundsUsed(c) = SumFunctionOnSet(qualityCount[c], QualityKinds)
           /\ RoundsUsed(c) \in Nat
           /\ RoundsUsed(c) <= SumFunction(QualityRetries)
           /\ SumFunction(QualityRetries) \in Nat
<1> DEFINE f == qualityCount[c]
<1>1. /\ f \in [QualityKinds -> Nat] /\ \A k \in QualityKinds : f[k] <= QualityRetries[k]
      /\ QualityRetries \in [QualityKinds -> Nat] /\ IsFiniteSet(QualityKinds)
  BY LoopAssumption DEF TypeOK
<1>2. /\ DOMAIN f = QualityKinds /\ DOMAIN QualityRetries = QualityKinds
      /\ \A k \in QualityKinds : f[k] \in Nat /\ QualityRetries[k] \in Nat
  <2> HIDE DEF f
  <2> QED
    BY <1>1
<1>3. /\ SumFunctionOnSet(f, QualityKinds) \in Nat
      /\ SumFunctionOnSet(QualityRetries, QualityKinds) \in Nat
  <2> HIDE DEF f
  <2> QED
    BY <1>1, <1>2, SumType
<1>4. SumFunctionOnSet(f, QualityKinds) <= SumFunctionOnSet(QualityRetries, QualityKinds)
  <2> HIDE DEF f
  <2> QED
    BY <1>1, <1>2, SumMonotone
<1>5. /\ SumFunction(f) = SumFunctionOnSet(f, QualityKinds)
      /\ SumFunction(QualityRetries) = SumFunctionOnSet(QualityRetries, QualityKinds)
  BY <1>2 DEF SumFunction
<1> QED
  BY <1>3, <1>4, <1>5 DEF RoundsUsed

\* A new call has used nothing.
LEMMA NoneYetIsZero == SumFunction(NoneYet) = 0
<1>1. DOMAIN NoneYet = QualityKinds /\ \A k \in QualityKinds : NoneYet[k] = 0
  BY DEF NoneYet
<1>2. SumFunctionOnSet(NoneYet, QualityKinds) = 0
  BY <1>1, LoopAssumption, SumZero
<1> QED
  BY <1>1, <1>2 DEF SumFunction

\* A call that leaves owes nothing.
LEMMA LeaveOwesNothing ==
    ASSUME TypeOK, NEW c \in Callers, Leave(c)
    PROVE  /\ apiCalls'[c] = 0 /\ attempt'[c] = 0 /\ pc'[c] = "idle"
           /\ SumFunction(qualityCount'[c]) = 0
<1>1. qualityCount'[c] = NoneYet
  BY DEF Leave, TypeOK
<1>2. SumFunction(qualityCount'[c]) = 0
  BY <1>1, NoneYetIsZero
<1> QED
  BY <1>2 DEF Leave, Goto, TypeOK

\* Every step of a call keeps what it has sent paid for.
LEMMA CallStepPaid ==
    ASSUME TypeOK, NEW c \in Callers, CreateText(c) \/ CallStep(c),
           apiCalls[c] <= Round * RoundsUsed(c) + attempt[c] + Underway(c)
    PROVE  apiCalls'[c] <= Round * SumFunction(qualityCount'[c]) + attempt'[c]
                           + (IF pc'[c] \in {"sending", "failed", "response"} THEN 1 ELSE 0)
<1>1. /\ apiCalls[c] \in Nat /\ attempt[c] \in 0..MaxRetries /\ MaxRetries \in Nat
      /\ pc[c] \in PCs /\ RoundsUsed(c) \in Nat
  BY LoopAssumption, RoundsUsedType DEF TypeOK
<1>2. Round \in Nat /\ Round * RoundsUsed(c) \in Nat
  BY <1>1 DEF Round
<1> DEFINE sent == apiCalls[c]
           paid == Round * RoundsUsed(c)
<1>3. CASE CreateText(c) \/ Admit(c) \/ Reject(c) \/ Respond(c) \/ ApiError(c)
  <2>1. /\ apiCalls' = apiCalls /\ attempt' = attempt /\ qualityCount' = qualityCount
        /\ \/ pc'[c] \in {"sending", "failed", "response"}
           \/ pc[c] \notin {"sending", "failed", "response"}
    BY <1>3 DEF CreateText, Admit, Reject, Respond, ApiError, Goto, TypeOK
  <2>2. SumFunction(qualityCount'[c]) = RoundsUsed(c)
    BY <2>1 DEF RoundsUsed
  <2> QED
    BY <1>1, <1>2, <2>1, <2>2 DEF Underway
<1>4. CASE Send(c)
  <2>1. /\ attempt' = attempt /\ qualityCount' = qualityCount
        /\ pc[c] = "admitted" /\ pc'[c] = "sending"
        /\ apiCalls'[c] \in {sent, sent + 1}
    BY <1>4 DEF Send, Goto, SaturatingInc, TypeOK
  <2>2. SumFunction(qualityCount'[c]) = RoundsUsed(c)
    BY <2>1 DEF RoundsUsed
  <2>3. sent <= paid + attempt[c]
    BY <1>1, <1>2, <2>1 DEF Underway
  <2> QED
    BY <1>1, <1>2, <2>1, <2>2, <2>3
<1>5. CASE AfterRequestFailure(c) /\ RetriesLeft(c)
  <2>1. /\ apiCalls' = apiCalls /\ qualityCount' = qualityCount
        /\ attempt'[c] = attempt[c] + 1 /\ pc'[c] = "before"
    BY <1>5 DEF AfterRequestFailure, Goto, TypeOK
  <2>2. SumFunction(qualityCount'[c]) = RoundsUsed(c)
    BY <2>1 DEF RoundsUsed
  <2> QED
    BY <1>1, <1>2, <2>1, <2>2 DEF Underway
<1>6. CASE ResponseQualityFailure(c) /\ QualityRetriesLeft(c)
  <2> DEFINE q == verdict[c]
  <2>1. /\ apiCalls' = apiCalls /\ attempt'[c] = 0 /\ pc'[c] = "before"
        /\ q \in QualityKinds
        /\ qualityCount' = [qualityCount EXCEPT ![c][q] = @ + 1]
    BY <1>6 DEF ResponseQualityFailure, Goto, TypeOK
  <2>2. /\ qualityCount[c] \in [QualityKinds -> Nat]
        /\ qualityCount'[c] = [qualityCount[c] EXCEPT ![q] = @ + 1]
    BY <2>1 DEF TypeOK
  <2>3. SumFunction(qualityCount'[c]) = RoundsUsed(c) + 1
    <3> DEFINE f == qualityCount[c]
               g == qualityCount'[c]
    <3>1. /\ DOMAIN g = QualityKinds
          /\ \A k \in QualityKinds : f[k] \in Nat
          /\ \A k \in QualityKinds : g[k] = IF k \in {q} THEN f[k] + 1 ELSE f[k]
      BY <2>2
    <3>2. Cardinality({q}) = 1 /\ {q} \in SUBSET QualityKinds /\ IsFiniteSet(QualityKinds)
      BY <2>1, FS_Singleton, LoopAssumption
    <3> HIDE DEF f, g, q
    <3>3. SumFunctionOnSet(g, QualityKinds) = SumFunctionOnSet(f, QualityKinds) + 1
      BY <3>1, <3>2, SumCounts
    <3>4. SumFunction(g) = SumFunctionOnSet(g, QualityKinds)
      BY <3>1 DEF SumFunction
    <3>5. RoundsUsed(c) = SumFunctionOnSet(f, QualityKinds)
      BY RoundsUsedType DEF f
    <3> QED
      BY <3>3, <3>4, <3>5 DEF g
  <2>4. sent <= paid + attempt[c] + 1
    BY <1>1, <1>2 DEF Underway
  <2>5. Round * (RoundsUsed(c) + 1) = paid + Round
    BY <1>1, <1>2
  <2> QED
    BY <1>1, <1>2, <2>1, <2>3, <2>4, <2>5 DEF Round
<1>7. \/ Leave(c)
      \/ CreateText(c) \/ Admit(c) \/ Reject(c) \/ Respond(c) \/ ApiError(c) \/ Send(c)
      \/ AfterRequestFailure(c) /\ RetriesLeft(c)
      \/ ResponseQualityFailure(c) /\ QualityRetriesLeft(c)
  BY DEF CallStep, Uncaught, AfterRequestFailure, ResponseQualityFailure, AfterRequestSuccess
<1>8. CASE Leave(c)
  <2>1. /\ apiCalls'[c] = 0 /\ attempt'[c] = 0 /\ pc'[c] = "idle"
        /\ SumFunction(qualityCount'[c]) = 0
    BY <1>8, LeaveOwesNothing
  <2>2. Round * 0 = 0
    BY <1>2
  <2> QED
    BY <2>1, <2>2
<1> QED
  BY <1>3, <1>4, <1>5, <1>6, <1>7, <1>8

\* What the calls have sent stays paid for, whatever the others do.
LEMMA PaidForNext ==
    ASSUME TypeOK, PaidFor, [Next]_vars
    PROVE  PaidFor'
<1>1. CASE \E c \in Callers : CreateText(c) \/ CallStep(c)
  <2>1. PICK c \in Callers : CreateText(c) \/ CallStep(c)
    BY <1>1
  <2>2. apiCalls'[c] <= Round * RoundsUsed(c)' + attempt'[c] + Underway(c)'
    BY <2>1, CallStepPaid DEF PaidFor, RoundsUsed, Underway
  <2>3. ASSUME NEW d \in Callers, d # c
        PROVE  apiCalls'[d] <= Round * RoundsUsed(d)' + attempt'[d] + Underway(d)'
    <3>1. /\ apiCalls'[d] = apiCalls[d] /\ attempt'[d] = attempt[d] /\ pc'[d] = pc[d]
          /\ qualityCount'[d] = qualityCount[d]
      <4> USE <2>3 DEF TypeOK, Goto
      <4>1. CASE CreateText(c) \/ Admit(c) \/ Reject(c) \/ Respond(c) \/ ApiError(c)
        BY <4>1 DEF CreateText, Admit, Reject, Respond, ApiError
      <4>2. CASE Send(c)
        BY <4>2 DEF Send
      <4>3. CASE Leave(c)
        BY <4>3 DEF Leave
      <4>4. CASE AfterRequestFailure(c) /\ RetriesLeft(c)
        BY <4>4 DEF AfterRequestFailure
      <4>5. CASE ResponseQualityFailure(c) /\ QualityRetriesLeft(c)
        BY <4>5 DEF ResponseQualityFailure
      <4> QED
        BY <2>1, <4>1, <4>2, <4>3, <4>4, <4>5
           DEF CallStep, Uncaught, AfterRequestFailure, ResponseQualityFailure, AfterRequestSuccess
    <3> QED
      BY <3>1 DEF PaidFor, RoundsUsed, Underway
  <2> QED
    BY <2>2, <2>3 DEF PaidFor, Round
<1>2. CASE ProviderFlips \/ Cooldown \/ UNCHANGED vars
  <2>1. UNCHANGED callVars /\ apiCalls' = apiCalls
    BY <1>2 DEF ProviderFlips, Cooldown, vars
  <2> QED
    BY <2>1 DEF PaidFor, RoundsUsed, Underway, callVars, Round
<1> QED
  BY <1>1, <1>2 DEF Next

\* One call sends at most (MaxRetries + 1) requests for each response that the
\* quality budgets allow, whatever mix of errors it meets and whatever other
\* calls do to the breaker meanwhile.
THEOREM CallsKeepTheirBudget == Spec => []CallBudget
<1>1. Init => PaidFor
  <2> SUFFICES ASSUME Init, NEW c \in Callers
               PROVE  apiCalls[c] <= Round * RoundsUsed(c) + attempt[c] + Underway(c)
    BY DEF PaidFor
  <2>1. apiCalls[c] = 0 /\ attempt[c] = 0 /\ qualityCount[c] = NoneYet /\ pc[c] = "idle"
    BY DEF Init
  <2>2. RoundsUsed(c) = 0 /\ Underway(c) = 0
    BY <2>1, NoneYetIsZero DEF RoundsUsed, Underway
  <2>3. Round * 0 = 0
    BY LoopAssumption DEF Round
  <2> QED
    BY <2>1, <2>2, <2>3
<1>2. LoopInv /\ PaidFor /\ [Next]_vars => PaidFor'
  BY PaidForNext DEF LoopInv
<1>3. LoopInv /\ PaidFor => CallBudget
  <2> SUFFICES ASSUME LoopInv, PaidFor, NEW c \in Callers
               PROVE  apiCalls[c] <= CallLimit
    BY DEF CallBudget
  <2> DEFINE used == RoundsUsed(c)
             limit == SumFunction(QualityRetries)
  <2>1. /\ used \in Nat /\ limit \in Nat /\ used <= limit
        /\ apiCalls[c] \in Nat /\ attempt[c] \in 0..MaxRetries /\ MaxRetries \in Nat
    BY RoundsUsedType, LoopAssumption DEF LoopInv, TypeOK
  <2>2. apiCalls[c] <= Round * used + attempt[c] + 1
    <3>1. Round * used \in Nat
      BY <2>1 DEF Round
    <3> HIDE DEF used
    <3> QED
      BY <2>1, <3>1 DEF PaidFor, Underway, used
  <2> HIDE DEF used, limit
  <2>3. apiCalls[c] <= Round * used + Round
    <3>1. Round * used \in Nat
      BY <2>1 DEF Round
    <3> QED
      BY <2>1, <2>2, <3>1 DEF Round
  <2>4. Round * used <= Round * limit
    <3>1. PICK d \in Nat : limit = used + d
      BY <2>1
    <3>2. Round * limit = Round * used + Round * d /\ Round * d \in Nat /\ Round * used \in Nat
      BY <2>1, <3>1 DEF Round
    <3> QED
      BY <3>2
  <2>5. CallLimit = Round * limit + Round
    <3>1. CallLimit = Round * (1 + limit)
      BY DEF CallLimit, Round, limit
    <3> QED
      BY <2>1, <3>1 DEF Round
  <2>6. Round * used \in Nat /\ Round * limit \in Nat /\ Round \in Nat
    BY <2>1 DEF Round
  <2> QED
    BY <2>1, <2>3, <2>4, <2>5, <2>6
<1> QED
  BY <1>1, <1>2, <1>3, LoopInvariant, PTL DEF Spec

-----------------------------------------------------------------------------
(* The counters.                                                           *)

\* How many callers are in a set of places changes by at most one when one of
\* them moves.
LEMMA AtMoves ==
    ASSUME LocalsTypeOK, NEW c \in Callers, NEW place \in PCs, Goto(c, place),
           NEW places
    PROVE  /\ At(places) \in Nat
           /\ At(places)' = At(places) + (IF place \in places THEN 1 ELSE 0)
                                      - (IF pc[c] \in places THEN 1 ELSE 0)
<1> DEFINE here == {d \in Callers : pc[d] \in places}
           others == {d \in Callers \ {c} : pc[d] \in places}
           there == {d \in Callers : pc'[d] \in places}
<1>1. IsFiniteSet(here) /\ IsFiniteSet(others)
  BY FS_Subset, LoopAssumption
<1>2. Cardinality(here) \in Nat /\ Cardinality(others) \in Nat
  BY <1>1, FS_CardinalityType
<1>3. Cardinality(here) = Cardinality(others) + (IF pc[c] \in places THEN 1 ELSE 0)
  <2>1. c \notin others /\ here = IF pc[c] \in places THEN others \cup {c} ELSE others
    OBVIOUS
  <2>2. Cardinality(others \cup {c}) = Cardinality(others) + 1
    BY <1>1, <2>1, FS_AddElement
  <2> HIDE DEF here, others
  <2> QED
    BY <1>2, <2>1, <2>2
<1>4. Cardinality(there) = Cardinality(others) + (IF place \in places THEN 1 ELSE 0)
  <2>1. c \notin others /\ there = IF place \in places THEN others \cup {c} ELSE others
    BY DEF Goto, LocalsTypeOK
  <2>2. Cardinality(others \cup {c}) = Cardinality(others) + 1
    BY <1>1, <2>1, FS_AddElement
  <2> HIDE DEF there, others
  <2> QED
    BY <1>2, <2>1, <2>2
<1> HIDE DEF here, others, there
<1>5. At(places) = Cardinality(here) /\ At(places)' = Cardinality(there)
  BY DEF At, here, there
<1> QED
  BY <1>2, <1>3, <1>4, <1>5

\* Errors that were worth a retry and rejections are failures, and are logged
\* as both; only rejections on their way to the report are ahead of it.
Rejected == {c \in Callers : pc[c] = "failed" /\ verdict[c] = "circuit_open"}
BeyondFailures ==
    metrics["retriable_errors"] + metrics["circuit_open_rejections"] - metrics["requests_failed"]
ErrorsAreFailures == BeyondFailures <= Cardinality(Rejected)

MetricsInv ==
    /\ LoopInv
    /\ MetricsTypeOK
    /\ OneOutcomePerRequest
    /\ RetriesAccountForRequests
    /\ ErrorsAreFailures

LEMMA MetricsInitially == MetricsInit => MetricsInv
<1> SUFFICES ASSUME MetricsInit PROVE MetricsInv
  OBVIOUS
<1>1. LoopInv /\ TypeOK
  BY LoopInit DEF MetricsInit, LoopInv
<1>2. MetricsTypeOK
  BY <1>1 DEF MetricsInit, MetricsTypeOK
<1>3. At({"sending", "response", "failed"}) = 0 /\ At({"before", "admitted"}) = 0
  <2>1. /\ {c \in Callers : pc[c] \in {"sending", "response", "failed"}} = {}
        /\ {c \in Callers : pc[c] \in {"before", "admitted"}} = {}
    BY DEF MetricsInit, Init
  <2> QED
    BY <2>1, FS_EmptySet DEF At
<1>4. Unresolved = 0 /\ BeyondRetries = 0
  BY DEF MetricsInit, MetricNames, Unresolved, BeyondRetries
<1>5. ErrorsAreFailures
  <2>1. Rejected = {}
    BY DEF MetricsInit, Init, Rejected
  <2>2. BeyondFailures = 0
    BY DEF MetricsInit, MetricNames, BeyondFailures
  <2> QED
    BY <2>1, <2>2, FS_EmptySet DEF ErrorsAreFailures
<1> QED
  BY <1>1, <1>2, <1>3, <1>4, <1>5 DEF MetricsInv, OneOutcomePerRequest, RetriesAccountForRequests

\* With its counters the loop takes the steps it takes without them.
LEMMA MetricsNextIsNext == [MetricsNext]_allVars => [Next]_vars
  BY DEF MetricsNext, allVars, CreateTextM, RejectM, SendM, UncaughtM, AfterRequestFailureM,
         ResponseQualityFailureM, AfterRequestSuccessM, Unmetered, Next, CallStep

\* What recording a set of names adds to both balances.
LEMMA RecordAdds ==
    ASSUME MetricsTypeOK, NEW names, Record(names), UNCHANGED <<callsBegun, uncaught>>
    PROVE  /\ metrics' \in [MetricNames -> Nat]
           /\ Unresolved \in Int /\ BeyondRetries \in Int
           /\ Unresolved' = Unresolved
                + (IF "requests_started" \in names THEN 1 ELSE 0)
                + (IF "circuit_open_rejections" \in names THEN 1 ELSE 0)
                - (IF "requests_succeeded" \in names THEN 1 ELSE 0)
                - (IF "requests_failed" \in names THEN 1 ELSE 0)
           /\ BeyondRetries' = BeyondRetries
                + (IF "requests_started" \in names THEN 1 ELSE 0)
                + (IF "circuit_open_rejections" \in names THEN 1 ELSE 0)
                - (IF "retries" \in names THEN 1 ELSE 0)
<1>1. \A m \in MetricNames : /\ metrics[m] \in Nat /\ metrics'[m] \in Nat
                             /\ metrics'[m] = metrics[m] + (IF m \in names THEN 1 ELSE 0)
  BY DEF MetricsTypeOK, Record
<1>2. metrics' \in [MetricNames -> Nat]
  BY DEF MetricsTypeOK, Record
<1>3. /\ "requests_started" \in MetricNames /\ "circuit_open_rejections" \in MetricNames
      /\ "requests_succeeded" \in MetricNames /\ "requests_failed" \in MetricNames
      /\ "retries" \in MetricNames
  BY DEF MetricNames
<1>4. callsBegun \in Nat /\ uncaught \in Nat /\ callsBegun' = callsBegun /\ uncaught' = uncaught
  BY DEF MetricsTypeOK
<1> QED
  BY <1>1, <1>2, <1>3, <1>4 DEF Unresolved, BeyondRetries

\* Who is rejected changes only for the caller that moves.
LEMMA RejectedMoves ==
    ASSUME LocalsTypeOK, NEW c \in Callers, NEW place \in PCs, NEW v \in Verdicts,
           Goto(c, place), verdict' = [verdict EXCEPT ![c] = v]
    PROVE  /\ Cardinality(Rejected) \in Nat
           /\ Cardinality(Rejected)' = Cardinality(Rejected)
                + (IF place = "failed" /\ v = "circuit_open" THEN 1 ELSE 0)
                - (IF c \in Rejected THEN 1 ELSE 0)
<1> DEFINE others == Rejected \ {c}
           there == {d \in Callers : pc'[d] = "failed" /\ verdict'[d] = "circuit_open"}
           joins == place = "failed" /\ v = "circuit_open"
<1>1. IsFiniteSet(Rejected) /\ IsFiniteSet(others)
  BY FS_Subset, LoopAssumption DEF Rejected
<1>2. Cardinality(Rejected) \in Nat /\ Cardinality(others) \in Nat
  BY <1>1, FS_CardinalityType
<1>3. there = IF joins THEN others \cup {c} ELSE others
  <2>1. /\ pc' = [pc EXCEPT ![c] = place] /\ verdict' = [verdict EXCEPT ![c] = v]
        /\ DOMAIN pc = Callers /\ DOMAIN verdict = Callers
    BY DEF Goto, LocalsTypeOK
  <2> QED
    BY <2>1 DEF Rejected
<1>4. Rejected = IF c \in Rejected THEN others \cup {c} ELSE others
  OBVIOUS
<1>5. c \notin others /\ Cardinality(others \cup {c}) = Cardinality(others) + 1
  BY <1>1, FS_AddElement
<1>6. Rejected' = there
  BY DEF Rejected
<1> HIDE DEF others, there, joins
<1>7. Cardinality(there) = Cardinality(others) + (IF joins THEN 1 ELSE 0)
  BY <1>2, <1>3, <1>5
<1>8. Cardinality(Rejected) = Cardinality(others) + (IF c \in Rejected THEN 1 ELSE 0)
  BY <1>2, <1>4, <1>5
<1>9. Cardinality(Rejected)' = Cardinality(there)
  BY <1>6
<1> QED
  BY <1>2, <1>7, <1>8, <1>9 DEF joins

\* What recording a set of names adds to the errors beyond the failures.
LEMMA RecordAddsErrors ==
    ASSUME MetricsTypeOK, NEW names, Record(names)
    PROVE  /\ BeyondFailures \in Int
           /\ BeyondFailures' = BeyondFailures
                + (IF "retriable_errors" \in names THEN 1 ELSE 0)
                + (IF "circuit_open_rejections" \in names THEN 1 ELSE 0)
                - (IF "requests_failed" \in names THEN 1 ELSE 0)
<1>1. \A m \in MetricNames : /\ metrics[m] \in Nat /\ metrics'[m] \in Nat
                             /\ metrics'[m] = metrics[m] + (IF m \in names THEN 1 ELSE 0)
  BY DEF MetricsTypeOK, Record
<1>2. /\ "retriable_errors" \in MetricNames /\ "circuit_open_rejections" \in MetricNames
      /\ "requests_failed" \in MetricNames
  BY DEF MetricNames
<1> QED
  BY <1>1, <1>2 DEF BeyondFailures

\* A report takes a rejection off those on their way when it counts it as a
\* failure, and counts an error worth a retry as a failure in the same step.
LEMMA ErrorsStayFailures ==
    ASSUME LocalsTypeOK, MetricsTypeOK, ErrorsAreFailures, [MetricsNext]_allVars
    PROVE  ErrorsAreFailures'
<1>0. /\ \A c \in Callers : pc[c] \in PCs /\ verdict[c] \in Verdicts
      /\ pc \in [Callers -> PCs] /\ verdict \in [Callers -> Verdicts]
      /\ "circuit_open" \in Verdicts /\ "good" \in Verdicts
      /\ BeyondFailures <= Cardinality(Rejected)
  BY DEF LocalsTypeOK, Verdicts, ErrorsAreFailures
<1>1. Cardinality(Rejected) \in Nat /\ BeyondFailures \in Int
  <2>1. IsFiniteSet(Rejected)
    BY FS_Subset, LoopAssumption DEF Rejected
  <2> QED
    BY <2>1, FS_CardinalityType DEF MetricsTypeOK, MetricNames, BeyondFailures
<1>2. ASSUME NEW c \in Callers, RejectM(c)
      PROVE  ErrorsAreFailures'
  <2>1. /\ pc[c] = "before" /\ Goto(c, "failed") /\ "failed" \in PCs
        /\ verdict' = [verdict EXCEPT ![c] = "circuit_open"]
        /\ Record({"circuit_open_rejections"})
    BY <1>2 DEF RejectM, Reject, PCs
  <2>2. Cardinality(Rejected)' = Cardinality(Rejected) + 1
    <3>1. c \notin Rejected
      BY <2>1 DEF Rejected
    <3>2. Cardinality(Rejected)' = Cardinality(Rejected)
             + (IF "failed" = "failed" /\ "circuit_open" = "circuit_open" THEN 1 ELSE 0)
             - (IF c \in Rejected THEN 1 ELSE 0)
      BY <1>0, <2>1, RejectedMoves, Zenon
    <3> QED
      BY <1>1, <3>1, <3>2
  <2>3. BeyondFailures' = BeyondFailures + 1
    BY <1>1, <2>1, RecordAddsErrors
  <2> QED
    BY <1>0, <1>1, <2>2, <2>3 DEF ErrorsAreFailures
<1>3. ASSUME NEW c \in Callers, AfterRequestFailureM(c)
      PROVE  ErrorsAreFailures'
  <2> DEFINE names == {"requests_failed"}
                        \cup (IF verdict[c] = "retriable" THEN {"retriable_errors"} ELSE {})
                        \cup (IF pc'[c] = "before" THEN {"retries"} ELSE {})
  <2>1. /\ pc[c] = "failed" /\ Record(names)
        /\ verdict' = [verdict EXCEPT ![c] = "good"]
    BY <1>3 DEF AfterRequestFailureM, AfterRequestFailure, Leave
  <2>2. PICK place \in {"before", "idle"} : Goto(c, place)
    BY <1>3 DEF AfterRequestFailureM, AfterRequestFailure, Leave
  <2>3. Cardinality(Rejected)' = Cardinality(Rejected) - (IF c \in Rejected THEN 1 ELSE 0)
    <3>1. place \in PCs /\ place # "failed"
      BY DEF PCs
    <3>2. Cardinality(Rejected)' = Cardinality(Rejected)
             + (IF place = "failed" /\ "good" = "circuit_open" THEN 1 ELSE 0)
             - (IF c \in Rejected THEN 1 ELSE 0)
      BY <1>0, <2>1, <2>2, <3>1, RejectedMoves, Zenon
    <3> QED
      BY <1>1, <3>1, <3>2
  <2>4. c \in Rejected => verdict[c] # "retriable"
    BY DEF Rejected
  <2>5. /\ "requests_failed" \in names /\ "circuit_open_rejections" \notin names
        /\ "retriable_errors" \in names <=> verdict[c] = "retriable"
    OBVIOUS
  <2> HIDE DEF names
  <2>6. BeyondFailures' = BeyondFailures + (IF verdict[c] = "retriable" THEN 1 ELSE 0) - 1
    BY <1>1, <2>1, <2>5, RecordAddsErrors
  <2> QED
    BY <1>0, <1>1, <2>3, <2>4, <2>6 DEF ErrorsAreFailures
<1>4. ASSUME NEW c \in Callers, ResponseQualityFailureM(c)
      PROVE  ErrorsAreFailures'
  <2> DEFINE names == {"requests_failed"} \cup (IF pc'[c] = "before" THEN {"retries"} ELSE {})
  <2>1. /\ pc[c] = "response" /\ Record(names) /\ verdict' = [verdict EXCEPT ![c] = "good"]
    BY <1>4 DEF ResponseQualityFailureM, ResponseQualityFailure, Leave
  <2>2. PICK place \in {"before", "idle"} : Goto(c, place)
    BY <1>4 DEF ResponseQualityFailureM, ResponseQualityFailure, Leave
  <2>3. Cardinality(Rejected)' = Cardinality(Rejected)
    <3>1. place \in PCs /\ place # "failed" /\ c \notin Rejected
      BY <2>1 DEF PCs, Rejected
    <3>2. Cardinality(Rejected)' = Cardinality(Rejected)
             + (IF place = "failed" /\ "good" = "circuit_open" THEN 1 ELSE 0)
             - (IF c \in Rejected THEN 1 ELSE 0)
      BY <1>0, <2>1, <2>2, <3>1, RejectedMoves, Zenon
    <3> QED
      BY <1>1, <3>1, <3>2
  <2>4. /\ "requests_failed" \in names /\ "circuit_open_rejections" \notin names
        /\ "retriable_errors" \notin names
    OBVIOUS
  <2> HIDE DEF names
  <2>5. BeyondFailures' = BeyondFailures - 1
    BY <1>1, <2>1, <2>4, RecordAddsErrors
  <2> QED
    BY <1>0, <1>1, <2>3, <2>5 DEF ErrorsAreFailures
<1>5. ASSUME NEW c \in Callers, SendM(c) \/ AfterRequestSuccessM(c)
      PROVE  ErrorsAreFailures'
  <2>1. PICK place \in {"sending", "idle"}, name \in {"requests_started", "requests_succeeded"} :
            Goto(c, place) /\ Record({name})
    BY <1>5 DEF SendM, Send, AfterRequestSuccessM, AfterRequestSuccess, Leave
  <2>2. pc[c] # "failed" /\ (verdict' = verdict \/ verdict' = [verdict EXCEPT ![c] = "good"])
    BY <1>5 DEF SendM, Send, AfterRequestSuccessM, AfterRequestSuccess, Leave
  <2>3. Rejected' = Rejected
    BY <1>0, <2>1, <2>2 DEF Rejected, Goto
  <2>4. BeyondFailures' = BeyondFailures
    BY <1>1, <2>1, RecordAddsErrors
  <2> QED
    BY <1>0, <2>3, <2>4 DEF ErrorsAreFailures
<1>6. ASSUME NEW c \in Callers,
             \/ CreateTextM(c) \/ UncaughtM(c)
             \/ (Admit(c) \/ Respond(c) \/ ApiError(c)) /\ UNCHANGED metricVars
      PROVE  ErrorsAreFailures'
  <2>1. metrics' = metrics
    BY <1>6 DEF CreateTextM, UncaughtM, metricVars
  <2>2. PICK place \in PCs : Goto(c, place) /\ (place = "failed" => ApiError(c))
    BY <1>6 DEF CreateTextM, CreateText, UncaughtM, Uncaught, Leave, Admit, Respond, ApiError, PCs
  <2>3. pc[c] # "failed"
    BY <1>6 DEF CreateTextM, CreateText, UncaughtM, Uncaught, Admit, Respond, ApiError
  <2>4. PICK v \in Verdicts : /\ verdict' = [verdict EXCEPT ![c] = v]
                              /\ ApiError(c) => v # "circuit_open"
    <3>1. CASE CreateTextM(c) \/ Admit(c)
      <4>1. verdict' = [verdict EXCEPT ![c] = verdict[c]] /\ pc[c] # "sending"
        BY <1>0, <3>1 DEF CreateTextM, CreateText, Admit
      <4>2. ~ApiError(c)
        BY <4>1 DEF ApiError
      <4> QED
        BY <1>0, <4>1, <4>2
    <3>2. CASE UncaughtM(c)
      <4>1. verdict' = [verdict EXCEPT ![c] = "good"]
        BY <3>2 DEF UncaughtM, Uncaught, Leave
      <4> QED
        BY <1>0, <4>1
    <3>3. CASE ApiError(c)
      BY <3>3 DEF ApiError, ApiErrors, Verdicts
    <3>4. CASE Respond(c)
      <4>1. PICK v \in {"good"} \cup QualityKinds : verdict' = [verdict EXCEPT ![c] = v]
        BY <3>4 DEF Respond
      <4>2. v \in Verdicts /\ v # "circuit_open"
        BY <4>1, VerdictAssumption DEF Verdicts
      <4> QED
        BY <4>1, <4>2
    <3> QED
      BY <1>6, <3>1, <3>2, <3>3, <3>4
  <2>5. Rejected' = Rejected
    BY <1>0, <2>2, <2>3, <2>4 DEF Rejected, Goto
  <2>6. BeyondFailures' = BeyondFailures
    BY <2>1 DEF BeyondFailures
  <2> QED
    BY <1>0, <2>5, <2>6 DEF ErrorsAreFailures
<1>7. ASSUME \/ (ProviderFlips \/ Cooldown) /\ UNCHANGED metricVars
             \/ UNCHANGED allVars
      PROVE  ErrorsAreFailures'
  BY <1>0, <1>7 DEF ErrorsAreFailures, Rejected, BeyondFailures, ProviderFlips, Cooldown, callVars,
                    metricVars, allVars, vars
<1> QED
  BY <1>2, <1>3, <1>4, <1>5, <1>6, <1>7 DEF MetricsNext, Unmetered

\* Each step moves one caller between the places that a balance counts and
\* records just the names that make up for it.
LEMMA MetricsNextStep ==
    ASSUME MetricsInv, [MetricsNext]_allVars
    PROVE  MetricsInv'
<1> DEFINE unresolved == {"sending", "response", "failed"}
           waiting == {"before", "admitted"}
<1>1. LoopInv' /\ TypeOK' /\ LocalsTypeOK
  BY MetricsNextIsNext, LoopNext DEF MetricsInv, LoopInv, TypeOK, LocalsTypeOK
<1>2. /\ MetricsTypeOK
      /\ Unresolved = At(unresolved)
      /\ BeyondRetries + At(waiting) = 0
  BY DEF MetricsInv, OneOutcomePerRequest, RetriesAccountForRequests
<1>3. /\ metrics["requests_started"] \in Nat /\ metrics["circuit_open_rejections"] \in Nat
      /\ metrics["requests_succeeded"] \in Nat /\ metrics["requests_failed"] \in Nat
      /\ metrics["retries"] \in Nat
      /\ callsBegun \in Nat /\ uncaught \in Nat
      /\ metrics \in [MetricNames -> Nat]
  BY <1>2 DEF MetricsTypeOK, MetricNames
<1>4. Unresolved \in Int /\ BeyondRetries \in Int
  BY <1>3 DEF Unresolved, BeyondRetries
<1> DEFINE Kept == /\ metrics' \in [MetricNames -> Nat] /\ callsBegun' \in Nat /\ uncaught' \in Nat
                   /\ Unresolved' = At(unresolved)'
                   /\ BeyondRetries' + At(waiting)' = 0
<1>5. ASSUME NEW c \in Callers,
             \/ CreateTextM(c) \/ RejectM(c) \/ SendM(c) \/ UncaughtM(c)
             \/ AfterRequestFailureM(c) \/ ResponseQualityFailureM(c) \/ AfterRequestSuccessM(c)
             \/ Admit(c) /\ UNCHANGED metricVars
             \/ Respond(c) /\ UNCHANGED metricVars
             \/ ApiError(c) /\ UNCHANGED metricVars
      PROVE  Kept
  <2>0. ASSUME NEW place \in PCs, Goto(c, place), NEW places
        PROVE  /\ At(places) \in Nat
               /\ At(places)' = At(places) + (IF place \in places THEN 1 ELSE 0)
                                          - (IF pc[c] \in places THEN 1 ELSE 0)
    BY <1>1, <2>0, AtMoves
  <2>1. CASE CreateTextM(c)
    <3>1. /\ pc[c] = "idle" /\ Goto(c, "before") /\ "before" \in PCs
          /\ callsBegun' = callsBegun + 1 /\ metrics' = metrics /\ uncaught' = uncaught
      BY <2>1 DEF CreateTextM, CreateText, PCs
    <3>2. At(unresolved)' = At(unresolved) /\ At(waiting)' = At(waiting) + 1
          /\ At(waiting) \in Nat /\ At(unresolved) \in Nat
      BY <2>0, <3>1
    <3>3. Unresolved' = Unresolved /\ BeyondRetries' = BeyondRetries - 1
      BY <1>3, <3>1 DEF Unresolved, BeyondRetries
    <3> QED
      BY <1>2, <1>3, <1>4, <3>1, <3>2, <3>3
  <2>2. CASE RejectM(c)
    <3>1. /\ pc[c] = "before" /\ Goto(c, "failed") /\ "failed" \in PCs
          /\ Record({"circuit_open_rejections"}) /\ UNCHANGED <<callsBegun, uncaught>>
      BY <2>2 DEF RejectM, Reject, PCs
    <3>2. At(unresolved)' = At(unresolved) + 1 /\ At(waiting)' = At(waiting) - 1
          /\ At(waiting) \in Nat /\ At(unresolved) \in Nat
      BY <2>0, <3>1
    <3>3. /\ Unresolved' = Unresolved + 1 /\ BeyondRetries' = BeyondRetries + 1
          /\ metrics' \in [MetricNames -> Nat]
      BY <1>2, <1>4, <3>1, RecordAdds
    <3> QED
      BY <1>2, <1>3, <1>4, <3>1, <3>2, <3>3
  <2>3. CASE SendM(c)
    <3>1. /\ pc[c] = "admitted" /\ Goto(c, "sending") /\ "sending" \in PCs
          /\ Record({"requests_started"}) /\ UNCHANGED <<callsBegun, uncaught>>
      BY <2>3 DEF SendM, Send, PCs
    <3>2. At(unresolved)' = At(unresolved) + 1 /\ At(waiting)' = At(waiting) - 1
          /\ At(waiting) \in Nat /\ At(unresolved) \in Nat
      BY <2>0, <3>1
    <3>3. /\ Unresolved' = Unresolved + 1 /\ BeyondRetries' = BeyondRetries + 1
          /\ metrics' \in [MetricNames -> Nat]
      BY <1>2, <1>4, <3>1, RecordAdds
    <3> QED
      BY <1>2, <1>3, <1>4, <3>1, <3>2, <3>3
  <2>4. CASE UncaughtM(c)
    <3>1. /\ pc[c] \in {"sending", "response"} /\ Goto(c, "idle") /\ "idle" \in PCs
          /\ callsBegun' = callsBegun /\ metrics' = metrics /\ uncaught' = uncaught + 1
      BY <2>4 DEF UncaughtM, Uncaught, Leave, PCs
    <3>2. At(unresolved)' = At(unresolved) - 1 /\ At(waiting)' = At(waiting)
          /\ At(waiting) \in Nat /\ At(unresolved) \in Nat
      BY <2>0, <3>1
    <3>3. Unresolved' = Unresolved - 1 /\ BeyondRetries' = BeyondRetries
      BY <1>3, <3>1 DEF Unresolved, BeyondRetries
    <3> QED
      BY <1>2, <1>3, <1>4, <3>1, <3>2, <3>3
  <2>5. CASE AfterRequestFailureM(c) \/ ResponseQualityFailureM(c)
    <3>1. PICK place \in {"before", "idle"}, extra \in SUBSET {"retriable_errors"} :
              /\ pc[c] \in {"failed", "response"} /\ Goto(c, place)
              /\ Record({"requests_failed"} \cup extra
                           \cup (IF place = "before" THEN {"retries"} ELSE {}))
              /\ UNCHANGED <<callsBegun, uncaught>>
      <4>1. pc[c] \in {"failed", "response"} /\ UNCHANGED <<callsBegun, uncaught>>
        BY <2>5 DEF AfterRequestFailureM, AfterRequestFailure,
                    ResponseQualityFailureM, ResponseQualityFailure
      <4>2. PICK place \in {"before", "idle"} : Goto(c, place)
        BY <2>5 DEF AfterRequestFailureM, AfterRequestFailure,
                    ResponseQualityFailureM, ResponseQualityFailure, Leave
      <4>3. pc'[c] = place
        BY <1>1, <4>2 DEF Goto, LocalsTypeOK
      <4>4. \E extra \in SUBSET {"retriable_errors"} :
                Record({"requests_failed"} \cup extra
                         \cup (IF place = "before" THEN {"retries"} ELSE {}))
        <5>1. CASE AfterRequestFailureM(c)
          BY <4>3, <5>1 DEF AfterRequestFailureM
        <5>2. CASE ResponseQualityFailureM(c)
          <6>1. Record({"requests_failed"} \cup {}
                         \cup (IF place = "before" THEN {"retries"} ELSE {}))
            BY <4>3, <5>2 DEF ResponseQualityFailureM
          <6> QED
            BY <6>1
        <5> QED
          BY <2>5, <5>1, <5>2
      <4> QED
        BY <4>1, <4>2, <4>4
    <3>2. /\ At(unresolved)' = At(unresolved) - 1
          /\ At(waiting)' = At(waiting) + (IF place = "before" THEN 1 ELSE 0)
          /\ At(waiting) \in Nat /\ At(unresolved) \in Nat
      <4>1. place \in PCs
        BY DEF PCs
      <4> QED
        BY <2>0, <3>1, <4>1
    <3>3. /\ Unresolved' = Unresolved - 1
          /\ BeyondRetries' = BeyondRetries - (IF place = "before" THEN 1 ELSE 0)
          /\ metrics' \in [MetricNames -> Nat]
      <4> DEFINE names == {"requests_failed"} \cup extra
                            \cup (IF place = "before" THEN {"retries"} ELSE {})
      <4>1. /\ "requests_started" \notin names /\ "circuit_open_rejections" \notin names
            /\ "requests_succeeded" \notin names /\ "requests_failed" \in names
            /\ "retries" \in names <=> place = "before"
        OBVIOUS
      <4>2. Record(names)
        BY <3>1
      <4> HIDE DEF names
      <4> QED
        BY <1>2, <1>4, <3>1, <4>1, <4>2, RecordAdds
    <3> QED
      BY <1>2, <1>3, <1>4, <3>1, <3>2, <3>3
  <2>6. CASE AfterRequestSuccessM(c)
    <3>1. /\ pc[c] = "response" /\ Goto(c, "idle") /\ "idle" \in PCs
          /\ Record({"requests_succeeded"}) /\ UNCHANGED <<callsBegun, uncaught>>
      BY <2>6 DEF AfterRequestSuccessM, AfterRequestSuccess, Leave, PCs
    <3>2. At(unresolved)' = At(unresolved) - 1 /\ At(waiting)' = At(waiting)
          /\ At(waiting) \in Nat /\ At(unresolved) \in Nat
      BY <2>0, <3>1
    <3>3. /\ Unresolved' = Unresolved - 1 /\ BeyondRetries' = BeyondRetries
          /\ metrics' \in [MetricNames -> Nat]
      BY <1>2, <1>4, <3>1, RecordAdds
    <3> QED
      BY <1>2, <1>3, <1>4, <3>1, <3>2, <3>3
  <2>7. CASE (Admit(c) \/ Respond(c) \/ ApiError(c)) /\ UNCHANGED metricVars
    <3>1. PICK place \in {"admitted", "response", "failed"} :
              /\ Goto(c, place)
              /\ pc[c] \in waiting <=> place \in waiting
              /\ pc[c] \in unresolved <=> place \in unresolved
      BY <2>7 DEF Admit, Respond, ApiError
    <3>2. At(unresolved)' = At(unresolved) /\ At(waiting)' = At(waiting)
          /\ At(waiting) \in Nat /\ At(unresolved) \in Nat
      <4>1. place \in PCs
        BY DEF PCs
      <4> QED
        BY <2>0, <3>1, <4>1
    <3>3. /\ Unresolved' = Unresolved /\ BeyondRetries' = BeyondRetries
          /\ UNCHANGED <<metrics, callsBegun, uncaught>>
      BY <2>7 DEF metricVars, Unresolved, BeyondRetries
    <3> QED
      BY <1>2, <1>3, <1>4, <3>2, <3>3
  <2> QED
    BY <1>5, <2>1, <2>2, <2>3, <2>4, <2>5, <2>6, <2>7
<1>6. ASSUME \/ (ProviderFlips \/ Cooldown) /\ UNCHANGED metricVars
             \/ UNCHANGED allVars
      PROVE  Kept
  <2>1. UNCHANGED <<pc, metrics, callsBegun, uncaught>>
    BY <1>6 DEF ProviderFlips, Cooldown, callVars, metricVars, allVars, vars
  <2>2. At(unresolved)' = At(unresolved) /\ At(waiting)' = At(waiting)
    BY <2>1 DEF At
  <2>3. Unresolved' = Unresolved /\ BeyondRetries' = BeyondRetries
    BY <2>1 DEF Unresolved, BeyondRetries
  <2> QED
    BY <1>2, <1>3, <2>1, <2>2, <2>3
<1>7. Kept
  BY <1>5, <1>6 DEF MetricsNext, Unmetered
<1>8. MetricsTypeOK'
  BY <1>1, <1>7 DEF MetricsTypeOK
<1>9. OneOutcomePerRequest' /\ RetriesAccountForRequests'
  BY <1>7 DEF OneOutcomePerRequest, RetriesAccountForRequests
<1>10. ErrorsAreFailures'
  BY <1>1, <1>2, ErrorsStayFailures DEF MetricsInv
<1> QED
  BY <1>1, <1>8, <1>9, <1>10 DEF MetricsInv

\* What the breaker, the loop and the counters have in common at every point of
\* every attempt: the three balances and what they rest on.
THEOREM MetricsInvariant == MetricsSpec => []MetricsInv
<1> QED
  BY MetricsInitially, MetricsNextStep, PTL DEF MetricsSpec

\* The type invariant of the loop with its counters.
THEOREM MetricsTypes == MetricsSpec => []MetricsTypeOK
<1>1. MetricsInv => MetricsTypeOK
  BY DEF MetricsInv
<1> QED
  BY <1>1, MetricsInvariant, PTL

\* Every request is counted as exactly one success or one failure, for any
\* number of threads and any budgets.
THEOREM EveryRequestIsCountedOnce == MetricsSpec => []OneOutcomePerRequest
<1>1. MetricsInv => OneOutcomePerRequest
  BY DEF MetricsInv
<1> QED
  BY <1>1, MetricsInvariant, PTL

\* Every request is the first of a call or a counted retry, for any number of
\* threads and any budgets.
THEOREM RetriesAreCounted == MetricsSpec => []RetriesAccountForRequests
<1>1. MetricsInv => RetriesAccountForRequests
  BY DEF MetricsInv
<1> QED
  BY <1>1, MetricsInvariant, PTL
=============================================================================

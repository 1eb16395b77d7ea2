----------------------- MODULE ProviderCircuitBreaker -----------------------
(***************************************************************************)
(* The circuit breaker that guards one judge stage of the ROPD provider    *)
(* (easyopd/methods/ropd/judge/circuit_breaker.py).  Every method of the   *)
(* class runs under the breaker's own lock, so each is one atomic action.  *)
(*                                                                         *)
(* The breaker reads a clock only to compare now - _opened_at with the     *)
(* cooldown, so the model keeps the remainder of the cooldown              *)
(* (cooldownLeft) and lets Tick consume it.  Two counters are only ever    *)
(* compared with a threshold from below; they saturate at that threshold   *)
(* (SaturatingInc), which keeps every comparison the code makes.           *)
(*                                                                         *)
(* The module has no Next of its own: the callers that decide which method *)
(* comes next are the request threads of JudgeRequestLoop.                 *)
(***************************************************************************)
EXTENDS Integers, Sequences, FiniteSets

CONSTANTS
    RollingWindowSize,           \* rolling_window_size
    RollingErrorPercent,         \* rolling_error_rate, in percent
    ConsecutiveRetriableErrors,  \* consecutive_retriable_errors
    CooldownSeconds,             \* cooldown_seconds, in ticks
    HalfOpenProbeRequests        \* half_open_probe_requests

\* The ranges build_circuit_breaker_config enforces.
ASSUME BreakerAssumption ==
    /\ RollingWindowSize \in Nat \ {0}
    /\ RollingErrorPercent \in 1..100
    /\ ConsecutiveRetriableErrors \in Nat \ {0}
    /\ CooldownSeconds \in Nat
    /\ HalfOpenProbeRequests \in Nat \ {0}

VARIABLES
    state,                        \* "closed", "open" or "half_open"
    cooldownLeft,                 \* what is left of the cooldown
    consecutiveRetriableErrors,
    recentOutcomes,               \* the deque: TRUE is a retriable error
    halfOpenInFlight,
    halfOpenSuccesses

breakerVars == <<state, cooldownLeft, consecutiveRetriableErrors,
                 recentOutcomes, halfOpenInFlight, halfOpenSuccesses>>

\* One type invariant for the object; the request loop conjoins it with its own.
BreakerTypeOK ==
    /\ state \in {"closed", "open", "half_open"}
    /\ cooldownLeft \in 0..CooldownSeconds
    /\ consecutiveRetriableErrors \in 0..ConsecutiveRetriableErrors
    /\ recentOutcomes \in Seq(BOOLEAN) /\ Len(recentOutcomes) <= RollingWindowSize
    /\ halfOpenInFlight \in 0..HalfOpenProbeRequests
    /\ halfOpenSuccesses \in 0..HalfOpenProbeRequests

BreakerInit ==
    /\ state = "closed"
    /\ cooldownLeft = 0
    /\ consecutiveRetriableErrors = 0
    /\ recentOutcomes = <<>>
    /\ halfOpenInFlight = 0
    /\ halfOpenSuccesses = 0

-----------------------------------------------------------------------------
SaturatingInc(n, cap) == IF n < cap THEN n + 1 ELSE n

\* Mutant: the decrement without its max(0, ...).
OneFewerInFlightUnclamped == halfOpenInFlight - 1

\* max(0, self._half_open_in_flight - 1)
OneFewerInFlight == IF halfOpenInFlight > 0 THEN halfOpenInFlight - 1 ELSE 0

\* deque(maxlen=rolling_window_size).append: the oldest outcome falls out.
PushOutcome(outcome) ==
    IF Len(recentOutcomes) < RollingWindowSize
    THEN Append(recentOutcomes, outcome)
    ELSE Append(Tail(recentOutcomes), outcome)

\* The window is full and its share of errors has reached the rate.
RateTrips(window) ==
    /\ Len(window) >= RollingWindowSize
    /\ 100 * Cardinality({i \in DOMAIN window : window[i]})
         >= RollingErrorPercent * Len(window)

-----------------------------------------------------------------------------
\* An open breaker whose cooldown is over turns half-open in allow_request.
CooledDown == state = "open" /\ cooldownLeft = 0

\* allow_request returns True.  In the half-open state it takes a slot.
AllowRequest ==
    \/ /\ state = "closed"
       /\ UNCHANGED breakerVars
    \/ /\ CooledDown
       /\ state' = "half_open"
       /\ halfOpenInFlight' = 1
       /\ halfOpenSuccesses' = 0
       /\ UNCHANGED <<cooldownLeft, consecutiveRetriableErrors, recentOutcomes>>
    \/ /\ state = "half_open"
       /\ halfOpenInFlight < HalfOpenProbeRequests
       /\ halfOpenInFlight' = halfOpenInFlight + 1
       /\ UNCHANGED <<state, cooldownLeft, consecutiveRetriableErrors,
                      recentOutcomes, halfOpenSuccesses>>

\* allow_request returns False.
RejectRequest ==
    /\ \/ state = "open" /\ cooldownLeft > 0
       \/ state = "half_open" /\ halfOpenInFlight >= HalfOpenProbeRequests
    /\ UNCHANGED breakerVars

\* Mutant: the slots of the half-open period are kept.
OpenLockedKeepsSlots ==
    /\ state' = "open"
    /\ cooldownLeft' = CooldownSeconds
    /\ halfOpenSuccesses' = 0
    /\ UNCHANGED halfOpenInFlight

\* _open_locked; the callers say what becomes of the two error statistics.
OpenLocked ==
    /\ state' = "open"
    /\ cooldownLeft' = CooldownSeconds
    /\ halfOpenInFlight' = 0
    /\ halfOpenSuccesses' = 0

\* _close_locked
CloseLocked ==
    /\ state' = "closed"
    /\ consecutiveRetriableErrors' = 0
    /\ recentOutcomes' = <<>>
    /\ halfOpenInFlight' = 0
    /\ halfOpenSuccesses' = 0

\* Mutant: the success threshold is off by one.
CompletesProbingTooLate ==
    /\ state = "half_open"
    /\ OneFewerInFlight = 0
    /\ SaturatingInc(halfOpenSuccesses, HalfOpenProbeRequests) > HalfOpenProbeRequests

\* The half-open success that lets the breaker close: nothing else is out
\* and enough successes were seen.
CompletesProbing ==
    /\ state = "half_open"
    /\ OneFewerInFlight = 0
    /\ SaturatingInc(halfOpenSuccesses, HalfOpenProbeRequests) >= HalfOpenProbeRequests

RecordSuccess ==
    /\ UNCHANGED cooldownLeft
    /\ \/ CompletesProbing /\ CloseLocked
       \/ /\ ~CompletesProbing
          /\ consecutiveRetriableErrors' = 0
          /\ recentOutcomes' = PushOutcome(FALSE)
          /\ IF state = "half_open"
             THEN /\ halfOpenInFlight' = OneFewerInFlight
                  /\ halfOpenSuccesses' = SaturatingInc(halfOpenSuccesses, HalfOpenProbeRequests)
             ELSE UNCHANGED <<halfOpenInFlight, halfOpenSuccesses>>
          /\ UNCHANGED state

\* The condition under which record_retriable_error calls _open_locked.
Trips ==
    \/ state = "half_open"
    \/ consecutiveRetriableErrors' >= ConsecutiveRetriableErrors
    \/ RateTrips(recentOutcomes')

\* In the open state a straggler's error is counted as well, and may call
\* _open_locked again, which restarts the cooldown.
RecordRetriableError ==
    /\ consecutiveRetriableErrors' =
         SaturatingInc(consecutiveRetriableErrors, ConsecutiveRetriableErrors)
    /\ recentOutcomes' = PushOutcome(TRUE)
    /\ \/ Trips /\ OpenLocked
       \/ ~Trips /\ UNCHANGED <<state, cooldownLeft, halfOpenInFlight, halfOpenSuccesses>>

\* Give back a half-open slot, if the breaker is half-open.
ReleaseSlot ==
    halfOpenInFlight' = IF state = "half_open" THEN OneFewerInFlight ELSE halfOpenInFlight

RecordIgnoredFailure ==
    /\ consecutiveRetriableErrors' = 0
    /\ ReleaseSlot
    /\ UNCHANGED <<state, cooldownLeft, recentOutcomes, halfOpenSuccesses>>

\* Mutant: an unusable response does not give its slot back.
RecordResponseQualityFailureIgnored == UNCHANGED breakerVars

RecordResponseQualityFailure ==
    /\ ReleaseSlot
    /\ UNCHANGED <<state, cooldownLeft, consecutiveRetriableErrors,
                   recentOutcomes, halfOpenSuccesses>>

\* A unit of time_fn() passes.
Tick ==
    /\ cooldownLeft > 0
    /\ cooldownLeft' = cooldownLeft - 1
    /\ UNCHANGED <<state, consecutiveRetriableErrors, recentOutcomes,
                   halfOpenInFlight, halfOpenSuccesses>>

=============================================================================

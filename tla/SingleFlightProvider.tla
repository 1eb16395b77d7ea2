------------------------- MODULE SingleFlightProvider -------------------------
(***************************************************************************)
(* OpenAICompatibleProvider.create_text                                    *)
(* (easyopd/methods/ropd/judge/provider.py): concurrent calls with the     *)
(* same fingerprint share one request.  The first call, the leader, puts a *)
(* future in the in-flight table and sends the request, through the        *)
(* scheduler where there is one; calls that find the future follow it.     *)
(* When the leader's request is over it takes the entry out of the table   *)
(* under the lock, and then, outside it, resolves the future.              *)
(*                                                                         *)
(* The module adds this to BoundedRequestScheduler: a Request of the       *)
(* scheduler is now a call of create_text, and only a call at "submitting" *)
(* takes the scheduler's steps.  The table's future of a leader is not the *)
(* scheduler's future of its request: a leader has both.                   *)
(***************************************************************************)
EXTENDS BoundedRequestScheduler

CONSTANTS
    FingerprintOf,      \* _build_request_fingerprint of each call
    NoFingerprint       \* the input could not be serialised: no sharing

Fingerprints == {FingerprintOf[c] : c \in Requests} \ {NoFingerprint}

ASSUME FlightAssumption == DOMAIN FingerprintOf = Requests

VARIABLES
    schedulerEnabled,   \* request_scheduler_config.enabled: either, and fixed
    stage,       \* where each call of create_text is
    inflight,    \* inflight_requests, by the leader whose future is in it
    flightOf,    \* the leader whose future a call holds
    promise,     \* the leaders' futures in the table
    outcome      \* what the call returned, or raised

flightVars == <<schedulerEnabled, stage, inflight, flightOf, promise, outcome>>
vars == <<schedVars, flightVars>>

Stages == {"new", "submitting", "resolving", "following", "done"}

FlightTypeOK ==
    /\ SchedTypeOK
    /\ schedulerEnabled \in BOOLEAN
    /\ stage \in [Requests -> Stages]
    /\ inflight \in [Fingerprints -> Requests \cup {NoRequest}]
    /\ flightOf \in [Requests -> Requests \cup {NoRequest}]
    /\ promise \in [Requests -> {"pending", "result", "exception"}]
    /\ outcome \in [Requests -> {"pending", "result", "exception"}]
    /\ \A c \in Requests : outcome[c] # "pending" <=> stage[c] = "done"

Init ==
    /\ SchedInit
    /\ schedulerEnabled \in BOOLEAN
    /\ stage = [c \in Requests |-> "new"]
    /\ inflight = [f \in Fingerprints |-> NoRequest]
    /\ flightOf = [c \in Requests |-> NoRequest]
    /\ promise = [c \in Requests |-> "pending"]
    /\ outcome = [c \in Requests |-> "pending"]

-----------------------------------------------------------------------------
Shared(c) == FingerprintOf[c] # NoFingerprint
Moves(c, place) == stage' = [stage EXCEPT ![c] = place]

\* create_text without a fingerprint: there is no future to share.
Alone(c) ==
    /\ stage[c] = "new" /\ ~Shared(c)
    /\ Moves(c, "submitting")
    /\ UNCHANGED <<schedVars, schedulerEnabled, inflight, flightOf, promise, outcome>>

\* Mutant: look-up and insertion are not one critical section.
LeadUnlocked(c) ==
    /\ stage[c] = "new" /\ Shared(c)
    /\ inflight' = [inflight EXCEPT ![FingerprintOf[c]] = c]
    /\ flightOf' = [flightOf EXCEPT ![c] = c]
    /\ Moves(c, "submitting")
    /\ UNCHANGED <<schedVars, schedulerEnabled, promise, outcome>>

\* _acquire_inflight_request finds nothing and creates the future.
Lead(c) ==
    /\ stage[c] = "new" /\ Shared(c)
    /\ inflight[FingerprintOf[c]] = NoRequest
    /\ inflight' = [inflight EXCEPT ![FingerprintOf[c]] = c]
    /\ flightOf' = [flightOf EXCEPT ![c] = c]
    /\ Moves(c, "submitting")
    /\ UNCHANGED <<schedVars, schedulerEnabled, promise, outcome>>

\* _acquire_inflight_request returns the future of a request in flight.
Follow(c) ==
    /\ stage[c] = "new" /\ Shared(c)
    /\ inflight[FingerprintOf[c]] # NoRequest
    /\ flightOf' = [flightOf EXCEPT ![c] = inflight[FingerprintOf[c]]]
    /\ Moves(c, "following")
    /\ UNCHANGED <<schedVars, schedulerEnabled, inflight, promise, outcome>>

\* Without a scheduler the call sends its request in its own thread.
RunDirect(c) ==
    /\ ~schedulerEnabled
    /\ stage[c] = "submitting" /\ pc[c] = "scheduling"
    /\ \E o \in {"result", "exception"} : future' = [future EXCEPT ![c] = o]
    /\ pc' = [pc EXCEPT ![c] = "returned"]
    /\ UNCHANGED <<queue, sequenceNumber, nextSequence, shutdownFlag, waiters,
                   workerPc, job, closer, flightVars>>

\* With one, submit() is the scheduler's business until it returns.
Submit(c) ==
    /\ schedulerEnabled
    /\ stage[c] = "submitting"
    /\ Submitter(c)
    /\ UNCHANGED flightVars

\* The direct request, or submit(), has returned or raised.
Answered(c) == stage[c] = "submitting" /\ pc[c] \in {"returned", "refused"}
AnswerOf(c) == IF pc[c] = "refused" THEN "exception" ELSE future[c]

\* A call that shares nothing returns.
ReturnAlone(c) ==
    /\ Answered(c) /\ ~Shared(c)
    /\ outcome' = [outcome EXCEPT ![c] = AnswerOf(c)]
    /\ Moves(c, "done")
    /\ UNCHANGED <<schedVars, schedulerEnabled, inflight, flightOf, promise>>

\* Mutant: the entry stays in the table, as a cache would have it.
PopKeepsEntry(c) ==
    /\ Answered(c) /\ Shared(c)
    /\ Moves(c, "resolving")
    /\ UNCHANGED <<schedVars, schedulerEnabled, inflight, flightOf, promise, outcome>>

\* _complete_inflight_request takes the leader's entry out ...
Pop(c) ==
    /\ Answered(c) /\ Shared(c)
    /\ LET f == FingerprintOf[c]
       IN inflight' = IF inflight[f] = c THEN [inflight EXCEPT ![f] = NoRequest] ELSE inflight
    /\ Moves(c, "resolving")
    /\ UNCHANGED <<schedVars, schedulerEnabled, flightOf, promise, outcome>>

\* Mutant: only a result is passed on.
ResolveResult(c) ==
    /\ stage[c] = "resolving"
    /\ promise' = IF AnswerOf(c) = "result" THEN [promise EXCEPT ![c] = "result"] ELSE promise
    /\ outcome' = [outcome EXCEPT ![c] = AnswerOf(c)]
    /\ Moves(c, "done")
    /\ UNCHANGED <<schedVars, schedulerEnabled, inflight, flightOf>>

\* ... and resolves its future; the leader returns, or raises again.
Resolve(c) ==
    /\ stage[c] = "resolving"
    /\ promise' = [promise EXCEPT ![c] = AnswerOf(c)]
    /\ outcome' = [outcome EXCEPT ![c] = AnswerOf(c)]
    /\ Moves(c, "done")
    /\ UNCHANGED <<schedVars, schedulerEnabled, inflight, flightOf>>

\* Mutant: the follower does not wait for the future.
AwaitAtOnce(c) ==
    /\ stage[c] = "following"
    /\ outcome' = [outcome EXCEPT ![c] = promise[flightOf[c]]]
    /\ Moves(c, "done")
    /\ UNCHANGED <<schedVars, schedulerEnabled, inflight, flightOf, promise>>

\* _await_inflight_result returns the leader's result, or a clone of its error.
Await(c) ==
    /\ stage[c] = "following"
    /\ promise[flightOf[c]] # "pending"
    /\ outcome' = [outcome EXCEPT ![c] = promise[flightOf[c]]]
    /\ Moves(c, "done")
    /\ UNCHANGED <<schedVars, schedulerEnabled, inflight, flightOf, promise>>

-----------------------------------------------------------------------------
Call(c) == Alone(c) \/ Lead(c) \/ Follow(c)
Proceed(c) == RunDirect(c) \/ Submit(c) \/ ReturnAlone(c) \/ Pop(c) \/ Resolve(c) \/ Await(c)

\* The scheduler's threads, and close() of the provider.
SchedulerStep ==
    /\ schedulerEnabled
    /\ (\E w \in Workers : Worker(w)) \/ Shutdown \/ Joined
    /\ UNCHANGED flightVars

Next ==
    \/ \E c \in Requests : Call(c) \/ Proceed(c)
    \/ SchedulerStep

Spec == Init /\ [][Next]_vars

\* Threads that can run do.  Nobody has to call create_text or close().
FairSpec ==
    /\ Spec
    /\ \A c \in Requests : WF_vars(Proceed(c))
    /\ \A w \in Workers : WF_vars(schedulerEnabled /\ Worker(w) /\ UNCHANGED flightVars)

-----------------------------------------------------------------------------
\* Calls whose request is under way, from the look-up to the pop.
Flying(f) == {c \in Requests : stage[c] = "submitting" /\ FingerprintOf[c] = f}

\* At any time at most one request of a fingerprint is under way, and it is
\* the one in the table: a burst of equal calls costs one request, and no
\* entry outlives the request it stands for.
OneFlight ==
    \A f \in Fingerprints :
        Flying(f) = IF inflight[f] = NoRequest THEN {} ELSE {inflight[f]}

\* A call that followed another ended as the other did: it got its result, or
\* raised its error, also when the scheduler refused the leader.
SharedFate ==
    \A c \in Requests :
        stage[c] = "done" /\ Shared(c) => outcome[c] = outcome[flightOf[c]]

-----------------------------------------------------------------------------
\* The refinement mapping to SharedRequests.  A request that can be shared is
\* answered when it leaves the table, whenever the answer came.
RequestOf ==
    [c \in Requests |->
        IF stage[c] = "new" THEN NoRequest ELSE IF Shared(c) THEN flightOf[c] ELSE c]
AnswerTo ==
    [c \in Requests |->
        IF stage[c] = "resolving" \/ (Answered(c) /\ ~Shared(c)) THEN AnswerOf(c)
        ELSE IF stage[c] = "done" /\ RequestOf[c] = c THEN outcome[c]
        ELSE "pending"]

Flights == INSTANCE SharedRequests WITH joined <- RequestOf, answer <- AnswerTo

\* To those who call create_text, it is as if equal calls shared requests, with
\* and without the scheduler and whenever it is shut down.
ImplementsSharedRequests == Flights!SharedSpec

\* Every call ends, followers included, whatever became of the leader.
CallsEnd == \A c \in Requests : stage[c] # "new" ~> stage[c] = "done"
=============================================================================

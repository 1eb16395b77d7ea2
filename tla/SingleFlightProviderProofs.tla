---------------------- MODULE SingleFlightProviderProofs ----------------------
(***************************************************************************)
(* Proofs about SingleFlightProvider, for any calls, fingerprints and      *)
(* workers, with and without the scheduler: one request per fingerprint is *)
(* under way, followers end as their leader does, and create_text          *)
(* implements SharedRequests.                                              *)
(***************************************************************************)
EXTENDS SingleFlightProvider, BoundedRequestSchedulerProofs

\* A call that shares holds its own future while its request is under way.
LeadersHoldTheirOwn ==
    \A c \in Requests :
        Shared(c) /\ stage[c] \in {"submitting", "resolving"} => flightOf[c] = c

\* A request that has been popped is over.
PoppedIsOver ==
    \A c \in Requests :
        stage[c] = "resolving" => Shared(c) /\ pc[c] \in {"returned", "refused"}

\* Whoever has followed, or shared and returned, holds the future of a leader
\* with the same fingerprint.
FollowersHoldALeaders ==
    \A c \in Requests :
        stage[c] = "following" \/ (stage[c] = "done" /\ Shared(c)) =>
            /\ flightOf[c] \in Requests
            /\ Shared(c)
            /\ FingerprintOf[flightOf[c]] = FingerprintOf[c]
            /\ stage[flightOf[c]] \in {"submitting", "resolving", "done"}
            /\ flightOf[flightOf[c]] = flightOf[c]

\* A promise is kept only by a leader that has returned, and as it returned.
PromisesKept ==
    \A c \in Requests :
        promise[c] # "pending" => stage[c] = "done" /\ outcome[c] = promise[c]

\* With the scheduler its own invariant holds.  Without it calls pass through
\* the same places, but their requests never have a number on its heap.
RequestsAnswered ==
    /\ schedulerEnabled => SchedInv
    /\ \A c \in Requests : pc[c] = "returned" => future[c] # "pending"

\* Nothing has been sent for a call that has not looked the table up.
NothingSentYet == \A c \in Requests : stage[c] = "new" => pc[c] = "scheduling"

FlightInv ==
    /\ FlightTypeOK
    /\ NothingSentYet
    /\ RequestsAnswered
    /\ OneFlight
    /\ LeadersHoldTheirOwn
    /\ PoppedIsOver
    /\ FollowersHoldALeaders
    /\ PromisesKept
    /\ SharedFate

-----------------------------------------------------------------------------
\* The invariant holds before the first call.
LEMMA FlightInvInit == Init => FlightInv
<1> SUFFICES ASSUME Init PROVE FlightInv
  OBVIOUS
<1> USE DEF Init
<1>1. SchedInv
  BY SchedInvInit
<1>2. FlightTypeOK
  BY <1>1 DEF SchedInv, FlightTypeOK, Stages
<1>3. RequestsAnswered
  BY <1>1 DEF RequestsAnswered, SchedInit
<1>4. OneFlight
  BY DEF OneFlight, Flying
<1>5. LeadersHoldTheirOwn /\ PoppedIsOver /\ FollowersHoldALeaders
  BY DEF LeadersHoldTheirOwn, PoppedIsOver, FollowersHoldALeaders
<1>6. PromisesKept /\ SharedFate /\ NothingSentYet
  BY DEF PromisesKept, SharedFate, NothingSentYet, SchedInit
<1> QED
  BY <1>2, <1>3, <1>4, <1>5, <1>6 DEF FlightInv

\* What happens to requests, on the heap, with a worker or in the caller's own
\* thread, leaves the table and everybody's future in it alone, and never
\* undoes the end of a request.
LEMMA RequestStepKeepsFlights ==
    ASSUME FlightInv, SchedTypeOK', RequestsAnswered', UNCHANGED flightVars,
           \A c \in Requests : pc[c] \in {"returned", "refused"} => pc'[c] = pc[c],
           \A c \in Requests : stage[c] = "new" => pc'[c] = pc[c]
    PROVE  FlightInv'
<1> USE DEF FlightInv, flightVars
<1>1. FlightTypeOK'
  BY DEF FlightTypeOK
<1>2. OneFlight'
  BY DEF OneFlight, Flying
<1>3. LeadersHoldTheirOwn' /\ FollowersHoldALeaders' /\ PromisesKept' /\ SharedFate'
  BY DEF LeadersHoldTheirOwn, FollowersHoldALeaders, PromisesKept, SharedFate, Shared
<1>4. PoppedIsOver' /\ NothingSentYet'
  BY DEF PoppedIsOver, NothingSentYet, Shared
<1> QED
  BY <1>1, <1>2, <1>3, <1>4

\* A step of the scheduler.
LEMMA SchedulerStepKeepsFlights ==
    ASSUME FlightInv, schedulerEnabled, SchedNext, UNCHANGED flightVars,
           \A c \in Requests : stage[c] = "new" => pc'[c] = pc[c]
    PROVE  FlightInv'
<1>1. SchedInv /\ SchedInv'
  BY SchedInvNext DEF FlightInv, RequestsAnswered
<1>2. SchedTypeOK /\ SchedTypeOK'
  BY <1>1 DEF SchedInv
<1>3. RequestsAnswered'
  BY <1>1 DEF RequestsAnswered, SchedInv, PlaceOfRequest
<1>4. ASSUME NEW r \in Requests, Submitter(r),
             NEW c \in Requests, pc[c] \in {"returned", "refused"}
      PROVE pc'[c] = pc[c]
  BY <1>2, <1>4 DEF Submitter, SubmitterWaits, Refuse, Enqueue, Collect, SchedTypeOK
<1>5. ASSUME (\E w \in Workers : Worker(w)) \/ Shutdown \/ Joined
      PROVE pc' = pc
  BY <1>5 DEF Worker, WorkerWaits, WorkerExits, Dequeue, Finish, Shutdown, Joined
<1>6. \A c \in Requests : pc[c] \in {"returned", "refused"} => pc'[c] = pc[c]
  BY <1>4, <1>5 DEF SchedNext
<1> QED
  BY <1>2, <1>3, <1>6, RequestStepKeepsFlights

\* A request sent in the caller's own thread.
LEMMA DirectRunKeepsFlights ==
    ASSUME FlightInv, NEW c \in Requests, RunDirect(c)
    PROVE  FlightInv'
<1>1. PICK o \in {"result", "exception"} : future' = [future EXCEPT ![c] = o]
  BY DEF RunDirect
<1>2. /\ ~schedulerEnabled
      /\ pc[c] = "scheduling"
      /\ pc' = [pc EXCEPT ![c] = "returned"]
      /\ UNCHANGED <<queue, sequenceNumber, nextSequence, shutdownFlag, waiters,
                     workerPc, job, closer, flightVars>>
  BY DEF RunDirect
<1>3. SchedTypeOK /\ SchedTypeOK'
  BY <1>1, <1>2 DEF FlightInv, FlightTypeOK, SchedTypeOK
<1>4. RequestsAnswered'
  BY <1>1, <1>2, <1>3 DEF FlightInv, RequestsAnswered, SchedTypeOK, flightVars
<1>5. \A d \in Requests : /\ pc[d] \in {"returned", "refused"} => pc'[d] = pc[d]
                          /\ stage[d] = "new" => pc'[d] = pc[d]
  BY <1>2, <1>3 DEF SchedTypeOK, RunDirect
<1> QED
  BY <1>2, <1>3, <1>4, <1>5, RequestStepKeepsFlights

\* Every step of a call that is not about its request.
LEMMA RequestsUntouched ==
    ASSUME FlightInv, UNCHANGED <<schedVars, schedulerEnabled>>
    PROVE  SchedTypeOK' /\ RequestsAnswered'
<1>1. SchedTypeOK
  BY DEF FlightInv, FlightTypeOK
<1>2. SchedTypeOK' /\ (SchedInv => SchedInv')
  BY <1>1, SchedInvNext DEF schedVars, SchedTypeOK
<1> QED
  BY <1>2 DEF FlightInv, RequestsAnswered, schedVars

LEMMA FlightInvNext == FlightInv /\ [Next]_vars => FlightInv'
<1> SUFFICES ASSUME FlightInv, [Next]_vars PROVE FlightInv'
  OBVIOUS
<1> USE SchedulerAssumption, FlightAssumption DEF FlightInv
<1>1. ASSUME NEW c \in Requests, Alone(c)
      PROVE FlightInv'
  <2> USE <1>1 DEF Alone, Moves
  <2>1. SchedTypeOK' /\ RequestsAnswered'
    BY RequestsUntouched
  <2>2. FlightTypeOK'
    BY <2>1 DEF FlightTypeOK, Stages
  <2>3. OneFlight'
    BY DEF OneFlight, Flying, FlightTypeOK, Fingerprints, Shared
  <2>4. LeadersHoldTheirOwn' /\ PoppedIsOver' /\ NothingSentYet'
    BY DEF LeadersHoldTheirOwn, PoppedIsOver, NothingSentYet, FlightTypeOK, schedVars, Shared
  <2>5. FollowersHoldALeaders' /\ PromisesKept' /\ SharedFate'
    BY DEF FollowersHoldALeaders, PromisesKept, SharedFate, FlightTypeOK, Shared
  <2> QED
    BY <2>1, <2>2, <2>3, <2>4, <2>5
<1>2. ASSUME NEW c \in Requests, Lead(c)
      PROVE FlightInv'
  <2> USE <1>2 DEF Lead, Moves
  <2>1. SchedTypeOK' /\ RequestsAnswered'
    BY RequestsUntouched
  <2>2. FingerprintOf[c] \in Fingerprints
    BY DEF Shared, Fingerprints
  <2>3. FlightTypeOK'
    BY <2>1, <2>2 DEF FlightTypeOK, Stages
  <2>4. OneFlight'
    BY <2>2 DEF OneFlight, Flying, FlightTypeOK, Fingerprints
  <2>5. LeadersHoldTheirOwn' /\ PoppedIsOver' /\ NothingSentYet'
    BY DEF LeadersHoldTheirOwn, PoppedIsOver, NothingSentYet, FlightTypeOK, schedVars, Shared
  <2>6. FollowersHoldALeaders' /\ PromisesKept' /\ SharedFate'
    BY DEF FollowersHoldALeaders, PromisesKept, SharedFate, FlightTypeOK, Shared
  <2> QED
    BY <2>1, <2>3, <2>4, <2>5, <2>6
<1>3. ASSUME NEW c \in Requests, Follow(c)
      PROVE FlightInv'
  <2> USE <1>3 DEF Follow, Moves
  <2> DEFINE leader == inflight[FingerprintOf[c]]
  <2>1. SchedTypeOK' /\ RequestsAnswered'
    BY RequestsUntouched
  <2>2. FingerprintOf[c] \in Fingerprints
    BY DEF Shared, Fingerprints
  <2>3. leader \in Flying(FingerprintOf[c])
    BY <2>2 DEF OneFlight
  <2>4. /\ leader \in Requests /\ FingerprintOf[leader] = FingerprintOf[c] /\ Shared(leader)
        /\ stage[leader] = "submitting" /\ flightOf[leader] = leader
    BY <2>3 DEF Flying, Shared, LeadersHoldTheirOwn
  <2>5. FlightTypeOK'
    BY <2>1, <2>4 DEF FlightTypeOK, Stages
  <2>6. OneFlight'
    BY DEF OneFlight, Flying, FlightTypeOK, Fingerprints
  <2>7. LeadersHoldTheirOwn' /\ PoppedIsOver' /\ NothingSentYet'
    BY DEF LeadersHoldTheirOwn, PoppedIsOver, NothingSentYet, FlightTypeOK, schedVars, Shared
  <2>8. FollowersHoldALeaders'
    BY <2>4 DEF FollowersHoldALeaders, FlightTypeOK, Shared
  <2>9. PromisesKept' /\ SharedFate'
    BY DEF PromisesKept, SharedFate, FlightTypeOK, Shared
  <2> QED
    BY <2>1, <2>5, <2>6, <2>7, <2>8, <2>9
<1>4. ASSUME NEW c \in Requests, RunDirect(c)
      PROVE FlightInv'
  BY <1>4, DirectRunKeepsFlights
<1>5. ASSUME NEW c \in Requests, Submit(c)
      PROVE FlightInv'
  <2>1. \A d \in Requests : stage[d] = "new" => pc'[d] = pc[d]
    BY <1>5 DEF FlightTypeOK, SchedTypeOK, Submit, Submitter, SubmitterWaits, Refuse,
               Enqueue, Collect
  <2> QED
    BY <1>5, <2>1, SchedulerStepKeepsFlights DEF Submit, SchedNext
<1>6. ASSUME NEW c \in Requests, ReturnAlone(c)
      PROVE FlightInv'
  <2> USE <1>6 DEF ReturnAlone, Moves, Answered
  <2>1. SchedTypeOK' /\ RequestsAnswered'
    BY RequestsUntouched
  <2>2. AnswerOf(c) \in {"result", "exception"}
    BY DEF AnswerOf, RequestsAnswered, FlightTypeOK, SchedTypeOK
  <2>3. FlightTypeOK'
    BY <2>1, <2>2 DEF FlightTypeOK, Stages
  <2>4. OneFlight'
    BY DEF OneFlight, Flying, FlightTypeOK, Fingerprints, Shared
  <2>5. LeadersHoldTheirOwn' /\ PoppedIsOver' /\ NothingSentYet'
    BY DEF LeadersHoldTheirOwn, PoppedIsOver, NothingSentYet, FlightTypeOK, schedVars, Shared
  <2>6. FollowersHoldALeaders' /\ PromisesKept' /\ SharedFate'
    BY DEF FollowersHoldALeaders, PromisesKept, SharedFate, FlightTypeOK, Shared
  <2> QED
    BY <2>1, <2>3, <2>4, <2>5, <2>6
<1>7. ASSUME NEW c \in Requests, Pop(c)
      PROVE FlightInv'
  <2> USE <1>7 DEF Pop, Moves, Answered
  <2>1. SchedTypeOK' /\ RequestsAnswered'
    BY RequestsUntouched
  <2>2. FingerprintOf[c] \in Fingerprints
    BY DEF Shared, Fingerprints
  <2>3. c \in Flying(FingerprintOf[c])
    BY DEF Flying
  <2>4. inflight[FingerprintOf[c]] = c /\ Flying(FingerprintOf[c]) = {c}
    BY <2>2, <2>3 DEF OneFlight
  <2>5. inflight' = [inflight EXCEPT ![FingerprintOf[c]] = NoRequest]
    BY <2>4
  <2>6. FlightTypeOK'
    BY <2>1, <2>2, <2>5 DEF FlightTypeOK, Stages
  <2>7. OneFlight'
    BY <2>2, <2>4, <2>5 DEF OneFlight, Flying, FlightTypeOK, Fingerprints
  <2>8. LeadersHoldTheirOwn' /\ PoppedIsOver' /\ NothingSentYet'
    BY DEF LeadersHoldTheirOwn, PoppedIsOver, NothingSentYet, FlightTypeOK, schedVars, Shared
  <2>9. FollowersHoldALeaders' /\ PromisesKept' /\ SharedFate'
    BY DEF FollowersHoldALeaders, PromisesKept, SharedFate, FlightTypeOK, Shared
  <2> QED
    BY <2>1, <2>6, <2>7, <2>8, <2>9
<1>8. ASSUME NEW c \in Requests, Resolve(c)
      PROVE FlightInv'
  <2> USE <1>8 DEF Resolve, Moves
  <2>1. SchedTypeOK' /\ RequestsAnswered'
    BY RequestsUntouched
  <2>2. Shared(c) /\ flightOf[c] = c
    BY DEF PoppedIsOver, LeadersHoldTheirOwn
  <2>3. AnswerOf(c) \in {"result", "exception"}
    BY DEF AnswerOf, PoppedIsOver, RequestsAnswered, FlightTypeOK, SchedTypeOK
  <2>4. FlightTypeOK'
    BY <2>1, <2>3 DEF FlightTypeOK, Stages
  <2>5. OneFlight'
    BY DEF OneFlight, Flying, FlightTypeOK, Fingerprints
  <2>6. LeadersHoldTheirOwn' /\ PoppedIsOver' /\ NothingSentYet'
    BY DEF LeadersHoldTheirOwn, PoppedIsOver, NothingSentYet, FlightTypeOK, schedVars, Shared
  <2>7. FollowersHoldALeaders' /\ PromisesKept'
    BY <2>2, <2>3 DEF FollowersHoldALeaders, PromisesKept, FlightTypeOK, Shared
  <2>8. SharedFate'
    BY <2>2, <2>3 DEF SharedFate, FollowersHoldALeaders, FlightTypeOK, Shared
  <2> QED
    BY <2>1, <2>4, <2>5, <2>6, <2>7, <2>8
<1>9. ASSUME NEW c \in Requests, Await(c)
      PROVE FlightInv'
  <2> USE <1>9 DEF Await, Moves
  <2>1. SchedTypeOK' /\ RequestsAnswered'
    BY RequestsUntouched
  <2>2. /\ flightOf[c] \in Requests
        /\ stage[flightOf[c]] = "done"
        /\ outcome[flightOf[c]] = promise[flightOf[c]]
    BY DEF FollowersHoldALeaders, PromisesKept
  <2>3. FlightTypeOK'
    BY <2>1, <2>2 DEF FlightTypeOK, Stages
  <2>4. OneFlight'
    BY DEF OneFlight, Flying, FlightTypeOK, Fingerprints
  <2>5. LeadersHoldTheirOwn' /\ PoppedIsOver' /\ NothingSentYet'
    BY DEF LeadersHoldTheirOwn, PoppedIsOver, NothingSentYet, FlightTypeOK, schedVars, Shared
  <2>6. FollowersHoldALeaders' /\ PromisesKept'
    BY <2>2 DEF FollowersHoldALeaders, PromisesKept, FlightTypeOK, Shared
  <2>7. SharedFate'
    BY <2>2 DEF SharedFate, FollowersHoldALeaders, FlightTypeOK, Shared
  <2> QED
    BY <2>1, <2>3, <2>4, <2>5, <2>6, <2>7
<1>10. CASE SchedulerStep
  <2>1. pc' = pc
    BY <1>10 DEF SchedulerStep, Worker, WorkerWaits, WorkerExits, Dequeue, Finish,
                 Shutdown, Joined
  <2> QED
    BY <1>10, <2>1, SchedulerStepKeepsFlights DEF SchedulerStep, SchedNext
<1>11. CASE UNCHANGED vars
  <2>1. UNCHANGED <<schedVars, schedulerEnabled>> /\ UNCHANGED flightVars
    BY <1>11 DEF vars, flightVars
  <2>2. SchedTypeOK' /\ RequestsAnswered'
    BY <2>1, RequestsUntouched
  <2>3. pc' = pc
    BY <2>1 DEF schedVars
  <2> QED
    BY <2>1, <2>2, <2>3, RequestStepKeepsFlights
<1> QED
  BY <1>1, <1>2, <1>3, <1>4, <1>5, <1>6, <1>7, <1>8, <1>9, <1>10, <1>11
     DEF Next, Call, Proceed

-----------------------------------------------------------------------------
\* The strengthened invariant holds throughout.
THEOREM FlightInvariant == Spec => []FlightInv
<1>1. Init => FlightInv
  BY FlightInvInit
<1>2. FlightInv /\ [Next]_vars => FlightInv'
  BY FlightInvNext
<1> QED
  BY <1>1, <1>2, PTL DEF Spec

\* Types, and a call has an outcome exactly when it is done.
THEOREM FlightTypes == Spec => []FlightTypeOK
<1>1. FlightInv => FlightTypeOK
  BY DEF FlightInv
<1> QED
  BY <1>1, FlightInvariant, PTL

\* _acquire_inflight_request and _complete_inflight_request let one request of
\* a fingerprint be under way, whatever the number of callers.
THEOREM OneRequestPerFingerprint == Spec => []OneFlight
<1>1. FlightInv => OneFlight
  BY DEF FlightInv
<1> QED
  BY <1>1, FlightInvariant, PTL

\* _await_inflight_result gives a follower its leader's result or error.
THEOREM FollowersShareTheirLeadersFate == Spec => []SharedFate
<1>1. FlightInv => SharedFate
  BY DEF FlightInv
<1> QED
  BY <1>1, FlightInvariant, PTL

-----------------------------------------------------------------------------
(* The refinement of SharedRequests.                                       *)

Over == {"returned", "refused"}

\* A call that has been answered, and whose request is its own.
LEMMA OwnAnswers ==
    ASSUME FlightInv, NEW c \in Requests
    PROVE  /\ pc[c] \in Over => AnswerOf(c) \in {"result", "exception"}
           /\ stage[c] = "resolving" => /\ Shared(c) /\ pc[c] \in Over /\ RequestOf[c] = c
                                        /\ AnswerTo[c] = AnswerOf(c)
           /\ stage[c] = "following" => /\ RequestOf[c] # c /\ AnswerTo[c] = "pending"
           /\ stage[c] = "submitting" => /\ RequestOf[c] = c
                                         /\ Shared(c) => AnswerTo[c] = "pending"
           /\ stage[c] = "new" => RequestOf[c] = NoRequest /\ AnswerTo[c] = "pending"
           /\ stage[c] # "new" => RequestOf[c] \in Requests /\ RequestOf[c] # NoRequest
           /\ stage[c] = "done" /\ RequestOf[c] = c => AnswerTo[c] # "pending"
<1> USE SchedulerAssumption DEF FlightInv
<1>1. stage[c] \in Stages /\ (outcome[c] # "pending" <=> stage[c] = "done")
  BY DEF FlightTypeOK
<1>2. pc[c] \in Over => AnswerOf(c) \in {"result", "exception"}
  BY DEF Over, AnswerOf, RequestsAnswered, FlightTypeOK, SchedTypeOK
<1>3. stage[c] = "resolving" => Shared(c) /\ pc[c] \in Over /\ flightOf[c] = c
  BY DEF PoppedIsOver, LeadersHoldTheirOwn, Over
<1>4. ASSUME stage[c] = "following"
      PROVE Shared(c) /\ flightOf[c] \in Requests /\ flightOf[c] # c
  <2>1. /\ Shared(c) /\ flightOf[c] \in Requests
        /\ stage[flightOf[c]] \in {"submitting", "resolving", "done"}
    BY <1>4 DEF FollowersHoldALeaders
  <2> QED
    BY <1>4, <2>1
<1>5. ASSUME stage[c] = "submitting", Shared(c) PROVE flightOf[c] = c
  BY <1>5 DEF LeadersHoldTheirOwn
<1>6. ASSUME stage[c] = "done", Shared(c) PROVE flightOf[c] \in Requests
  BY <1>6 DEF FollowersHoldALeaders
<1> QED
  BY <1>1, <1>2, <1>3, <1>4, <1>5, <1>6 DEF Stages, RequestOf, AnswerTo, Answered

\* What a step that is another call's, or about a request that is still under
\* way, leaves alone.
CallKept(d) ==
    /\ stage'[d] = stage[d] /\ flightOf'[d] = flightOf[d] /\ outcome'[d] = outcome[d]
    /\ pc[d] \in Over => pc'[d] = pc[d] /\ future'[d] = future[d]
    /\ stage[d] = "submitting" /\ ~Shared(d) /\ pc'[d] \in Over => pc[d] \in Over

LEMMA KeptCalls ==
    ASSUME FlightInv, NEW d \in Requests, CallKept(d)
    PROVE  RequestOf'[d] = RequestOf[d] /\ AnswerTo'[d] = AnswerTo[d]
<1>1. stage[d] = "resolving" => pc[d] \in Over
  BY OwnAnswers
<1>2. RequestOf'[d] = RequestOf[d]
  BY DEF CallKept, RequestOf, Shared
<1>3. pc[d] \in Over => (AnswerOf(d))' = AnswerOf(d)
  BY DEF CallKept, AnswerOf
<1>4. ~Shared(d) => ((Answered(d))' <=> Answered(d))
  BY DEF CallKept, Answered, Over
<1>5. Answered(d) => pc[d] \in Over
  BY DEF Answered, Over
<1>6. (Shared(d))' <=> Shared(d)
  BY DEF Shared
<1>7. /\ AnswerTo[d] =
             IF stage[d] = "resolving" \/ (Answered(d) /\ ~Shared(d)) THEN AnswerOf(d)
             ELSE IF stage[d] = "done" /\ RequestOf[d] = d THEN outcome[d]
             ELSE "pending"
      /\ AnswerTo'[d] =
             IF stage'[d] = "resolving" \/ ((Answered(d))' /\ ~Shared(d)) THEN (AnswerOf(d))'
             ELSE IF stage'[d] = "done" /\ RequestOf'[d] = d THEN outcome'[d]
             ELSE "pending"
  BY DEF AnswerTo, Shared
<1> QED
  BY <1>1, <1>2, <1>3, <1>4, <1>5, <1>7 DEF CallKept

LEMMA KeptButOne ==
    ASSUME FlightInv, NEW c \in Requests, \A d \in Requests \ {c} : CallKept(d)
    PROVE  /\ RequestOf' = [RequestOf EXCEPT ![c] = RequestOf'[c]]
           /\ AnswerTo' = [AnswerTo EXCEPT ![c] = AnswerTo'[c]]
           /\ RequestOf'[c] = RequestOf[c] => RequestOf' = RequestOf
           /\ AnswerTo'[c] = AnswerTo[c] => AnswerTo' = AnswerTo
<1>1. \A d \in Requests \ {c} : RequestOf'[d] = RequestOf[d] /\ AnswerTo'[d] = AnswerTo[d]
  BY KeptCalls
<1>2. /\ RequestOf = [d \in Requests |-> RequestOf[d]]
      /\ RequestOf' = [d \in Requests |-> RequestOf'[d]]
  BY DEF RequestOf
<1>3. /\ AnswerTo = [d \in Requests |-> AnswerTo[d]]
      /\ AnswerTo' = [d \in Requests |-> AnswerTo'[d]]
  BY DEF AnswerTo
<1> QED
  BY <1>1, <1>2, <1>3

\* A shared request that has not been answered is the one in the table.
LEMMA UnderWayIsFlying ==
    ASSUME FlightInv, NEW r \in Requests, RequestOf[r] = r, AnswerTo[r] = "pending"
    PROVE  stage[r] = "submitting"
<1>1. stage[r] \in Stages
  BY DEF FlightInv, FlightTypeOK
<1>2. pc[r] \in Over => AnswerOf(r) # "pending"
  BY OwnAnswers
<1> QED
  BY <1>1, <1>2, OwnAnswers, SchedulerAssumption DEF Stages

\* The scheduler never takes back the end of a request, and ends only those
\* that wait for it.
LEMMA OverIsKept ==
    ASSUME SchedInv, SchedNext, NEW d \in Requests, pc[d] \in Over
    PROVE  pc'[d] = pc[d] /\ future'[d] = future[d]
<1> USE DEF SchedInv, SchedTypeOK, Over
<1>1. ASSUME NEW r \in Requests, Submitter(r)
      PROVE pc'[d] = pc[d] /\ future'[d] = future[d]
  BY <1>1 DEF Submitter, SubmitterWaits, Refuse, Enqueue, Collect
<1>2. ASSUME NEW w \in Workers, Finish(w)
      PROVE pc'[d] = pc[d] /\ future'[d] = future[d]
  <2>1. job[w] # NoRequest /\ job[w] \in Requests /\ job[w] # d
    BY <1>2 DEF Finish, PlaceOfJob
  <2> QED
    BY <1>2, <2>1 DEF Finish
<1>3. ASSUME NEW w \in Workers, WorkerWaits(w) \/ WorkerExits(w) \/ Dequeue(w)
      PROVE pc'[d] = pc[d] /\ future'[d] = future[d]
  BY <1>3 DEF WorkerWaits, WorkerExits, Dequeue
<1>4. CASE Shutdown \/ Joined
  BY <1>4 DEF Shutdown, Joined
<1> QED
  BY <1>1, <1>2, <1>3, <1>4 DEF SchedNext, Worker

\* The look-up finds nothing, or there is none: the call sends its own request.
LEMMA FirstOfItsKindSends ==
    ASSUME FlightInv, NEW c \in Requests, Alone(c) \/ Lead(c)
    PROVE  Flights!Send(c)
<1> USE DEF FlightInv, FlightTypeOK
<1>1. /\ stage[c] = "new" /\ pc[c] = "scheduling"
      /\ stage' = [stage EXCEPT ![c] = "submitting"]
      /\ UNCHANGED <<pc, future, outcome>>
      /\ \A d \in Requests \ {c} : flightOf'[d] = flightOf[d]
      /\ Shared(c) => flightOf'[c] = c
  BY DEF Alone, Lead, Moves, NothingSentYet, schedVars
<1>2. \A d \in Requests \ {c} : CallKept(d)
  BY <1>1 DEF CallKept
<1>3. RequestOf[c] = NoRequest /\ AnswerTo[c] = "pending"
  BY <1>1, OwnAnswers
<1>4. RequestOf'[c] = c
  BY <1>1 DEF RequestOf, Shared
<1>5. AnswerTo'[c] = "pending"
  BY <1>1 DEF AnswerTo, Answered
<1>6. RequestOf' = [RequestOf EXCEPT ![c] = c] /\ AnswerTo' = AnswerTo
  BY <1>2, <1>3, <1>4, <1>5, KeptButOne
<1>7. ASSUME Shared(c) PROVE Flights!UnderWay(FingerprintOf[c]) = {}
  <2>1. FingerprintOf[c] \in Fingerprints /\ inflight[FingerprintOf[c]] = NoRequest
    BY <1>7 DEF Lead, Alone, Shared, Fingerprints
  <2>2. Flying(FingerprintOf[c]) = {}
    BY <2>1 DEF OneFlight
  <2>3. \A r \in Flights!UnderWay(FingerprintOf[c]) : r \in Flying(FingerprintOf[c])
    BY UnderWayIsFlying DEF Flights!UnderWay, Flying
  <2> QED
    BY <2>2, <2>3
<1> QED
  BY <1>1, <1>3, <1>6, <1>7 DEF Flights!Send, Flights!Joins, Shared

\* The look-up finds a future: the call joins a request not yet answered.
LEMMA FollowerJoins ==
    ASSUME FlightInv, NEW c \in Requests, Follow(c)
    PROVE  Flights!Join(c)
<1> USE DEF FlightInv, FlightTypeOK
<1> DEFINE leader == inflight[FingerprintOf[c]]
<1>1. /\ stage[c] = "new" /\ Shared(c) /\ leader # NoRequest
      /\ stage' = [stage EXCEPT ![c] = "following"]
      /\ flightOf' = [flightOf EXCEPT ![c] = leader]
      /\ UNCHANGED <<pc, future, outcome>>
  BY DEF Follow, Moves, schedVars
<1>2. \A d \in Requests \ {c} : CallKept(d)
  BY <1>1 DEF CallKept
<1>3. FingerprintOf[c] \in Fingerprints
  BY <1>1 DEF Shared, Fingerprints
<1>4. leader \in Flying(FingerprintOf[c])
  BY <1>1, <1>3 DEF OneFlight
<1>5. /\ leader \in Requests /\ FingerprintOf[leader] = FingerprintOf[c] /\ Shared(leader)
      /\ stage[leader] = "submitting"
  BY <1>1, <1>4 DEF Flying, Shared
<1>6. leader \in Flights!UnderWay(FingerprintOf[c])
  BY <1>5, OwnAnswers DEF Flights!UnderWay
<1>7. RequestOf[c] = NoRequest /\ AnswerTo[c] = "pending"
  BY <1>1, OwnAnswers
<1>8. RequestOf'[c] = leader /\ AnswerTo'[c] = "pending"
  BY <1>1 DEF RequestOf, AnswerTo, Answered, Shared
<1>9. RequestOf' = [RequestOf EXCEPT ![c] = leader] /\ AnswerTo' = AnswerTo
  BY <1>2, <1>7, <1>8, KeptButOne
<1> QED
  BY <1>1, <1>6, <1>7, <1>9 DEF Flights!Join, Flights!Joins, Shared

\* A step about the request of a call: to a call that shares nothing it may
\* bring the answer.  One that is shared is answered by the pop.
LEMMA RequestStepAnswers ==
    ASSUME FlightInv, FlightInv', NEW c \in Requests, stage[c] = "submitting",
           pc[c] \notin Over, UNCHANGED flightVars,
           \A d \in Requests \ {c} : CallKept(d)
    PROVE  Flights!Answer(c) \/ UNCHANGED Flights!sharedVars
<1> USE DEF flightVars
<1>1. /\ stage' = stage /\ flightOf' = flightOf /\ outcome' = outcome
      /\ RequestOf' = RequestOf
  BY DEF RequestOf, Shared
<1>2. RequestOf[c] = c
  BY OwnAnswers
<1>3. CASE CallKept(c)
  <2>1. \A d \in Requests : AnswerTo'[d] = AnswerTo[d]
    BY <1>3, KeptCalls
  <2>2. AnswerTo' = AnswerTo
    BY <2>1 DEF AnswerTo
  <2> QED
    BY <1>1, <2>2 DEF Flights!sharedVars
<1>4. CASE ~CallKept(c)
  <2>1. ~Shared(c) /\ pc'[c] \in Over
    BY <1>1, <1>4 DEF CallKept
  <2>2. AnswerTo[c] = "pending"
    BY DEF AnswerTo, Answered, Over
  <2>3. AnswerTo'[c] = (AnswerOf(c))'
    BY <1>1, <2>1 DEF AnswerTo, Answered, Over, Shared
  <2>4. (AnswerOf(c))' \in {"result", "exception"}
    <3>1. pc'[c] = "returned" => future'[c] \in {"result", "exception"}
      BY DEF FlightInv, RequestsAnswered, FlightTypeOK, SchedTypeOK
    <3> QED
      BY <2>1, <3>1 DEF AnswerOf, Over
  <2>5. AnswerTo' = [AnswerTo EXCEPT ![c] = (AnswerOf(c))']
    BY <2>3, KeptButOne
  <2> QED
    BY <1>1, <1>2, <2>2, <2>4, <2>5 DEF Flights!Answer
<1> QED
  BY <1>3, <1>4

\* A call returns, or raises, with the answer to the request it shares.
LEMMA CallReturns ==
    ASSUME FlightInv, NEW c \in Requests,
           ReturnAlone(c) \/ Resolve(c) \/ Await(c)
    PROVE  Flights!Return(c)
<1> USE DEF FlightInv, FlightTypeOK
<1>1. /\ stage[c] \in {"submitting", "resolving", "following"}
      /\ stage' = [stage EXCEPT ![c] = "done"]
      /\ UNCHANGED <<pc, future, flightOf>>
      /\ \E o \in {"pending", "result", "exception"} : outcome' = [outcome EXCEPT ![c] = o]
  BY DEF ReturnAlone, Resolve, Await, Moves, Answered, schedVars, AnswerOf, SchedTypeOK,
         FollowersHoldALeaders
<1>2. \A d \in Requests \ {c} : CallKept(d)
  BY <1>1 DEF CallKept
<1>3. RequestOf'[c] = RequestOf[c] /\ RequestOf[c] # NoRequest /\ RequestOf[c] \in Requests
  BY <1>1, OwnAnswers DEF RequestOf, Shared
<1>4. outcome' = [outcome EXCEPT ![c] = AnswerTo[RequestOf[c]]]
      /\ AnswerTo[RequestOf[c]] # "pending"
  <2>1. CASE ReturnAlone(c)
    <3>1. RequestOf[c] = c /\ AnswerTo[c] = AnswerOf(c) /\ pc[c] \in Over
      BY <2>1 DEF ReturnAlone, Answered, RequestOf, AnswerTo, Over
    <3> QED
      BY <2>1, <3>1, OwnAnswers DEF ReturnAlone
  <2>2. CASE Resolve(c)
    <3>1. RequestOf[c] = c /\ AnswerTo[c] = AnswerOf(c) /\ pc[c] \in Over
      BY <2>2, OwnAnswers DEF Resolve
    <3> QED
      BY <2>2, <3>1, OwnAnswers DEF Resolve
  <2>3. CASE Await(c)
    <3> DEFINE leader == flightOf[c]
    <3>1. /\ Shared(c) /\ leader \in Requests /\ flightOf[leader] = leader
          /\ FingerprintOf[leader] = FingerprintOf[c]
          /\ stage[leader] = "done" /\ outcome[leader] = promise[leader]
      BY <2>3 DEF Await, FollowersHoldALeaders, PromisesKept
    <3>2. Shared(leader)
      BY <3>1 DEF Shared
    <3>3. RequestOf[c] = leader /\ RequestOf[leader] = leader
      BY <2>3, <3>1, <3>2 DEF Await, RequestOf
    <3>4. AnswerTo[leader] = promise[leader]
      BY <3>1, <3>3 DEF AnswerTo, Answered
    <3> QED
      BY <2>3, <3>3, <3>4 DEF Await
  <2> QED
    BY <2>1, <2>2, <2>3
<1>5. AnswerTo'[c] = AnswerTo[c]
  <2>1. outcome'[c] = AnswerTo[RequestOf[c]]
    BY <1>4
  <2>2. AnswerTo'[c] = IF RequestOf[c] = c THEN outcome'[c] ELSE "pending"
    BY <1>1, <1>3 DEF AnswerTo, Answered
  <2>3. RequestOf[c] # c => AnswerTo[c] = "pending"
    BY <1>1, OwnAnswers
  <2> QED
    BY <2>1, <2>2, <2>3
<1>6. RequestOf' = RequestOf /\ AnswerTo' = AnswerTo
  BY <1>2, <1>3, <1>5, KeptButOne
<1> QED
  BY <1>1, <1>3, <1>4, <1>6 DEF Flights!Return

\* A shared request is answered when its entry leaves the table.
LEMMA PopAnswers ==
    ASSUME FlightInv, NEW c \in Requests, Pop(c)
    PROVE  Flights!Answer(c)
<1> USE DEF FlightInv, FlightTypeOK
<1>1. /\ stage[c] = "submitting" /\ Shared(c) /\ pc[c] \in Over
      /\ stage' = [stage EXCEPT ![c] = "resolving"]
      /\ UNCHANGED <<pc, future, flightOf, outcome>>
  BY DEF Pop, Moves, Answered, Over, schedVars
<1>2. \A d \in Requests \ {c} : CallKept(d)
  BY <1>1 DEF CallKept
<1>3. RequestOf[c] = c /\ AnswerTo[c] = "pending"
  BY <1>1, OwnAnswers
<1>4. RequestOf'[c] = c
  BY <1>1, <1>3 DEF RequestOf, Shared
<1>5. AnswerTo'[c] = AnswerOf(c)
  BY <1>1 DEF AnswerTo, AnswerOf
<1>6. RequestOf' = RequestOf /\ AnswerTo' = [AnswerTo EXCEPT ![c] = AnswerOf(c)]
  BY <1>2, <1>3, <1>4, <1>5, KeptButOne
<1>7. AnswerOf(c) \in {"result", "exception"}
  BY <1>1, OwnAnswers
<1> QED
  BY <1>1, <1>3, <1>6, <1>7 DEF Flights!Answer

\* The scheduler's own threads and its shutdown are nobody's concern.
LEMMA SchedulerThreadsAreHidden ==
    ASSUME FlightInv, SchedulerStep
    PROVE  UNCHANGED Flights!sharedVars
<1>1. SchedInv /\ SchedNext /\ UNCHANGED flightVars
  BY DEF SchedulerStep, SchedNext, FlightInv, RequestsAnswered
<1>2. pc' = pc
  BY DEF SchedulerStep, Worker, WorkerWaits, WorkerExits, Dequeue, Finish, Shutdown, Joined
<1>3. \A d \in Requests : CallKept(d)
  BY <1>1, <1>2, OverIsKept DEF CallKept, flightVars
<1>4. \A d \in Requests : RequestOf'[d] = RequestOf[d] /\ AnswerTo'[d] = AnswerTo[d]
  BY <1>3, KeptCalls
<1>5. RequestOf' = RequestOf /\ AnswerTo' = AnswerTo
  BY <1>4 DEF RequestOf, AnswerTo
<1> QED
  BY <1>1, <1>5 DEF Flights!sharedVars, flightVars

\* Every step is a step of shared requests, or none.
LEMMA SharedStep ==
    ASSUME FlightInv, [Next]_vars, FlightInv'
    PROVE  [Flights!SharedNext]_(Flights!sharedVars)
<1>1. ASSUME NEW c \in Requests, Alone(c) \/ Lead(c)
      PROVE Flights!SharedNext
  BY <1>1, FirstOfItsKindSends DEF Flights!SharedNext
<1>2. ASSUME NEW c \in Requests, Follow(c)
      PROVE Flights!SharedNext
  BY <1>2, FollowerJoins DEF Flights!SharedNext
<1>3. ASSUME NEW c \in Requests, RunDirect(c)
      PROVE [Flights!SharedNext]_(Flights!sharedVars)
  <2>1. /\ stage[c] = "submitting" /\ pc[c] \notin Over /\ UNCHANGED flightVars
        /\ \A d \in Requests \ {c} : pc'[d] = pc[d] /\ future'[d] = future[d]
    BY <1>3 DEF RunDirect, Over, FlightInv, FlightTypeOK, SchedTypeOK
  <2>2. \A d \in Requests \ {c} : CallKept(d)
    BY <2>1 DEF CallKept, flightVars
  <2> QED
    BY <2>1, <2>2, RequestStepAnswers DEF Flights!SharedNext
<1>4. ASSUME NEW c \in Requests, Submit(c)
      PROVE [Flights!SharedNext]_(Flights!sharedVars)
  <2>1. stage[c] = "submitting" /\ pc[c] \notin Over /\ UNCHANGED flightVars
    BY <1>4 DEF Submit, Submitter, SubmitterWaits, Refuse, Enqueue, Collect, Over
  <2>2. future' = future /\ \A d \in Requests \ {c} : pc'[d] = pc[d]
    BY <1>4 DEF Submit, Submitter, SubmitterWaits, Refuse, Enqueue, Collect,
               FlightInv, FlightTypeOK, SchedTypeOK
  <2>3. \A d \in Requests \ {c} : CallKept(d)
    BY <2>1, <2>2 DEF CallKept, flightVars
  <2> QED
    BY <2>1, <2>3, RequestStepAnswers DEF Flights!SharedNext
<1>5. ASSUME NEW c \in Requests, Pop(c)
      PROVE Flights!SharedNext
  BY <1>5, PopAnswers DEF Flights!SharedNext
<1>6. ASSUME NEW c \in Requests, ReturnAlone(c) \/ Resolve(c) \/ Await(c)
      PROVE Flights!SharedNext
  BY <1>6, CallReturns DEF Flights!SharedNext
<1>7. CASE SchedulerStep
  BY <1>7, SchedulerThreadsAreHidden
<1>8. CASE UNCHANGED vars
  <2>1. UNCHANGED <<stage, flightOf, outcome, pc, future>>
    BY <1>8 DEF vars, schedVars, flightVars
  <2>2. RequestOf' = RequestOf /\ AnswerTo' = AnswerTo
    BY <2>1 DEF RequestOf, AnswerTo, Shared, Answered, AnswerOf
  <2> QED
    BY <2>1, <2>2 DEF Flights!sharedVars
<1> QED
  BY <1>1, <1>2, <1>3, <1>4, <1>5, <1>6, <1>7, <1>8 DEF Next, Call, Proceed

\* create_text implements shared requests: whatever the calls, the fingerprints
\* and the scheduler, no request of a fingerprint is sent while one is under
\* way, nobody joins a request that is already answered, and each call ends
\* with the answer to the request it sent or joined.
THEOREM ProviderImplementsSharedRequests == Spec => ImplementsSharedRequests
<1>1. Init => Flights!SharedInit
  BY DEF Init, Flights!SharedInit, RequestOf, AnswerTo, Answered
<1>2. FlightInv /\ [Next]_vars /\ FlightInv' => [Flights!SharedNext]_(Flights!sharedVars)
  BY SharedStep
<1> QED
  BY <1>1, <1>2, FlightInvariant, PTL DEF Spec, ImplementsSharedRequests, Flights!SharedSpec
=============================================================================

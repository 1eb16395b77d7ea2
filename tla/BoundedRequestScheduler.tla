----------------------- MODULE BoundedRequestScheduler -----------------------
(***************************************************************************)
(* The judge provider's request scheduler                                  *)
(* (easyopd/methods/ropd/judge/scheduler.py): submitting threads put       *)
(* requests on a bounded heap, a fixed set of worker threads takes them    *)
(* off, and shutdown() drains it.                                          *)
(*                                                                         *)
(* Submitters and workers wait on one threading.Condition.  What a thread  *)
(* does between taking the lock and releasing it, or waiting, is one       *)
(* action; the threads in "waiters" are inside wait() and take no step.    *)
(* A thread that has been notified takes the lock again and repeats its    *)
(* while test, like a thread that comes for the first time.                *)
(*                                                                         *)
(* A request stands for the thread that submits it: submit() blocks until  *)
(* its future is resolved, so a thread has one request at a time.          *)
(***************************************************************************)
EXTENDS Naturals, FiniteSets

CONSTANTS
    Requests,      \* submit() calls, each by a thread of its own
    Workers,       \* num_workers threads running _worker_loop
    PriorityOf,    \* the priority field: JUDGE_STAGE_PRIORITY of the stage, or
                   \*   0 for all where stage priorities are disabled
    MaxQueueSize,
    NoRequest

ASSUME SchedulerAssumption ==
    /\ Requests \cap Workers = {}
    /\ Workers # {}
    /\ NoRequest \notin Requests
    /\ PriorityOf \in [Requests -> Nat]
    /\ MaxQueueSize \in Nat \ {0}

VARIABLES
    queue,           \* _queue, as the set of requests on the heap
    sequenceNumber,  \* the requests' sequence_number fields
    nextSequence,    \* _sequence
    shutdownFlag,    \* _shutdown
    waiters,         \* threads inside _condition.wait()
    pc,              \* submitters: "scheduling", "awaiting", "returned" or "refused"
    workerPc,        \* workers: "ready" for the lock, "running" fn, or "exited"
    job,             \* the request each worker holds
    future,          \* the requests' futures
    closer           \* the thread that calls shutdown(): "open", "joining", "closed"

schedVars == <<queue, sequenceNumber, nextSequence, shutdownFlag, waiters,
               pc, workerPc, job, future, closer>>

SchedTypeOK ==
    /\ queue \subseteq Requests
    /\ sequenceNumber \in [Requests -> Nat]
    /\ nextSequence \in Nat
    /\ shutdownFlag \in BOOLEAN
    /\ waiters \subseteq Requests \cup Workers
    /\ pc \in [Requests -> {"scheduling", "awaiting", "returned", "refused"}]
    /\ workerPc \in [Workers -> {"ready", "running", "exited"}]
    /\ job \in [Workers -> Requests \cup {NoRequest}]
    /\ \A w \in Workers : workerPc[w] = "running" <=> job[w] # NoRequest
    /\ future \in [Requests -> {"pending", "result", "exception"}]
    /\ closer \in {"open", "joining", "closed"}

SchedInit ==
    /\ queue = {}
    /\ sequenceNumber = [r \in Requests |-> 0]
    /\ nextSequence = 0
    /\ shutdownFlag = FALSE
    /\ waiters = {}
    /\ pc = [r \in Requests |-> "scheduling"]
    /\ workerPc = [w \in Workers |-> "ready"]
    /\ job = [w \in Workers |-> NoRequest]
    /\ future = [r \in Requests |-> "pending"]
    /\ closer = "open"

-----------------------------------------------------------------------------
Wait(thread) == waiters' = waiters \cup {thread}
\* Mutant: notify() instead of notify_all().
NotifyOne == IF waiters = {} THEN waiters' = {} ELSE \E t \in waiters : waiters' = waiters \ {t}
NotifyAll == waiters' = {}

Full == Cardinality(queue) >= MaxQueueSize

\* Mutant: last in, first out within a stage.
BeforeLifo(r, q) ==
    \/ PriorityOf[r] < PriorityOf[q]
    \/ PriorityOf[r] = PriorityOf[q] /\ sequenceNumber[r] > sequenceNumber[q]

\* The order of ScheduledRequest: priority, then sequence_number.
Before(r, q) ==
    \/ PriorityOf[r] < PriorityOf[q]
    \/ PriorityOf[r] = PriorityOf[q] /\ sequenceNumber[r] < sequenceNumber[q]

\* schedule(): the queue is full, wait.
SubmitterWaits(r) ==
    /\ pc[r] = "scheduling" /\ r \notin waiters
    /\ Full /\ ~shutdownFlag
    /\ Wait(r)
    /\ UNCHANGED <<queue, sequenceNumber, nextSequence, shutdownFlag, pc,
                   workerPc, job, future, closer>>

\* schedule(): raise RuntimeError after a shutdown.
Refuse(r) ==
    /\ pc[r] = "scheduling" /\ r \notin waiters
    /\ shutdownFlag
    /\ pc' = [pc EXCEPT ![r] = "refused"]
    /\ UNCHANGED <<queue, sequenceNumber, nextSequence, shutdownFlag, waiters,
                   workerPc, job, future, closer>>

\* schedule(): push the request and wake everybody.
Enqueue(r) ==
    /\ pc[r] = "scheduling" /\ r \notin waiters
    /\ ~Full /\ ~shutdownFlag
    /\ queue' = queue \cup {r}
    /\ sequenceNumber' = [sequenceNumber EXCEPT ![r] = nextSequence]
    /\ nextSequence' = nextSequence + 1
    /\ NotifyAll
    /\ pc' = [pc EXCEPT ![r] = "awaiting"]
    /\ UNCHANGED <<shutdownFlag, workerPc, job, future, closer>>

\* submit(): future.result() returns, or raises the exception of fn.
Collect(r) ==
    /\ pc[r] = "awaiting"
    /\ future[r] # "pending"
    /\ pc' = [pc EXCEPT ![r] = "returned"]
    /\ UNCHANGED <<queue, sequenceNumber, nextSequence, shutdownFlag, waiters,
                   workerPc, job, future, closer>>

-----------------------------------------------------------------------------
\* _worker_loop: nothing to do, wait.
WorkerWaits(w) ==
    /\ workerPc[w] = "ready" /\ w \notin waiters
    /\ queue = {} /\ ~shutdownFlag
    /\ Wait(w)
    /\ UNCHANGED <<queue, sequenceNumber, nextSequence, shutdownFlag, pc,
                   workerPc, job, future, closer>>

\* Mutant: a worker leaves on shutdown without looking at the heap.
WorkerExitsAtOnce(w) ==
    /\ workerPc[w] = "ready" /\ w \notin waiters
    /\ shutdownFlag
    /\ workerPc' = [workerPc EXCEPT ![w] = "exited"]
    /\ UNCHANGED <<queue, sequenceNumber, nextSequence, shutdownFlag, waiters,
                   pc, job, future, closer>>

\* _worker_loop: shut down and nothing left.
WorkerExits(w) ==
    /\ workerPc[w] = "ready" /\ w \notin waiters
    /\ queue = {} /\ shutdownFlag
    /\ workerPc' = [workerPc EXCEPT ![w] = "exited"]
    /\ UNCHANGED <<queue, sequenceNumber, nextSequence, shutdownFlag, waiters,
                   pc, job, future, closer>>

\* Mutant: the request is looked at and stays on the heap.
DequeuePeeks(w) ==
    /\ workerPc[w] = "ready" /\ w \notin waiters
    /\ \E r \in queue :
          /\ \A q \in queue \ {r} : Before(r, q)
          /\ job' = [job EXCEPT ![w] = r]
    /\ workerPc' = [workerPc EXCEPT ![w] = "running"]
    /\ NotifyAll
    /\ UNCHANGED <<queue, sequenceNumber, nextSequence, shutdownFlag, pc, future, closer>>

\* Mutant: any request is taken.
DequeueAny(w) ==
    /\ workerPc[w] = "ready" /\ w \notin waiters
    /\ \E r \in queue :
          /\ queue' = queue \ {r}
          /\ job' = [job EXCEPT ![w] = r]
    /\ workerPc' = [workerPc EXCEPT ![w] = "running"]
    /\ NotifyAll
    /\ UNCHANGED <<sequenceNumber, nextSequence, shutdownFlag, pc, future, closer>>

\* _worker_loop: heappop, and wake everybody.
Dequeue(w) ==
    /\ workerPc[w] = "ready" /\ w \notin waiters
    /\ \E r \in queue :
          /\ \A q \in queue \ {r} : Before(r, q)
          /\ queue' = queue \ {r}
          /\ job' = [job EXCEPT ![w] = r]
    /\ workerPc' = [workerPc EXCEPT ![w] = "running"]
    /\ NotifyAll
    /\ UNCHANGED <<sequenceNumber, nextSequence, shutdownFlag, pc, future, closer>>

\* Mutant: the worker keeps hold of the request.
FinishKeepsJob(w) ==
    /\ workerPc[w] = "running"
    /\ \E outcome \in {"result", "exception"} :
           future' = [future EXCEPT ![job[w]] = outcome]
    /\ workerPc' = [workerPc EXCEPT ![w] = "ready"]
    /\ UNCHANGED <<queue, sequenceNumber, nextSequence, shutdownFlag, waiters, pc, job, closer>>

\* _worker_loop: fn returned or raised, the future is resolved, and the
\* worker goes round.  Nobody cancels a scheduled future.
Finish(w) ==
    /\ workerPc[w] = "running"
    /\ \E outcome \in {"result", "exception"} :
           future' = [future EXCEPT ![job[w]] = outcome]
    /\ job' = [job EXCEPT ![w] = NoRequest]
    /\ workerPc' = [workerPc EXCEPT ![w] = "ready"]
    /\ UNCHANGED <<queue, sequenceNumber, nextSequence, shutdownFlag, waiters, pc, closer>>

-----------------------------------------------------------------------------
\* Mutant: the flag is set and nobody is told.
ShutdownSilently ==
    /\ closer = "open"
    /\ closer' = "joining"
    /\ shutdownFlag' = TRUE
    /\ UNCHANGED <<queue, sequenceNumber, nextSequence, waiters, pc, workerPc, job, future>>

\* shutdown(wait=True) sets the flag and wakes everybody ...
Shutdown ==
    /\ closer = "open"
    /\ closer' = "joining"
    /\ shutdownFlag' = TRUE
    /\ NotifyAll
    /\ UNCHANGED <<queue, sequenceNumber, nextSequence, pc, workerPc, job, future>>

\* ... and has joined every worker.
Joined ==
    /\ closer = "joining"
    /\ \A w \in Workers : workerPc[w] = "exited"
    /\ closer' = "closed"
    /\ UNCHANGED <<queue, sequenceNumber, nextSequence, shutdownFlag, waiters,
                   pc, workerPc, job, future>>

Submitter(r) == SubmitterWaits(r) \/ Refuse(r) \/ Enqueue(r) \/ Collect(r)
Worker(w) == WorkerWaits(w) \/ WorkerExits(w) \/ Dequeue(w) \/ Finish(w)

SchedNext ==
    \/ \E r \in Requests : Submitter(r)
    \/ \E w \in Workers : Worker(w)
    \/ Shutdown
    \/ Joined

SchedSpec == SchedInit /\ [][SchedNext]_schedVars

\* Threads that can run do, and every fn comes to an end (the client has a
\* timeout and the retries are bounded).  Nothing makes shutdown() happen.
SchedFairSpec ==
    /\ SchedSpec
    /\ \A r \in Requests : WF_schedVars(Submitter(r))
    /\ \A w \in Workers : WF_schedVars(Worker(w))
    /\ WF_schedVars(Joined)

-----------------------------------------------------------------------------
Accepted == {r \in Requests : pc[r] \in {"awaiting", "returned"}}

\* The heap never holds more than max_queue_size requests, whoever else is
\* let in between a submitter's wake-up and its second look.
QueueBounded == Cardinality(queue) <= MaxQueueSize

\* An accepted request is on the heap, with exactly one worker, or resolved,
\* and in only one of these places: none is lost and none is run twice.
OneHome ==
    \A r \in Accepted :
        \/ r \in queue /\ future[r] = "pending" /\ \A w \in Workers : job[w] # r
        \/ r \notin queue /\ future[r] = "pending"
             /\ \E w \in Workers : job[w] = r /\ \A v \in Workers \ {w} : job[v] # r
        \/ r \notin queue /\ future[r] # "pending" /\ \A w \in Workers : job[w] # r

\* Nobody sleeps through what they wait for: a submitter waits only while the
\* heap is full, a worker only while it is empty, and nobody once shutdown()
\* has been called.  Both kinds share one condition, so this is what every
\* notify_all() is for.
NoMissedWakeup ==
    /\ \A r \in waiters \cap Requests : Full /\ ~shutdownFlag
    /\ \A w \in waiters \cap Workers : queue = {} /\ ~shutdownFlag

\* When shutdown(wait=True) has returned, every request that was accepted is
\* resolved and no worker is left.
DrainedWhenClosed ==
    closer = "closed" =>
        /\ queue = {}
        /\ \A w \in Workers : workerPc[w] = "exited"
        /\ \A r \in Accepted : future[r] # "pending"

\* Requests of one priority start in the order in which they were accepted.
FifoPerPriority ==
    \A q \in queue : \A r \in Accepted \ queue :
        PriorityOf[r] = PriorityOf[q] => sequenceNumber[r] < sequenceNumber[q]

\* Every submit() returns, raises the exception of its fn, or is refused.
SubmissionsEnd == \A r \in Requests : <>(pc[r] \in {"returned", "refused"})

\* A shutdown(wait=True) that was called returns.
ShutdownReturns == closer = "joining" ~> closer = "closed"

-----------------------------------------------------------------------------
\* The pool the scheduler implements: a request's phase is where it is.
PhaseOf(r) ==
    IF r \in queue THEN "accepted"
    ELSE IF \E w \in Workers : job[w] = r THEN "running"
    ELSE IF future[r] # "pending" THEN "resolved"
    ELSE IF pc[r] = "refused" THEN "refused"
    ELSE "offered"

Pool == INSTANCE RequestPool WITH
            phase <- [r \in Requests |-> PhaseOf(r)],
            open <- ~shutdownFlag,
            closed <- (closer = "closed")

\* Every step of the scheduler is a step of the pool or invisible to it.
ImplementsPool == Pool!PoolSpec
=============================================================================

-------------------- MODULE BoundedRequestSchedulerProofs --------------------
(***************************************************************************)
(* Proofs about BoundedRequestScheduler, for any number of requests and    *)
(* workers, any priorities and any queue bound: its safety properties, and *)
(* that it implements RequestPool.                                         *)
(***************************************************************************)
EXTENDS BoundedRequestScheduler, FiniteSetTheorems, TLAPS

\* What is known of a request from where its submitter is.
PlaceOfRequest ==
    \A r \in Requests :
        /\ r \in queue => pc[r] = "awaiting" /\ future[r] = "pending"
        /\ pc[r] = "awaiting" /\ future[r] = "pending" =>
               r \in queue \/ \E w \in Workers : job[w] = r
        /\ pc[r] \in {"scheduling", "refused"} => future[r] = "pending"
        /\ pc[r] = "returned" => future[r] # "pending"
        /\ pc[r] = "refused" => shutdownFlag

\* What is known of the request a worker holds.
PlaceOfJob ==
    \A w \in Workers : job[w] # NoRequest =>
        /\ pc[job[w]] = "awaiting"
        /\ future[job[w]] = "pending"
        /\ job[w] \notin queue
        /\ \A v \in Workers \ {w} : job[v] # job[w]

\* Sequence numbers are handed out in order.
Numbered == \A r \in Accepted : sequenceNumber[r] < nextSequence

\* A worker leaves only an empty heap, and only after the shutdown, when
\* nothing is accepted any more.
Leaving ==
    /\ closer = "open" <=> ~shutdownFlag
    /\ \A w \in Workers : workerPc[w] = "exited" => shutdownFlag /\ queue = {}
    /\ closer = "closed" => \A w \in Workers : workerPc[w] = "exited"

SchedInv ==
    /\ SchedTypeOK
    /\ IsFiniteSet(queue)
    /\ QueueBounded
    /\ PlaceOfRequest
    /\ PlaceOfJob
    /\ NoMissedWakeup
    /\ Numbered
    /\ FifoPerPriority
    /\ Leaving

-----------------------------------------------------------------------------
\* The invariant holds when the scheduler has been built.
LEMMA SchedInvInit == SchedInit => SchedInv
<1> SUFFICES ASSUME SchedInit PROVE SchedInv
  OBVIOUS
<1> USE SchedulerAssumption DEF SchedInit
<1>1. SchedTypeOK
  BY DEF SchedTypeOK
<1>2. IsFiniteSet(queue) /\ QueueBounded
  BY FS_EmptySet DEF QueueBounded
<1>3. PlaceOfRequest /\ PlaceOfJob
  BY DEF PlaceOfRequest, PlaceOfJob
<1>4. NoMissedWakeup /\ Numbered /\ FifoPerPriority /\ Leaving
  BY DEF NoMissedWakeup, Numbered, Accepted, FifoPerPriority, Leaving
<1> QED
  BY <1>1, <1>2, <1>3, <1>4 DEF SchedInv

\* Every step of every thread preserves it.
LEMMA SchedInvNext == SchedInv /\ [SchedNext]_schedVars => SchedInv'
<1> SUFFICES ASSUME SchedInv, [SchedNext]_schedVars PROVE SchedInv'
  OBVIOUS
<1> USE SchedulerAssumption DEF SchedInv
<1>1. ASSUME NEW r \in Requests, SubmitterWaits(r)
      PROVE SchedInv'
  <2> USE <1>1 DEF SubmitterWaits
  <2>1. SchedTypeOK'
    BY DEF SchedTypeOK, Wait
  <2>2. IsFiniteSet(queue)' /\ QueueBounded'
    BY DEF QueueBounded
  <2>3. PlaceOfRequest' /\ PlaceOfJob'
    BY DEF PlaceOfRequest, PlaceOfJob
  <2>4. NoMissedWakeup'
    BY DEF NoMissedWakeup, Wait, Full
  <2>5. Numbered' /\ FifoPerPriority' /\ Leaving'
    BY DEF Numbered, Accepted, FifoPerPriority, Leaving
  <2> QED
    BY <2>1, <2>2, <2>3, <2>4, <2>5
<1>2. ASSUME NEW r \in Requests, Refuse(r)
      PROVE SchedInv'
  <2> USE <1>2 DEF Refuse
  <2>1. SchedTypeOK'
    BY DEF SchedTypeOK
  <2>2. IsFiniteSet(queue)' /\ QueueBounded' /\ NoMissedWakeup'
    BY DEF QueueBounded, NoMissedWakeup, Full
  <2>3. PlaceOfRequest'
    BY DEF PlaceOfRequest, SchedTypeOK
  <2>4. PlaceOfJob'
    BY DEF PlaceOfJob, SchedTypeOK
  <2>5. Numbered' /\ FifoPerPriority' /\ Leaving'
    BY DEF Numbered, Accepted, FifoPerPriority, Leaving, SchedTypeOK
  <2> QED
    BY <2>1, <2>2, <2>3, <2>4, <2>5
<1>3. ASSUME NEW r \in Requests, Enqueue(r)
      PROVE SchedInv'
  <2> USE <1>3 DEF Enqueue
  <2>1. SchedTypeOK'
    BY DEF SchedTypeOK, NotifyAll
  <2>2. IsFiniteSet(queue)' /\ QueueBounded'
    <3>1. /\ IsFiniteSet(queue \cup {r})
          /\ Cardinality(queue \cup {r}) =
               IF r \in queue THEN Cardinality(queue) ELSE Cardinality(queue) + 1
      BY FS_AddElement
    <3>2. Cardinality(queue) \in Nat
      BY FS_CardinalityType
    <3> QED
      BY <3>1, <3>2 DEF QueueBounded, Full
  <2>3. PlaceOfRequest'
    BY DEF PlaceOfRequest, SchedTypeOK
  <2>4. PlaceOfJob'
    BY DEF PlaceOfJob, SchedTypeOK
  <2>5. NoMissedWakeup'
    BY DEF NoMissedWakeup, NotifyAll
  <2>6. Numbered'
    BY DEF Numbered, Accepted, SchedTypeOK
  <2>7. FifoPerPriority'
    BY DEF FifoPerPriority, Numbered, Accepted, SchedTypeOK
  <2>8. Leaving'
    BY DEF Leaving
  <2> QED
    BY <2>1, <2>2, <2>3, <2>4, <2>5, <2>6, <2>7, <2>8
<1>4. ASSUME NEW r \in Requests, Collect(r)
      PROVE SchedInv'
  <2> USE <1>4 DEF Collect
  <2>1. SchedTypeOK'
    BY DEF SchedTypeOK
  <2>2. IsFiniteSet(queue)' /\ QueueBounded' /\ NoMissedWakeup'
    BY DEF QueueBounded, NoMissedWakeup, Full
  <2>3. PlaceOfRequest'
    BY DEF PlaceOfRequest, SchedTypeOK
  <2>4. PlaceOfJob'
    BY DEF PlaceOfJob, SchedTypeOK
  <2>5. Numbered' /\ FifoPerPriority' /\ Leaving'
    BY DEF Numbered, Accepted, FifoPerPriority, Leaving, SchedTypeOK
  <2> QED
    BY <2>1, <2>2, <2>3, <2>4, <2>5
<1>5. ASSUME NEW w \in Workers, WorkerWaits(w)
      PROVE SchedInv'
  <2> USE <1>5 DEF WorkerWaits
  <2>1. SchedTypeOK'
    BY DEF SchedTypeOK, Wait
  <2>2. IsFiniteSet(queue)' /\ QueueBounded'
    BY DEF QueueBounded
  <2>3. PlaceOfRequest' /\ PlaceOfJob'
    BY DEF PlaceOfRequest, PlaceOfJob
  <2>4. NoMissedWakeup'
    BY DEF NoMissedWakeup, Wait, Full
  <2>5. Numbered' /\ FifoPerPriority' /\ Leaving'
    BY DEF Numbered, Accepted, FifoPerPriority, Leaving
  <2> QED
    BY <2>1, <2>2, <2>3, <2>4, <2>5
<1>6. ASSUME NEW w \in Workers, WorkerExits(w)
      PROVE SchedInv'
  <2> USE <1>6 DEF WorkerExits
  <2>1. SchedTypeOK'
    BY DEF SchedTypeOK
  <2>2. IsFiniteSet(queue)' /\ QueueBounded' /\ NoMissedWakeup'
    BY DEF QueueBounded, NoMissedWakeup, Full
  <2>3. PlaceOfRequest' /\ PlaceOfJob'
    BY DEF PlaceOfRequest, PlaceOfJob
  <2>4. Numbered' /\ FifoPerPriority' /\ Leaving'
    BY DEF Numbered, Accepted, FifoPerPriority, Leaving, SchedTypeOK
  <2> QED
    BY <2>1, <2>2, <2>3, <2>4
<1>7. ASSUME NEW w \in Workers, Dequeue(w)
      PROVE SchedInv'
  <2>1. PICK r \in queue :
            /\ \A q \in queue \ {r} : Before(r, q)
            /\ queue' = queue \ {r}
            /\ job' = [job EXCEPT ![w] = r]
    BY <1>7 DEF Dequeue
  <2>2. /\ workerPc[w] = "ready"
        /\ workerPc' = [workerPc EXCEPT ![w] = "running"]
        /\ waiters' = {}
        /\ UNCHANGED <<sequenceNumber, nextSequence, shutdownFlag, pc, future, closer>>
    BY <1>7 DEF Dequeue, NotifyAll
  <2>3. r \in Requests /\ job[w] = NoRequest
    BY <2>2 DEF SchedTypeOK
  <2>4. SchedTypeOK'
    BY <2>1, <2>2, <2>3 DEF SchedTypeOK
  <2>5. IsFiniteSet(queue)' /\ QueueBounded'
    <3>1. /\ IsFiniteSet(queue \ {r})
          /\ Cardinality(queue \ {r}) = Cardinality(queue) - 1
      BY FS_RemoveElement
    <3>2. Cardinality(queue) \in Nat
      BY FS_CardinalityType
    <3> QED
      BY <2>1, <3>1, <3>2 DEF QueueBounded
  <2>6. PlaceOfRequest'
    BY <2>1, <2>2, <2>3 DEF PlaceOfRequest, SchedTypeOK
  <2>7. PlaceOfJob'
    BY <2>1, <2>2, <2>3 DEF PlaceOfJob, PlaceOfRequest, SchedTypeOK
  <2>8. NoMissedWakeup'
    BY <2>2 DEF NoMissedWakeup
  <2>9. Numbered'
    BY <2>2 DEF Numbered, Accepted
  <2>10. FifoPerPriority'
    BY <2>1, <2>2, <2>3 DEF FifoPerPriority, Before, Accepted, SchedTypeOK
  <2>11. Leaving'
    BY <2>1, <2>2 DEF Leaving, SchedTypeOK
  <2> QED
    BY <2>4, <2>5, <2>6, <2>7, <2>8, <2>9, <2>10, <2>11
<1>8. ASSUME NEW w \in Workers, Finish(w)
      PROVE SchedInv'
  <2>1. PICK outcome \in {"result", "exception"} :
            future' = [future EXCEPT ![job[w]] = outcome]
    BY <1>8 DEF Finish
  <2>2. /\ workerPc[w] = "running"
        /\ job' = [job EXCEPT ![w] = NoRequest]
        /\ workerPc' = [workerPc EXCEPT ![w] = "ready"]
        /\ UNCHANGED <<queue, sequenceNumber, nextSequence, shutdownFlag, waiters, pc, closer>>
    BY <1>8 DEF Finish
  <2>3. job[w] \in Requests /\ job[w] # NoRequest
    BY <2>2 DEF SchedTypeOK
  <2>4. SchedTypeOK'
    BY <2>1, <2>2, <2>3 DEF SchedTypeOK
  <2>5. IsFiniteSet(queue)' /\ QueueBounded' /\ NoMissedWakeup'
    BY <2>2 DEF QueueBounded, NoMissedWakeup, Full
  <2>6. PlaceOfRequest'
    BY <2>1, <2>2, <2>3 DEF PlaceOfRequest, PlaceOfJob, SchedTypeOK
  <2>7. PlaceOfJob'
    BY <2>1, <2>2, <2>3 DEF PlaceOfJob, SchedTypeOK
  <2>8. Numbered' /\ FifoPerPriority' /\ Leaving'
    BY <2>2 DEF Numbered, Accepted, FifoPerPriority, Leaving, SchedTypeOK
  <2> QED
    BY <2>4, <2>5, <2>6, <2>7, <2>8
<1>9. CASE Shutdown
  <2> USE <1>9 DEF Shutdown
  <2>1. SchedTypeOK'
    BY DEF SchedTypeOK, NotifyAll
  <2>2. IsFiniteSet(queue)' /\ QueueBounded' /\ NoMissedWakeup'
    BY DEF QueueBounded, NoMissedWakeup, NotifyAll
  <2>3. PlaceOfRequest' /\ PlaceOfJob'
    BY DEF PlaceOfRequest, PlaceOfJob
  <2>4. Numbered' /\ FifoPerPriority' /\ Leaving'
    BY DEF Numbered, Accepted, FifoPerPriority, Leaving
  <2> QED
    BY <2>1, <2>2, <2>3, <2>4
<1>10. CASE Joined
  <2> USE <1>10 DEF Joined
  <2>1. SchedTypeOK'
    BY DEF SchedTypeOK
  <2>2. IsFiniteSet(queue)' /\ QueueBounded' /\ NoMissedWakeup'
    BY DEF QueueBounded, NoMissedWakeup, Full
  <2>3. PlaceOfRequest' /\ PlaceOfJob'
    BY DEF PlaceOfRequest, PlaceOfJob
  <2>4. Numbered' /\ FifoPerPriority' /\ Leaving'
    BY DEF Numbered, Accepted, FifoPerPriority, Leaving
  <2> QED
    BY <2>1, <2>2, <2>3, <2>4
<1>11. CASE UNCHANGED schedVars
  BY <1>11 DEF schedVars, SchedTypeOK, QueueBounded, PlaceOfRequest, PlaceOfJob,
               NoMissedWakeup, Full, Numbered, Accepted, FifoPerPriority, Leaving
<1> QED
  BY <1>1, <1>2, <1>3, <1>4, <1>5, <1>6, <1>7, <1>8, <1>9, <1>10, <1>11
     DEF SchedNext, Submitter, Worker

-----------------------------------------------------------------------------
\* The strengthened invariant holds throughout.
THEOREM SchedulerInvariant == SchedSpec => []SchedInv
<1>1. SchedInit => SchedInv
  BY SchedInvInit
<1>2. SchedInv /\ [SchedNext]_schedVars => SchedInv'
  BY SchedInvNext
<1> QED
  BY <1>1, <1>2, PTL DEF SchedSpec

\* The type invariant of the scheduler.
THEOREM SchedulerTypes == SchedSpec => []SchedTypeOK
<1>1. SchedInv => SchedTypeOK
  BY DEF SchedInv
<1> QED
  BY <1>1, SchedulerInvariant, PTL

\* schedule() keeps the heap within max_queue_size, for any number of threads.
THEOREM QueueStaysBounded == SchedSpec => []QueueBounded
<1>1. SchedInv => QueueBounded
  BY DEF SchedInv
<1> QED
  BY <1>1, SchedulerInvariant, PTL

\* No accepted request is lost, held by two workers or run a second time.
THEOREM EveryRequestHasOneHome == SchedSpec => []OneHome
<1>1. SchedInv => OneHome
  <2> SUFFICES ASSUME SchedInv, NEW r \in Accepted
               PROVE \/ r \in queue /\ future[r] = "pending" /\ \A w \in Workers : job[w] # r
                     \/ r \notin queue /\ future[r] = "pending"
                          /\ \E w \in Workers : job[w] = r /\ \A v \in Workers \ {w} : job[v] # r
                     \/ r \notin queue /\ future[r] # "pending" /\ \A w \in Workers : job[w] # r
    BY DEF OneHome
  <2>1. r \in Requests /\ r # NoRequest
    BY SchedulerAssumption DEF Accepted
  <2>2. CASE r \in queue
    BY <2>1, <2>2 DEF SchedInv, PlaceOfRequest, PlaceOfJob
  <2>3. CASE \E w \in Workers : job[w] = r
    BY <2>1, <2>3 DEF SchedInv, PlaceOfJob
  <2>4. CASE r \notin queue /\ \A w \in Workers : job[w] # r
    BY <2>1, <2>4 DEF SchedInv, PlaceOfRequest, Accepted
  <2> QED
    BY <2>2, <2>3, <2>4
<1> QED
  BY <1>1, SchedulerInvariant, PTL

\* No thread stays in wait() once what it waits for is true.
THEOREM NobodyMissesAWakeup == SchedSpec => []NoMissedWakeup
<1>1. SchedInv => NoMissedWakeup
  BY DEF SchedInv
<1> QED
  BY <1>1, SchedulerInvariant, PTL

\* A shutdown(wait=True) that has returned leaves no accepted request behind.
THEOREM ShutdownDrains == SchedSpec => []DrainedWhenClosed
<1>1. ASSUME SchedInv, Workers # {} PROVE DrainedWhenClosed
  <2> SUFFICES ASSUME closer = "closed"
               PROVE /\ queue = {}
                     /\ \A w \in Workers : workerPc[w] = "exited"
                     /\ \A r \in Accepted : future[r] # "pending"
    BY DEF DrainedWhenClosed
  <2>1. \A w \in Workers : workerPc[w] = "exited"
    BY <1>1 DEF SchedInv, Leaving
  <2>2. queue = {}
    BY <1>1, <2>1 DEF SchedInv, Leaving
  <2>3. \A w \in Workers : job[w] = NoRequest
    BY <1>1, <2>1 DEF SchedInv, SchedTypeOK
  <2>4. ASSUME NEW r \in Accepted PROVE future[r] # "pending"
    BY <1>1, <2>2, <2>3, SchedulerAssumption DEF SchedInv, PlaceOfRequest, Accepted
  <2> QED
    BY <2>1, <2>2, <2>4
<1>2. SchedInv => DrainedWhenClosed
  BY <1>1, SchedulerAssumption
<1> QED
  BY <1>2, SchedulerInvariant, PTL

\* Among requests of one priority nobody is overtaken.
THEOREM NobodyIsOvertaken == SchedSpec => []FifoPerPriority
<1>1. SchedInv => FifoPerPriority
  BY DEF SchedInv
<1> QED
  BY <1>1, SchedulerInvariant, PTL

-----------------------------------------------------------------------------
\* The requests that the refinement mapping puts in the pool's queue are those
\* on the heap.
LEMMA HeapIsAccepted ==
    ASSUME SchedTypeOK
    PROVE  {r \in Requests : PhaseOf(r) = "accepted"} = queue
BY DEF SchedTypeOK, PhaseOf

\* Steps that move no request and neither open nor close are invisible.
LEMMA InvisibleStep ==
    ASSUME UNCHANGED <<queue, shutdownFlag, job, future, closer>>,
           \A r \in Requests : pc'[r] = "refused" <=> pc[r] = "refused"
    PROVE  UNCHANGED Pool!poolVars
BY DEF Pool!poolVars, PhaseOf

\* Every step of the scheduler is a step of the pool or a stutter.
LEMMA PoolStep ==
    SchedInv /\ [SchedNext]_schedVars => [Pool!PoolNext]_(Pool!poolVars)
<1> SUFFICES ASSUME SchedInv, [SchedNext]_schedVars
             PROVE [Pool!PoolNext]_(Pool!poolVars)
  OBVIOUS
<1> USE SchedulerAssumption DEF SchedInv
<1>0. SchedTypeOK /\ SchedTypeOK'
  BY SchedInvNext
<1>1. ASSUME NEW r \in Requests, SubmitterWaits(r)
      PROVE UNCHANGED Pool!poolVars
  BY <1>1, InvisibleStep DEF SubmitterWaits
<1>2. ASSUME NEW r \in Requests, Refuse(r)
      PROVE Pool!Refuse(r)
  <2>1. PhaseOf(r) = "offered"
    BY <1>2 DEF Refuse, PhaseOf, PlaceOfRequest, PlaceOfJob, SchedTypeOK
  <2>2. \A q \in Requests : PhaseOf(q)' = IF q = r THEN "refused" ELSE PhaseOf(q)
    BY <1>2, <2>1 DEF Refuse, PhaseOf, SchedTypeOK
  <2>3. Pool!Become(r, "refused")
    BY <2>2 DEF Pool!Become
  <2>4. shutdownFlag /\ UNCHANGED <<~shutdownFlag, closer = "closed">>
    BY <1>2 DEF Refuse
  <2> QED
    BY <2>1, <2>3, <2>4 DEF Pool!Refuse
<1>3. ASSUME NEW r \in Requests, Enqueue(r)
      PROVE Pool!Accept(r)
  <2>1. Pool!In("accepted") = queue
    BY <1>0, HeapIsAccepted DEF Pool!In
  <2>2. Cardinality(queue) \in Nat
    BY FS_CardinalityType
  <2>3. Cardinality(Pool!In("accepted")) < MaxQueueSize
    BY <1>3, <2>1, <2>2 DEF Enqueue, Full
  <2>4. PhaseOf(r) = "offered"
    BY <1>0, <1>3 DEF Enqueue, PhaseOf, PlaceOfRequest, PlaceOfJob, SchedTypeOK
  <2>5. \A q \in Requests : PhaseOf(q)' = IF q = r THEN "accepted" ELSE PhaseOf(q)
    BY <1>0, <1>3, <2>4 DEF Enqueue, PhaseOf, SchedTypeOK
  <2> QED
    <3>1. Pool!Become(r, "accepted")
      BY <2>5 DEF Pool!Become
    <3>2. ~shutdownFlag /\ UNCHANGED <<~shutdownFlag, closer = "closed">>
      BY <1>3 DEF Enqueue
    <3> QED
      BY <2>3, <2>4, <3>1, <3>2 DEF Pool!Accept, Pool!Cardinality, Cardinality
<1>4. ASSUME NEW r \in Requests, Collect(r)
      PROVE UNCHANGED Pool!poolVars
  BY <1>0, <1>4, InvisibleStep DEF Collect, SchedTypeOK
<1>5. ASSUME NEW w \in Workers, WorkerWaits(w)
      PROVE UNCHANGED Pool!poolVars
  BY <1>5, InvisibleStep DEF WorkerWaits
<1>6. ASSUME NEW w \in Workers, WorkerExits(w)
      PROVE UNCHANGED Pool!poolVars
  BY <1>6, InvisibleStep DEF WorkerExits
<1>7. ASSUME NEW w \in Workers, Dequeue(w)
      PROVE \E r \in Requests : Pool!Start(r)
  <2>1. PICK r \in queue :
            /\ \A q \in queue \ {r} : Before(r, q)
            /\ queue' = queue \ {r}
            /\ job' = [job EXCEPT ![w] = r]
    BY <1>7 DEF Dequeue
  <2>2. r \in Requests /\ job[w] = NoRequest
    BY <1>7 DEF Dequeue, SchedTypeOK
  <2>3. Pool!In("accepted") = queue
    BY <1>0, HeapIsAccepted DEF Pool!In
  <2>4. \A q \in queue : PriorityOf[r] <= PriorityOf[q]
    BY <2>1, <2>2 DEF Before, SchedTypeOK
  <2>5. PhaseOf(r) = "accepted"
    BY <2>1 DEF PhaseOf
  <2>6. \A q \in Requests : PhaseOf(q)' = IF q = r THEN "running" ELSE PhaseOf(q)
    <3> SUFFICES ASSUME NEW q \in Requests
                 PROVE PhaseOf(q)' = IF q = r THEN "running" ELSE PhaseOf(q)
      OBVIOUS
    <3>1. q \in queue' <=> q \in queue /\ q # r
      BY <2>1
    <3>2. (\E v \in Workers : job'[v] = q) <=> q = r \/ \E v \in Workers : job[v] = q
      BY <1>0, <2>1, <2>2 DEF SchedTypeOK
    <3>3. UNCHANGED <<pc, future>>
      BY <1>7 DEF Dequeue
    <3> QED
      BY <3>1, <3>2, <3>3 DEF PhaseOf
  <2>7. Pool!Start(r)
    BY <1>7, <2>2, <2>3, <2>4, <2>5, <2>6 DEF Dequeue, Pool!Start, Pool!Become
  <2> QED
    BY <2>2, <2>7
<1>8. ASSUME NEW w \in Workers, Finish(w)
      PROVE \E r \in Requests : Pool!Resolve(r)
  <2>1. PICK outcome \in {"result", "exception"} :
            future' = [future EXCEPT ![job[w]] = outcome]
    BY <1>8 DEF Finish
  <2>2. job[w] \in Requests /\ job[w] # NoRequest /\ job' = [job EXCEPT ![w] = NoRequest]
    BY <1>8 DEF Finish, SchedTypeOK
  <2>3. PhaseOf(job[w]) = "running"
    BY <2>2 DEF PhaseOf, PlaceOfJob
  <2>4. \A q \in Requests : PhaseOf(q)' = IF q = job[w] THEN "resolved" ELSE PhaseOf(q)
    <3> SUFFICES ASSUME NEW q \in Requests
                 PROVE PhaseOf(q)' = IF q = job[w] THEN "resolved" ELSE PhaseOf(q)
      OBVIOUS
    <3>1. UNCHANGED <<queue, pc>>
      BY <1>8 DEF Finish
    <3>2. (\E v \in Workers : job'[v] = q) <=> q # job[w] /\ \E v \in Workers : job[v] = q
      BY <1>0, <2>2 DEF SchedTypeOK, PlaceOfJob
    <3>3. future'[q] = IF q = job[w] THEN outcome ELSE future[q]
      BY <1>0, <2>1, <2>2 DEF SchedTypeOK
    <3>4. job[w] \notin queue
      BY <2>2 DEF PlaceOfJob
    <3> QED
      BY <3>1, <3>2, <3>3, <3>4 DEF PhaseOf
  <2>5. Pool!Resolve(job[w])
    BY <1>8, <2>2, <2>3, <2>4 DEF Finish, Pool!Resolve, Pool!Become
  <2> QED
    BY <2>2, <2>5
<1>9. ASSUME Shutdown PROVE Pool!Close
  BY <1>9 DEF Shutdown, Pool!Close, PhaseOf, Leaving
<1>10. ASSUME Joined PROVE Pool!Finish
  <2>1. shutdownFlag /\ queue = {}
    BY <1>10 DEF Joined, Leaving
  <2>2. \A w \in Workers : job[w] = NoRequest
    BY <1>10 DEF Joined, SchedTypeOK
  <2>3. Pool!In("accepted") = {} /\ Pool!In("running") = {}
    BY <2>1, <2>2 DEF Pool!In, PhaseOf
  <2> QED
    BY <1>10, <2>1, <2>3 DEF Joined, Pool!Finish, PhaseOf
<1>11. ASSUME UNCHANGED schedVars PROVE UNCHANGED Pool!poolVars
  BY <1>11, InvisibleStep DEF schedVars
<1> QED
  BY <1>1, <1>2, <1>3, <1>4, <1>5, <1>6, <1>7, <1>8, <1>9, <1>10, <1>11
     DEF SchedNext, Submitter, Worker, Pool!PoolNext

\* The scheduler is a bounded request pool: this covers what the properties
\* above say one by one, and that the most urgent request is always next.
THEOREM SchedulerImplementsPool == SchedSpec => ImplementsPool
<1>1. SchedInit => Pool!PoolInit
  <2> SUFFICES ASSUME SchedInit PROVE Pool!PoolInit
    OBVIOUS
  <2>1. \A r \in Requests : PhaseOf(r) = "offered"
    BY SchedulerAssumption DEF SchedInit, PhaseOf
  <2>2. (~shutdownFlag) = TRUE
    BY DEF SchedInit
  <2>3. (closer = "closed") = FALSE
    BY DEF SchedInit
  <2> QED
    BY <2>1, <2>2, <2>3 DEF Pool!PoolInit
<1>2. SchedInv /\ [SchedNext]_schedVars => [Pool!PoolNext]_(Pool!poolVars)
  BY PoolStep
<1> QED
  BY <1>1, <1>2, SchedulerInvariant, PTL DEF SchedSpec, Pool!PoolSpec, ImplementsPool
=============================================================================

------------------------- MODULE TeacherSidecarProofs -------------------------
(***************************************************************************)
(* Proofs about TeacherSidecar, for any number of engines and training     *)
(* steps, whichever handlers may raise or be late, and whether or not an   *)
(* engine may die.                                                         *)
(***************************************************************************)
EXTENDS TeacherSidecar, TeacherBatching, FiniteSetTheorems, FunctionTheorems, SequenceTheorems,
        InductionFacts, TLAPS

Generate(s) == <<"generate", s>>
UnderWay == {"queued", "empty", "waiting", "reading"}

(***************************************************************************)
(* A batch is stale when it was computed for another step.  The sidecar    *)
(* goes on to the next step only with all of a step's results, so only the *)
(* present step's generate can be anything but untouched or done, and it   *)
(* is in one place at a time: in the request queue, or as hidden states in *)
(* the stream.  Crossed answers can make it fail, not duplicate it.        *)
(***************************************************************************)

\* Where the steps' generate RPCs are.
StepsInOrder(a) ==
    \A s \in Steps :
        LET p == rpc[a][Generate(s)] IN
        /\ s < step => p = "ok"
        /\ s > step => p = "none"
        /\ s = step => /\ phase = "waking" => p = "none"
                       /\ phase \in {"rollout", "sleeping"} /\ ~doomed => p = "ok"

\* A generate request, or hidden states, are on their way for s.
OnTheWay(a, s) == rpc[a][Generate(s)] \in {"waiting", "reading", "failed"}

\* They are in the request queue or in the stream, and there once.
InOnePlace(a) ==
    /\ \A i \in DOMAIN requests[a] :
          requests[a][i][1] = "generate" =>
              /\ OnTheWay(a, requests[a][i][2])
              /\ stream[a] = <<>>
              /\ \A j \in DOMAIN requests[a] : requests[a][j][1] = "generate" => j = i
    /\ Len(stream[a]) <= 1
    /\ stream[a] # <<>> => OnTheWay(a, Head(stream[a]))

\* Only a generate reads the stream, and what it has read is its own step's.
OwnBatch(a) ==
    /\ \A r \in RPCs : rpc[a][r] = "reading" => r[1] = "generate"
    /\ \A s \in Steps : received[a][s] \in {0, s}

\* Only a batch that has failed dooms the call, and outside the first rollouts a
\* step has begun.
StepBegun ==
    /\ doomed => phase \in {"sleeping", "dead"}
    /\ phase # "rollout" => step # 0

BatchInv ==
    /\ TypeOK
    /\ StepBegun
    /\ \A a \in Actors : StepsInOrder(a) /\ InOnePlace(a) /\ OwnBatch(a)

(***************************************************************************)
(* As long as no sleep has failed and no error is on its way, each actor   *)
(* has at most one RPC under way, that of the sidecar's phase, and nothing *)
(* is left in the queues before it and after it; so the answer it takes is *)
(* its own.  When it fails the sidecar leaves this track for good.         *)
(***************************************************************************)
OnTrack == sleepOK /\ ~doomed /\ phase # "dead"

UnderWayAt(a) == {r \in RPCs : rpc[a][r] \in UnderWay}
QueuesEmpty(a) == requests[a] = <<>> /\ responses[a] = <<>>

Asked(a, r) == requests[a] = <<r>> /\ responses[a] = <<>>
Answered(a, r) ==
    /\ requests[a] = <<>>
    /\ \/ responses[a] = <<Raised(r)>>
       \/ /\ responses[a] = <<Succeeded(r)>>
          /\ r[1] = "sleep" => memory[a] = "asleep"
       \/ /\ responses[a] = <<Succeeded(r), Raised(r)>>
          /\ r[1] = "generate" /\ stream[a] = <<>>

OneCall(a, kind) ==
    LET r == <<kind, step>> IN
    /\ UnderWayAt(a) \subseteq {r}
    /\ rpc[a][r] # "none"
    /\ rpc[a][r] \in {"queued", "empty", "ok"} => QueuesEmpty(a)
    /\ rpc[a][r] = "waiting" => Asked(a, r) \/ Answered(a, r)
    /\ rpc[a][r] = "reading" => requests[a] = <<>> /\ (responses[a] = <<>> \/ stream[a] = <<>>)
    /\ kind = "sleep" => /\ rpc[a][r] \notin {"empty", "reading"}
                         /\ rpc[a][r] = "ok" => memory[a] = "asleep"

ActorOnTrack(a) ==
    /\ phase = "rollout" => UnderWayAt(a) = {} /\ QueuesEmpty(a) /\ memory[a] = "asleep"
    /\ phase = "waking" => OneCall(a, "wakeup")
    /\ phase = "computing" => OneCall(a, "generate")
    /\ phase = "sleeping" => OneCall(a, "sleep")

SleepInv == OnTrack => \A a \in Actors : ActorOnTrack(a)

-----------------------------------------------------------------------------
(* The types.                                                              *)

LEMMA RPCsFinite == IsFiniteSet(RPCs) /\ \A S \in SUBSET RPCs : IsFiniteSet(S)
<1>1. IsFiniteSet(Kinds)
  <2>1. IsFiniteSet({"wakeup"})
    BY FS_Singleton
  <2>2. IsFiniteSet({"wakeup"} \cup {"generate"})
    BY <2>1, FS_AddElement
  <2>3. IsFiniteSet(({"wakeup"} \cup {"generate"}) \cup {"sleep"})
    BY <2>2, FS_AddElement
  <2>4. Kinds = ({"wakeup"} \cup {"generate"}) \cup {"sleep"}
    BY DEF Kinds
  <2> QED
    BY <2>3, <2>4
<1>2. IsFiniteSet(Steps)
  BY EngineAssumption, FS_Interval DEF Steps
<1>3. IsFiniteSet(RPCs)
  BY <1>1, <1>2, FS_Product DEF RPCs
<1> QED
  BY <1>3, FS_Subset

\* What RPCGoes does to every RPC of every actor.
LEMMA RPCGoesEffect ==
    ASSUME TypeOK, NEW a \in Actors, NEW r \in RPCs, NEW p \in RPCPhases, RPCGoes(a, r, p)
    PROVE  /\ rpc' \in [Actors -> [RPCs -> RPCPhases]]
           /\ \A b \in Actors, q \in RPCs :
                  rpc'[b][q] = IF b = a /\ q = r THEN p ELSE rpc[b][q]
  BY DEF TypeOK, EngineTypeOK, RPCGoes

\* What Submit does to every RPC of every actor.
LEMMA SubmitEffect ==
    ASSUME TypeOK, NEW kind \in Kinds, NEW s \in Steps, NEW busy, Submit(kind, s, busy)
    PROVE  /\ rpc' \in [Actors -> [RPCs -> RPCPhases]]
           /\ \A b \in Actors, q \in RPCs :
                  rpc'[b][q] = IF q = <<kind, s>>
                               THEN IF b \in busy THEN "queued" ELSE "empty"
                               ELSE rpc[b][q]
<1>1. <<kind, s>> \in RPCs
  BY DEF RPCs
<1> DEFINE p(b) == IF b \in busy THEN "queued" ELSE "empty"
<1>2. \A b \in Actors : p(b) \in RPCPhases
  BY DEF RPCPhases
<1> DEFINE g(b) == [rpc[b] EXCEPT ![<<kind, s>>] = p(b)]
<1>3. rpc' = [b \in Actors |-> g(b)]
  BY DEF Submit
<1> HIDE DEF p
<1>4. \A b \in Actors : rpc[b] \in [RPCs -> RPCPhases]
  BY DEF TypeOK, EngineTypeOK
<1>5. \A b \in Actors : /\ g(b) \in [RPCs -> RPCPhases]
                         /\ \A q \in RPCs : g(b)[q] = IF q = <<kind, s>> THEN p(b) ELSE rpc[b][q]
  BY <1>1, <1>2, <1>4
<1> HIDE DEF g
<1>6. \A b \in Actors : rpc'[b] = g(b)
  BY <1>3
<1>7. rpc' \in [Actors -> [RPCs -> RPCPhases]]
  BY <1>3, <1>5
<1>8. \A b \in Actors, q \in RPCs : rpc'[b][q] = IF q = <<kind, s>> THEN p(b) ELSE rpc[b][q]
  BY <1>5, <1>6
<1> QED
  BY <1>7, <1>8 DEF p

\* An actor's threads stay within max_concurrency if a call starts only when
\* one of them is free, and no step but its start puts a call on a thread.
LEMMA ThreadsStayBounded ==
    ASSUME TypeOK, NEW a \in Actors, NEW r \in RPCs,
           Running(a)' \subseteq Running(a) \cup {r},
           r \in Running(a) \/ Cardinality(Running(a)) < MaxConcurrency
    PROVE  Cardinality(Running(a)') <= MaxConcurrency
<1>1. /\ Running(a) \in SUBSET RPCs
      /\ Cardinality(Running(a)) <= MaxConcurrency
  BY DEF TypeOK, EngineTypeOK, Running
<1>2. IsFiniteSet(Running(a)) /\ Cardinality(Running(a)) \in Nat
  BY <1>1, RPCsFinite, FS_CardinalityType
<1>3. /\ IsFiniteSet(Running(a) \cup {r})
      /\ Cardinality(Running(a) \cup {r}) = IF r \in Running(a) THEN Cardinality(Running(a))
                                            ELSE Cardinality(Running(a)) + 1
  BY <1>2, FS_AddElement
<1>4. /\ IsFiniteSet(Running(a)')
      /\ Cardinality(Running(a)') <= Cardinality(Running(a) \cup {r})
  BY <1>3, FS_Subset
<1>5. Cardinality(Running(a)') \in Nat
  BY <1>4, FS_CardinalityType
<1> QED
  BY <1>1, <1>2, <1>3, <1>4, <1>5 DEF MaxConcurrency

\* The two queues and the stream are sequences of what they hold.
LEMMA QueueTypes ==
    ASSUME TypeOK, NEW a \in Actors
    PROVE  /\ requests[a] \in Seq(RPCs) /\ responses[a] \in Seq(Answers) /\ stream[a] \in Seq(Steps)
           /\ \A r \in RPCs : Append(requests[a], r) \in Seq(RPCs)
           /\ requests[a] # <<>> => Head(requests[a]) \in RPCs /\ Tail(requests[a]) \in Seq(RPCs)
           /\ responses[a] # <<>> => /\ Head(responses[a]) \in Answers
                                     /\ Tail(responses[a]) \in Seq(Answers)
           /\ stream[a] # <<>> => Head(stream[a]) \in Steps /\ Tail(stream[a]) \in Seq(Steps)
           /\ \A s \in Steps : Append(stream[a], s) \in Seq(Steps)
           /\ \A r \in RPCs : /\ responses[a] \o <<Succeeded(r)>> \in Seq(Answers)
                              /\ responses[a] \o <<Raised(r)>> \in Seq(Answers)
                              /\ responses[a] \o <<Succeeded(r), Raised(r)>> \in Seq(Answers)
<1>1. requests[a] \in Seq(RPCs) /\ responses[a] \in Seq(Answers) /\ stream[a] \in Seq(Steps)
  BY DEF TypeOK, EngineTypeOK
<1>2. \A r \in RPCs : Append(requests[a], r) \in Seq(RPCs)
  BY <1>1, AppendProperties
<1>3. \A s \in Steps : Append(stream[a], s) \in Seq(Steps)
  BY <1>1, AppendProperties
<1>4. requests[a] # <<>> => Head(requests[a]) \in RPCs /\ Tail(requests[a]) \in Seq(RPCs)
  BY <1>1, HeadTailProperties
<1>5. responses[a] # <<>> => Head(responses[a]) \in Answers /\ Tail(responses[a]) \in Seq(Answers)
  BY <1>1, HeadTailProperties
<1>6. stream[a] # <<>> => Head(stream[a]) \in Steps /\ Tail(stream[a]) \in Seq(Steps)
  BY <1>1, HeadTailProperties
<1>7. ASSUME NEW r \in RPCs
      PROVE  /\ responses[a] \o <<Succeeded(r)>> \in Seq(Answers)
             /\ responses[a] \o <<Raised(r)>> \in Seq(Answers)
             /\ responses[a] \o <<Succeeded(r), Raised(r)>> \in Seq(Answers)
  <2>1. Succeeded(r) \in Answers /\ Raised(r) \in Answers
    BY DEF Succeeded, Raised, Answers
  <2>2. /\ <<Succeeded(r)>> \in Seq(Answers) /\ <<Raised(r)>> \in Seq(Answers)
        /\ <<Succeeded(r), Raised(r)>> \in Seq(Answers)
    BY <2>1
  <2> QED
    BY <1>1, <2>2, ConcatProperties
<1> QED
  BY <1>1, <1>2, <1>3, <1>4, <1>5, <1>6, <1>7

\* An RPC's thread keeps its actor's types and lets every other actor be.
LEMMA RPCStepTypes ==
    ASSUME TypeOK, NEW a \in Actors, NEW r \in RPCs, RPCStep(a, r)
    PROVE  /\ EngineTypeOK'
           /\ \A b \in Actors \ {a} : /\ rpc'[b] = rpc[b] /\ requests'[b] = requests[b]
                                      /\ responses'[b] = responses[b] /\ stream'[b] = stream[b]
                                      /\ received'[b] = received[b]
           /\ UNCHANGED <<memory, alive>>
<1> USE DEF TypeOK, EngineTypeOK
<1>0. PICK p \in RPCPhases :
          /\ RPCGoes(a, r, p)
          /\ p \in {"waiting", "reading"} => r \in Running(a) \/ Cardinality(Running(a)) < MaxConcurrency
  BY DEF RPCStep, Start, Receive, GiveUp, Read, ReadTimesOut, RPCPhases, Running
<1>1. /\ rpc' \in [Actors -> [RPCs -> RPCPhases]]
      /\ \A b \in Actors, q \in RPCs : rpc'[b][q] = IF b = a /\ q = r THEN p ELSE rpc[b][q]
      /\ \A b \in Actors \ {a} : rpc'[b] = rpc[b]
  BY <1>0, RPCGoesEffect DEF RPCGoes
<1>2. \A b \in Actors : Cardinality(Running(b)') <= MaxConcurrency
  <2>1. \A b \in Actors \ {a} : Running(b)' = Running(b)
    BY <1>1 DEF Running
  <2>2. \A b \in Actors : Cardinality(Running(b)) <= MaxConcurrency
    BY DEF Running
  <2>3. CASE p \in {"waiting", "reading"}
    <3>1. Running(a)' \subseteq Running(a) \cup {r}
      BY <1>1 DEF Running
    <3> QED
      BY <1>0, <2>1, <2>2, <2>3, <3>1, ThreadsStayBounded
  <2>4. CASE p \notin {"waiting", "reading"}
    <3>1. Running(a)' \subseteq Running(a) /\ Running(a) \subseteq RPCs
      BY <1>1, <2>4 DEF Running
    <3>2. /\ Cardinality(Running(a)') <= Cardinality(Running(a))
          /\ Cardinality(Running(a)') \in Nat /\ Cardinality(Running(a)) \in Nat
      BY <3>1, RPCsFinite, FS_Subset, FS_CardinalityType
    <3>3. Cardinality(Running(a)') <= MaxConcurrency
      BY <2>2, <3>2 DEF MaxConcurrency
    <3>4. \A b \in Actors \ {a} : Cardinality(Running(b)') <= MaxConcurrency
      BY <2>1, <2>2
    <3> QED
      BY <3>3, <3>4
  <2> QED
    BY <2>3, <2>4
<1>3. /\ requests' \in [Actors -> Seq(RPCs)]
      /\ \A b \in Actors \ {a} : requests'[b] = requests[b]
  <2>1. requests' = requests \/ requests' = [requests EXCEPT ![a] = Append(requests[a], r)]
    BY DEF RPCStep, Start, Receive, GiveUp, Read, ReadTimesOut
  <2>2. Append(requests[a], r) \in Seq(RPCs)
    BY QueueTypes
  <2> QED
    BY <2>1, <2>2
<1>4. /\ responses' \in [Actors -> Seq(Answers)]
      /\ \A b \in Actors \ {a} : responses'[b] = responses[b]
  <2>1. \/ responses' = responses
        \/ responses[a] # <<>> /\ responses' = [responses EXCEPT ![a] = Tail(responses[a])]
    BY DEF RPCStep, Start, Receive, GiveUp, Read, ReadTimesOut
  <2> QED
    BY <2>1, QueueTypes
<1>5. /\ stream' \in [Actors -> Seq(Steps)] /\ received' \in [Actors -> [Steps -> 0..MaxSteps]]
      /\ \A b \in Actors \ {a} : stream'[b] = stream[b] /\ received'[b] = received[b]
  <2>1. \/ stream' = stream /\ received' = received
        \/ /\ stream[a] # <<>> /\ stream' = [stream EXCEPT ![a] = Tail(stream[a])]
           /\ received' = [received EXCEPT ![a][r[2]] = Head(stream[a])]
    BY DEF RPCStep, Start, Receive, GiveUp, Read, ReadTimesOut
  <2>2. r[2] \in Steps /\ Steps \subseteq 0..MaxSteps
    BY EngineAssumption DEF RPCs, Steps
  <2>3. CASE stream' = stream /\ received' = received
    BY <2>3
  <2>4. CASE /\ stream[a] # <<>> /\ stream' = [stream EXCEPT ![a] = Tail(stream[a])]
             /\ received' = [received EXCEPT ![a][r[2]] = Head(stream[a])]
    <3>1. stream' \in [Actors -> Seq(Steps)] /\ \A b \in Actors \ {a} : stream'[b] = stream[b]
      BY <2>4, QueueTypes
    <3>2. Head(stream[a]) \in 0..MaxSteps
      BY <2>2, <2>4, QueueTypes
    <3>3. /\ received' \in [Actors -> [Steps -> 0..MaxSteps]]
          /\ \A b \in Actors \ {a} : received'[b] = received[b]
      BY <2>2, <2>4, <3>2
    <3> QED
      BY <3>1, <3>3
  <2> QED
    BY <2>1, <2>3, <2>4
<1>6. UNCHANGED <<memory, alive>> /\ faults' \subseteq Kinds \cup {"death"}
  <2>1. r[1] \in Kinds
    BY DEF RPCs
  <2> QED
    BY <2>1 DEF RPCStep, Start, Receive, GiveUp, Read, ReadTimesOut
<1> QED
  BY <1>1, <1>2, <1>3, <1>4, <1>5, <1>6 DEF Running

\* So does an engine, for the queues of its own actor.
LEMMA EngineStepTypes ==
    ASSUME TypeOK, NEW a \in Actors, EngineStep(a) \/ Die(a)
    PROVE  /\ EngineTypeOK'
           /\ UNCHANGED <<rpc, received>>
           /\ \A b \in Actors \ {a} : /\ requests'[b] = requests[b] /\ responses'[b] = responses[b]
                                      /\ stream'[b] = stream[b] /\ memory'[b] = memory[b]
<1> USE DEF TypeOK, EngineTypeOK
<1>1. CASE Die(a)
  BY <1>1 DEF Die
<1>2. CASE EngineStep(a)
  <2> DEFINE r == Head(requests[a])
  <2>1. requests[a] # <<>> /\ UNCHANGED <<rpc, received, alive>>
    BY <1>2 DEF EngineStep, Handle, HandlerRaises
  <2>2. r \in RPCs /\ r[1] \in Kinds /\ r[2] \in Steps
    BY <2>1, QueueTypes DEF RPCs
  <2> HIDE DEF r
  <2>3. /\ requests' \in [Actors -> Seq(RPCs)]
        /\ \A b \in Actors \ {a} : requests'[b] = requests[b]
    <3>1. requests' = [requests EXCEPT ![a] = Tail(requests[a])]
      BY <1>2 DEF EngineStep, Handle, HandlerRaises
    <3>2. Tail(requests[a]) \in Seq(RPCs)
      BY <2>1, QueueTypes
    <3> QED
      BY <3>1, <3>2
  <2>4. /\ responses' \in [Actors -> Seq(Answers)]
        /\ \A b \in Actors \ {a} : responses'[b] = responses[b]
    <3>1. \/ responses' = [responses EXCEPT ![a] = responses[a] \o <<Succeeded(r)>>]
          \/ responses' = [responses EXCEPT ![a] = responses[a] \o <<Raised(r)>>]
          \/ responses' = [responses EXCEPT ![a] = responses[a] \o <<Succeeded(r), Raised(r)>>]
      BY <1>2 DEF EngineStep, Handle, HandlerRaises, Answer, r
    <3>2. /\ responses[a] \o <<Succeeded(r)>> \in Seq(Answers)
          /\ responses[a] \o <<Raised(r)>> \in Seq(Answers)
          /\ responses[a] \o <<Succeeded(r), Raised(r)>> \in Seq(Answers)
      BY <2>2, QueueTypes
    <3> QED
      BY <3>1, <3>2
  <2>5. /\ stream' \in [Actors -> Seq(Steps)]
        /\ \A b \in Actors \ {a} : stream'[b] = stream[b]
    <3>1. stream' = stream \/ stream' = [stream EXCEPT ![a] = Append(stream[a], r[2])]
      BY <1>2 DEF EngineStep, Handle, HandlerRaises, r
    <3>2. Append(stream[a], r[2]) \in Seq(Steps)
      BY <2>2, QueueTypes
    <3> QED
      BY <3>1, <3>2
  <2>6. /\ memory' \in [Actors -> {"awake", "asleep"}]
        /\ \A b \in Actors \ {a} : memory'[b] = memory[b]
    <3>1. \/ memory' = memory \/ memory' = [memory EXCEPT ![a] = "awake"]
          \/ memory' = [memory EXCEPT ![a] = "asleep"]
      BY <1>2 DEF EngineStep, Handle, HandlerRaises
    <3> QED
      BY <3>1
  <2>7. faults' \subseteq Kinds \cup {"death"}
    BY <1>2, <2>2 DEF EngineStep, Handle, HandlerRaises, r
  <2> QED
    BY <2>1, <2>3, <2>4, <2>5, <2>6, <2>7
<1> QED
  BY <1>1, <1>2

\* The steps of the sidecar that submit RPCs, and what it submits.
LEMMA SidecarSubmits ==
    ASSUME TypeOK, StepBegun, Wake \/ Compute \/ Computed \/ ComputeFails
    PROVE  /\ step' \in Steps
           /\ \E kind \in Kinds, busy \in SUBSET Actors :
                  /\ Submit(kind, step', busy)
                  /\ Wake => kind = "wakeup" /\ busy = Actors
                  /\ Compute => kind = "generate"
                  /\ Computed \/ ComputeFails => kind = "sleep" /\ busy = Actors
<1>1. step \in 0..MaxSteps /\ MaxSteps \in Nat
  BY EngineAssumption DEF TypeOK
<1>2. CASE Wake
  <2>1. step' = step + 1 /\ step < MaxSteps /\ phase = "rollout" /\ Submit("wakeup", step', Actors)
    BY <1>2 DEF Wake
  <2>2. step' \in Steps
    BY <1>1, <2>1 DEF Steps
  <2> QED
    BY <2>1, <2>2 DEF Kinds, Compute, Computed, ComputeFails
<1>3. CASE Compute
  <2>1. PICK busy \in SUBSET Actors : Submit("generate", step, busy)
    BY <1>3 DEF Compute
  <2>2. step' = step /\ step # 0 /\ phase = "waking"
    BY <1>3 DEF Compute, StepBegun
  <2>3. step' \in Steps
    BY <1>1, <2>2 DEF Steps
  <2> QED
    BY <2>1, <2>2, <2>3 DEF Kinds, Wake, Computed, ComputeFails
<1>4. CASE Computed \/ ComputeFails
  <2>1. step' = step /\ step # 0 /\ phase = "computing" /\ Submit("sleep", step, Actors)
    BY <1>4 DEF Computed, ComputeFails, GoToSleep, StepBegun
  <2>2. step' \in Steps
    BY <1>1, <2>1 DEF Steps
  <2> QED
    BY <2>1, <2>2 DEF Kinds, Wake, Compute
<1> QED
  BY <1>2, <1>3, <1>4

LEMMA TypeNext ==
    ASSUME TypeOK, StepBegun, [Next]_vars
    PROVE  TypeOK' /\ StepBegun'
<1>1. StepBegun' /\ phase' \in Phases /\ step' \in 0..MaxSteps /\ doomed' \in BOOLEAN /\ sleepOK' \in BOOLEAN
  <2>1. CASE Wake
    BY <2>1, EngineAssumption DEF Wake, StepBegun, TypeOK, Phases
  <2>2. CASE WakeFails \/ Compute \/ Computed \/ ComputeFails
    <3>1. /\ step' = step /\ sleepOK' = sleepOK /\ phase # "rollout"
          /\ phase' \in {"computing", "sleeping", "dead"}
          /\ \/ doomed' = doomed
             \/ doomed' = TRUE /\ phase' = "sleeping"
          /\ doomed => phase' \in {"sleeping", "dead"}
      BY <2>2 DEF WakeFails, Compute, Computed, ComputeFails, GoToSleep, StepBegun
    <3>2. StepBegun'
      BY <3>1 DEF StepBegun
    <3>3. phase' \in Phases /\ step' \in 0..MaxSteps /\ doomed' \in BOOLEAN /\ sleepOK' \in BOOLEAN
      BY <3>1 DEF TypeOK, Phases
    <3> QED
      BY <3>2, <3>3
  <2>4. CASE Slept \/ SleepFails
    <3>1. /\ phase = "sleeping" /\ step' = step /\ doomed' = doomed
          /\ phase' = IF doomed THEN "dead" ELSE "rollout"
          /\ sleepOK' \in BOOLEAN
      BY <2>4 DEF Slept, SleepFails, Returns, TypeOK
    <3> QED
      BY <3>1 DEF StepBegun, TypeOK, Phases
  <2>3. CASE UNCHANGED sidecarVars
    BY <2>3 DEF sidecarVars, StepBegun, TypeOK
  <2> QED
    BY <2>1, <2>2, <2>3, <2>4 DEF Next, SidecarStep, vars
<1>2. EngineTypeOK'
  <2>1. CASE Wake \/ Compute \/ Computed \/ ComputeFails
    <3>1. step' \in Steps
      BY <2>1, SidecarSubmits
    <3>2. PICK kind \in Kinds, busy \in SUBSET Actors : Submit(kind, step', busy)
      BY <2>1, SidecarSubmits
    <3>3. /\ rpc' \in [Actors -> [RPCs -> RPCPhases]]
          /\ \A b \in Actors, q \in RPCs :
                 rpc'[b][q] = IF q = <<kind, step'>>
                              THEN IF b \in busy THEN "queued" ELSE "empty"
                              ELSE rpc[b][q]
      BY <3>1, <3>2, SubmitEffect
    <3>4. ASSUME NEW b \in Actors PROVE Cardinality(Running(b)') <= MaxConcurrency
      <4>1. Running(b)' \subseteq Running(b) /\ Running(b) \subseteq RPCs
        BY <3>3 DEF Running
      <4>2. Cardinality(Running(b)) <= MaxConcurrency
        BY DEF TypeOK, EngineTypeOK, Running
      <4>3. /\ Cardinality(Running(b)') <= Cardinality(Running(b))
            /\ Cardinality(Running(b)') \in Nat /\ Cardinality(Running(b)) \in Nat
        BY <4>1, RPCsFinite, FS_Subset, FS_CardinalityType
      <4> QED
        BY <4>2, <4>3 DEF MaxConcurrency
    <3>5. UNCHANGED <<requests, responses, stream, memory, alive, received>>
      BY <2>1 DEF Wake, Compute, Computed, ComputeFails, GoToSleep
    <3>6. faults' \subseteq Kinds \cup {"death"}
      BY <2>1 DEF Wake, Compute, Computed, ComputeFails, TypeOK, EngineTypeOK, Kinds
    <3> QED
      BY <3>3, <3>4, <3>5, <3>6 DEF TypeOK, EngineTypeOK, Running
  <2>2. CASE UNCHANGED engineVars
    BY <2>2 DEF engineVars, TypeOK, EngineTypeOK
  <2>3. ASSUME NEW a \in Actors, EngineStep(a) \/ Die(a) \/ \E r \in RPCs : RPCStep(a, r)
        PROVE  EngineTypeOK'
    BY <2>3, EngineStepTypes, RPCStepTypes
  <2> QED
    BY <2>1, <2>2, <2>3 DEF Next, SidecarStep, WakeFails, Slept, SleepFails, vars
<1> QED
  BY <1>1, <1>2 DEF TypeOK

LEMMA TypeInitially == Init => TypeOK /\ StepBegun
<1> SUFFICES ASSUME Init PROVE TypeOK /\ StepBegun
  OBVIOUS
<1> USE EngineAssumption DEF Init, EngineInit
<1>1. StepBegun /\ phase \in Phases /\ step \in 0..MaxSteps /\ doomed \in BOOLEAN /\ sleepOK \in BOOLEAN
  <2>1. step \in 0..MaxSteps
    OBVIOUS
  <2> QED
    BY <2>1 DEF StepBegun, Phases
<1>2. /\ rpc \in [Actors -> [RPCs -> RPCPhases]]
      /\ requests \in [Actors -> Seq(RPCs)]
      /\ responses \in [Actors -> Seq(Answers)]
      /\ stream \in [Actors -> Seq(Steps)]
      /\ memory \in [Actors -> {"awake", "asleep"}]
      /\ alive \in [Actors -> BOOLEAN]
      /\ received \in [Actors -> [Steps -> 0..MaxSteps]]
      /\ faults \subseteq Kinds \cup {"death"}
  BY EmptySeq DEF RPCPhases
<1>3. ASSUME NEW a \in Actors
      PROVE  Cardinality({r \in RPCs : rpc[a][r] \in {"waiting", "reading"}}) <= MaxConcurrency
  <2> DEFINE running == {r \in RPCs : rpc[a][r] \in {"waiting", "reading"}}
  <2>1. \A r \in RPCs : rpc[a][r] = "none"
    BY <1>3
  <2>2. running = {}
    BY <2>1
  <2> HIDE DEF running
  <2>3. Cardinality(running) <= MaxConcurrency
    BY <2>2, FS_EmptySet DEF MaxConcurrency
  <2> QED
    BY <2>3 DEF running
<1> QED
  BY <1>1, <1>2, <1>3 DEF TypeOK, EngineTypeOK

-----------------------------------------------------------------------------
(* Batches.                                                                *)

BatchInvAt(a) == StepsInOrder(a) /\ InOnePlace(a) /\ OwnBatch(a)

LEMMA GenerateIsAnRPC ==
    /\ \A s \in Steps : Generate(s) \in RPCs /\ Generate(s)[1] = "generate" /\ Generate(s)[2] = s
    /\ \A r \in RPCs : r[1] \in Kinds /\ r[2] \in Steps /\ r = <<r[1], r[2]>>
    /\ \A r \in RPCs : r[1] = "generate" => r = Generate(r[2])
    /\ \A s, t \in Steps : Generate(s) = Generate(t) => s = t
    /\ \A s, t : Generate(s) # <<"wakeup", t>> /\ Generate(s) # <<"sleep", t>>
BY DEF RPCs, Kinds, Generate

\* The sidecar goes to the next step with every result of this one.
LEMMA SidecarKeepsBatches ==
    ASSUME BatchInv, SidecarStep, NEW a \in Actors
    PROVE  BatchInvAt(a)'
<1>0. TypeOK /\ StepBegun /\ BatchInvAt(a)
  BY DEF BatchInv, BatchInvAt
<1>1. UNCHANGED <<requests, stream, received>>
  BY DEF SidecarStep, Wake, WakeFails, Compute, Computed, ComputeFails, GoToSleep,
         Slept, SleepFails, engineVars
<1>2. ASSUME \A s \in Steps : rpc'[a][Generate(s)] = rpc[a][Generate(s)],
             \A r \in RPCs : rpc'[a][r] = "reading" => rpc[a][r] = "reading"
      PROVE  InOnePlace(a)' /\ OwnBatch(a)'
  <2>1. \A i \in DOMAIN requests[a] : requests[a][i] \in RPCs /\ requests[a][i][2] \in Steps
    BY <1>0, QueueTypes, ElementOfSeq, LenProperties, GenerateIsAnRPC
  <2>2. stream[a] # <<>> => Head(stream[a]) \in Steps
    BY <1>0, QueueTypes
  <2> QED
    BY <1>0, <1>1, <1>2, <2>1, <2>2 DEF BatchInvAt, InOnePlace, OnTheWay, OwnBatch
<1>3. CASE Wake
  <2>1. step' \in Steps /\ step' = step + 1 /\ Submit("wakeup", step', Actors)
        /\ phase = "rollout" /\ phase' = "waking" /\ ~doomed
    BY <1>0, <1>3, SidecarSubmits DEF Wake, StepBegun
  <2>2. /\ \A s \in Steps : rpc'[a][Generate(s)] = rpc[a][Generate(s)]
        /\ \A r \in RPCs : rpc'[a][r] = "reading" => rpc[a][r] = "reading"
    BY <1>0, <2>1, SubmitEffect, GenerateIsAnRPC DEF Kinds
  <2>3. StepsInOrder(a)'
    <3>1. step \in Nat /\ \A s \in Steps : s \in Nat
      BY <1>0, EngineAssumption DEF TypeOK, Steps
    <3> QED
      BY <1>0, <2>1, <2>2, <3>1 DEF BatchInvAt, StepsInOrder
  <2> QED
    BY <1>2, <2>2, <2>3 DEF BatchInvAt
<1>4. CASE Compute
  <2>1. step' \in Steps /\ step' = step /\ phase = "waking" /\ phase' = "computing"
    BY <1>0, <1>4, SidecarSubmits DEF Compute
  <2>2. PICK busy \in SUBSET Actors : Submit("generate", step, busy)
    BY <1>4 DEF Compute
  <2>3. /\ \A s \in Steps \ {step} : rpc'[a][Generate(s)] = rpc[a][Generate(s)]
        /\ rpc[a][Generate(step)] = "none" /\ rpc'[a][Generate(step)] \in {"queued", "empty"}
        /\ \A r \in RPCs : rpc'[a][r] = "reading" => rpc[a][r] = "reading"
    <3>1. rpc[a][Generate(step)] = "none"
      BY <1>0, <2>1 DEF BatchInvAt, StepsInOrder
    <3> QED
      BY <1>0, <2>1, <2>2, <3>1, SubmitEffect, GenerateIsAnRPC DEF Kinds, Generate
  <2>4. StepsInOrder(a)'
    BY <1>0, <2>1, <2>3 DEF BatchInvAt, StepsInOrder
  <2>5. \A s \in Steps : OnTheWay(a, s) => OnTheWay(a, s)'
    BY <2>3 DEF OnTheWay
  <2>6. InOnePlace(a)'
    <3>1. \A i \in DOMAIN requests[a] : requests[a][i] \in RPCs /\ requests[a][i][2] \in Steps
      BY <1>0, QueueTypes, ElementOfSeq, LenProperties, GenerateIsAnRPC
    <3>2. stream[a] # <<>> => Head(stream[a]) \in Steps
      BY <1>0, QueueTypes
    <3> QED
      BY <1>0, <1>1, <2>5, <3>1, <3>2 DEF BatchInvAt, InOnePlace
  <2>7. OwnBatch(a)'
    BY <1>0, <1>1, <2>3 DEF BatchInvAt, OwnBatch
  <2> QED
    BY <2>4, <2>6, <2>7 DEF BatchInvAt
<1>5. CASE Computed \/ ComputeFails
  <2>1. /\ step' \in Steps /\ step' = step /\ Submit("sleep", step, Actors)
        /\ phase' = "sleeping"
        /\ doomed' \/ (\A b \in Actors : rpc[b][Generate(step)] = "ok")
    BY <1>0, <1>5, SidecarSubmits DEF Computed, ComputeFails, GoToSleep, All, Generate
  <2>2. /\ \A s \in Steps : rpc'[a][Generate(s)] = rpc[a][Generate(s)]
        /\ \A r \in RPCs : rpc'[a][r] = "reading" => rpc[a][r] = "reading"
    BY <1>0, <2>1, SubmitEffect, GenerateIsAnRPC DEF Kinds
  <2>3. StepsInOrder(a)'
    BY <1>0, <2>1, <2>2 DEF BatchInvAt, StepsInOrder
  <2> QED
    BY <1>2, <2>2, <2>3 DEF BatchInvAt
<1>6. CASE WakeFails \/ Slept \/ SleepFails
  <2>1. /\ rpc' = rpc /\ step' = step /\ doomed' = doomed
        /\ \/ phase' = "dead"
           \/ phase = "sleeping" /\ ~doomed /\ phase' = "rollout"
    BY <1>6 DEF WakeFails, Slept, SleepFails, Returns, engineVars
  <2>2. StepsInOrder(a)'
    BY <1>0, <2>1 DEF BatchInvAt, StepsInOrder
  <2> QED
    BY <1>2, <2>1, <2>2 DEF BatchInvAt
<1> QED
  BY <1>3, <1>4, <1>5, <1>6 DEF SidecarStep

\* The elements of the request queue after one is appended, or taken.
LEMMA RequestQueue ==
    ASSUME TypeOK, NEW a \in Actors
    PROVE  /\ \A i \in DOMAIN requests[a] : requests[a][i] \in RPCs
           /\ \A r \in RPCs : \A i \in DOMAIN Append(requests[a], r) :
                 \/ i \in DOMAIN requests[a] /\ Append(requests[a], r)[i] = requests[a][i]
                 \/ i = Len(requests[a]) + 1 /\ Append(requests[a], r)[i] = r
           /\ requests[a] # <<>> =>
                 /\ 1 \in DOMAIN requests[a] /\ Head(requests[a]) = requests[a][1]
                 /\ \A i \in DOMAIN Tail(requests[a]) :
                       /\ i + 1 \in DOMAIN requests[a] /\ i + 1 # 1 /\ i \in Nat
                       /\ Tail(requests[a])[i] = requests[a][i + 1]
<1> DEFINE q == requests[a]
<1>1. q \in Seq(RPCs) /\ Len(q) \in Nat /\ DOMAIN q = 1..Len(q)
  BY LenProperties DEF TypeOK, EngineTypeOK
<1>2. \A i \in DOMAIN q : q[i] \in RPCs
  BY <1>1, ElementOfSeq
<1>3. ASSUME NEW r \in RPCs, NEW i \in DOMAIN Append(q, r)
      PROVE  \/ i \in DOMAIN q /\ Append(q, r)[i] = q[i]
             \/ i = Len(q) + 1 /\ Append(q, r)[i] = r
  <2>1. /\ Append(q, r) \in Seq(RPCs) /\ Len(Append(q, r)) = Len(q) + 1
        /\ \A j \in 1..Len(q) : Append(q, r)[j] = q[j]
        /\ Append(q, r)[Len(q) + 1] = r
    BY <1>1, AppendProperties
  <2>2. i \in 1..(Len(q) + 1)
    BY <1>3, <2>1, LenProperties
  <2> QED
    BY <1>1, <2>1, <2>2
<1>4. ASSUME q # <<>>
      PROVE  /\ 1 \in DOMAIN q /\ Head(q) = q[1]
             /\ \A i \in DOMAIN Tail(q) : /\ i + 1 \in DOMAIN q /\ i + 1 # 1 /\ i \in Nat
                                         /\ Tail(q)[i] = q[i + 1]
  <2>1. /\ Tail(q) \in Seq(RPCs) /\ Len(Tail(q)) = Len(q) - 1
        /\ \A i \in 1..Len(Tail(q)) : Tail(q)[i] = q[i + 1]
    BY <1>1, <1>4, HeadTailProperties
  <2>2. Len(q) \in Nat \ {0}
    BY <1>1, <1>4, EmptySeq
  <2>3. DOMAIN Tail(q) = 1..(Len(q) - 1)
    BY <2>1, LenProperties
  <2>4. Head(q) = q[1]
    BY <1>1
  <2> QED
    BY <1>1, <2>1, <2>2, <2>3, <2>4
<1> QED
  BY <1>2, <1>3, <1>4

\* A stream that holds at most one step's hidden states.
LEMMA StreamOfOne ==
    ASSUME TypeOK, NEW a \in Actors
    PROVE  /\ stream[a] # <<>> /\ Len(stream[a]) <= 1 => Tail(stream[a]) = <<>>
           /\ \A s \in Steps : stream[a] = <<>> =>
                 /\ Append(stream[a], s) # <<>> /\ Len(Append(stream[a], s)) = 1
                 /\ Head(Append(stream[a], s)) = s
<1>1. stream[a] \in Seq(Steps) /\ Len(stream[a]) \in Nat
  BY LenProperties DEF TypeOK, EngineTypeOK
<1>2. ASSUME stream[a] # <<>>, Len(stream[a]) <= 1
      PROVE  Tail(stream[a]) = <<>>
  <2> DEFINE rest == Tail(stream[a])
  <2>1. rest \in Seq(Steps) /\ Len(rest) = Len(stream[a]) - 1
    BY <1>1, <1>2, HeadTailProperties
  <2>2. Len(rest) \in Nat
    BY <2>1, LenProperties
  <2> HIDE DEF rest
  <2>3. Len(rest) = 0
    <3> DEFINE m == Len(rest)  n == Len(stream[a])
    <3>1. m = n - 1 /\ m \in Nat /\ n \in Nat /\ n <= 1
      BY <1>1, <1>2, <2>1, <2>2
    <3> HIDE DEF m, n
    <3>2. m = 0
      BY <3>1
    <3> QED
      BY <3>2 DEF m
  <2>4. rest = <<>>
    BY <2>1, <2>3, EmptySeq
  <2> QED
    BY <2>4 DEF rest
<1>3. ASSUME NEW s \in Steps, stream[a] = <<>>
      PROVE  /\ Append(stream[a], s) # <<>> /\ Len(Append(stream[a], s)) = 1
             /\ Head(Append(stream[a], s)) = s
  <2>1. Append(<<>>, s) = <<s>>
    OBVIOUS
  <2> QED
    BY <1>3, <2>1
<1> QED
  BY <1>2, <1>3

\* Whatever answers an RPC's thread takes, a batch stays in one place.
LEMMA RPCStepKeepsBatches ==
    ASSUME BatchInv, NEW a \in Actors, NEW r \in RPCs, RPCStep(a, r), UNCHANGED sidecarVars
    PROVE  BatchInvAt(a)'
<1>0. TypeOK /\ StepBegun /\ BatchInvAt(a)
  BY DEF BatchInv, BatchInvAt
<1>1. UNCHANGED <<step, phase, doomed>>
  BY DEF sidecarVars
\* A generate that is not done nor untouched is that of the present step.
<1>2. \A s \in Steps : rpc[a][Generate(s)] \notin {"ok", "none"} => s = step
  BY <1>0 DEF BatchInvAt, StepsInOrder, TypeOK, Steps
<1>3. \A p \in RPCPhases : RPCGoes(a, r, p) =>
          \A q \in RPCs : rpc'[a][q] = IF q = r THEN p ELSE rpc[a][q]
  BY <1>0, RPCGoesEffect
<1>4. rpc[a][r] \in {"queued", "empty", "waiting", "reading"} /\ \E p \in RPCPhases \ {"none"} : RPCGoes(a, r, p)
  BY DEF RPCStep, Start, Receive, GiveUp, Read, ReadTimesOut, RPCPhases, NextInLine, Pending
<1>5. StepsInOrder(a)'
  <2>1. \A s \in Steps : rpc[a][Generate(s)] \in {"ok", "none"} => rpc'[a][Generate(s)] = rpc[a][Generate(s)]
    BY <1>3, <1>4, GenerateIsAnRPC
  <2>2. \A s \in Steps : /\ s < step => rpc[a][Generate(s)] = "ok"
                         /\ s > step => rpc[a][Generate(s)] = "none"
                         /\ s = step => /\ phase = "waking" => rpc[a][Generate(s)] = "none"
                                        /\ phase \in {"rollout", "sleeping"} /\ ~doomed
                                              => rpc[a][Generate(s)] = "ok"
    BY <1>0 DEF BatchInvAt, StepsInOrder
  <2> QED
    BY <1>1, <2>1, <2>2 DEF StepsInOrder
<1> SUFFICES InOnePlace(a)' /\ OwnBatch(a)'
  BY <1>5 DEF BatchInvAt
<1>6. /\ \A i \in DOMAIN requests[a] : requests[a][i] \in RPCs /\ requests[a][i][2] \in Steps
      /\ stream[a] # <<>> => Head(stream[a]) \in Steps
      /\ InOnePlace(a) /\ OwnBatch(a)
  BY <1>0, RequestQueue, QueueTypes, GenerateIsAnRPC DEF BatchInvAt
<1>7. CASE Start(a, r)
  <2>1. PICK p \in {"ok", "failed", "waiting"} :
            /\ RPCGoes(a, r, p)
            /\ \/ requests' = requests
               \/ requests' = [requests EXCEPT ![a] = Append(requests[a], r)] /\ p = "waiting"
    BY <1>7 DEF Start
  <2>2. /\ UNCHANGED <<stream, received>> /\ rpc[a][r] \in {"queued", "empty"}
        /\ \A q \in RPCs : rpc'[a][q] = IF q = r THEN p ELSE rpc[a][q]
    BY <1>3, <1>7, <2>1 DEF Start, NextInLine, Pending, RPCPhases
  <2>3. \A s \in Steps : OnTheWay(a, s) => OnTheWay(a, s)' /\ r # Generate(s)
    BY <2>2, GenerateIsAnRPC DEF OnTheWay
  <2>4. OwnBatch(a)'
    BY <1>6, <2>2 DEF OwnBatch
  <2>5. CASE requests' = requests
    BY <1>6, <2>2, <2>3, <2>4, <2>5 DEF InOnePlace
  <2>6. CASE requests' = [requests EXCEPT ![a] = Append(requests[a], r)] /\ p = "waiting"
    <3>1. requests'[a] = Append(requests[a], r)
      BY <1>0, <2>6 DEF TypeOK, EngineTypeOK
    <3>2. \A i \in DOMAIN requests'[a] :
              \/ i \in DOMAIN requests[a] /\ requests'[a][i] = requests[a][i]
              \/ i = Len(requests[a]) + 1 /\ requests'[a][i] = r
      BY <1>0, <3>1, RequestQueue
    <3>3. CASE r[1] # "generate"
      BY <1>6, <2>2, <2>3, <2>4, <3>2, <3>3 DEF InOnePlace
    <3>4. CASE r[1] = "generate"
      <4>1. r = Generate(r[2]) /\ r[2] = step /\ r[2] \in Steps
        BY <1>2, <2>2, <3>4, GenerateIsAnRPC
      <4>2. \A s \in Steps : ~OnTheWay(a, s)
        BY <1>2, <2>3, <4>1 DEF OnTheWay
      <4>3. /\ stream[a] = <<>> /\ Len(stream[a]) <= 1
            /\ \A i \in DOMAIN requests[a] : requests[a][i][1] # "generate"
        BY <1>6, <4>2 DEF InOnePlace
      <4>4. OnTheWay(a, r[2])'
        BY <2>2, <2>6, <4>1 DEF OnTheWay
      <4>5. InOnePlace(a)'
        BY <2>2, <3>2, <4>3, <4>4 DEF InOnePlace
      <4> QED
        BY <2>4, <4>5
    <3> QED
      BY <3>3, <3>4
  <2> QED
    BY <2>1, <2>5, <2>6
\* An RPC that takes an answer may fail, but never comes to an end with a batch
\* still on its way.
<1>8. CASE Receive(a, r) \/ GiveUp(a, r)
  <2>1. PICK p \in {"ok", "failed", "reading"} :
            /\ RPCGoes(a, r, p)
            /\ p = "ok" => r[1] # "generate"
            /\ p = "reading" => r[1] = "generate"
    BY <1>8 DEF Receive, GiveUp
  <2>2. /\ UNCHANGED <<requests, stream, received>>
        /\ \A q \in RPCs : rpc'[a][q] = IF q = r THEN p ELSE rpc[a][q]
    BY <1>3, <1>8, <2>1 DEF Receive, GiveUp, RPCPhases
  <2>3. \A s \in Steps : OnTheWay(a, s) => OnTheWay(a, s)'
    BY <2>1, <2>2, GenerateIsAnRPC DEF OnTheWay
  <2> QED
    BY <1>6, <2>1, <2>2, <2>3 DEF InOnePlace, OwnBatch
\* The hidden states that are read are the last trace of their batch.
<1>9. CASE Read(a, r)
  <2>1. /\ rpc[a][r] = "reading" /\ stream[a] # <<>> /\ requests' = requests
        /\ received' = [received EXCEPT ![a][r[2]] = Head(stream[a])]
        /\ stream' = [stream EXCEPT ![a] = Tail(stream[a])]
        /\ \A q \in RPCs : rpc'[a][q] = IF q = r THEN "ok" ELSE rpc[a][q]
    BY <1>3, <1>9 DEF Read, RPCPhases
  <2>2. r[1] = "generate" /\ r = Generate(r[2]) /\ r[2] \in Steps /\ r[2] = step
    BY <1>2, <1>6, <2>1, GenerateIsAnRPC DEF OwnBatch
  <2>3. Head(stream[a]) = step
    BY <1>2, <1>6, <2>1 DEF InOnePlace, OnTheWay
  <2>4. stream'[a] = <<>>
    <3>1. Tail(stream[a]) = <<>>
      BY <1>0, <1>6, <2>1, StreamOfOne DEF InOnePlace
    <3> QED
      BY <1>0, <2>1, <3>1 DEF TypeOK, EngineTypeOK
  <2>5. \A i \in DOMAIN requests[a] : requests[a][i][1] # "generate"
    BY <1>6, <2>1 DEF InOnePlace
  <2>6. InOnePlace(a)'
    BY <2>1, <2>4, <2>5, EmptySeq DEF InOnePlace
  <2>7. OwnBatch(a)'
    <3>1. received[a] \in [Steps -> 0..MaxSteps]
      BY <1>0 DEF TypeOK, EngineTypeOK
    <3>2. received'[a] = [received[a] EXCEPT ![r[2]] = Head(stream[a])]
      BY <1>0, <2>1 DEF TypeOK, EngineTypeOK
    <3>3. \A s \in Steps : received'[a][s] = IF s = step THEN step ELSE received[a][s]
      BY <2>2, <2>3, <3>1, <3>2
    <3> QED
      BY <1>6, <2>1, <3>3 DEF OwnBatch
  <2> QED
    BY <2>6, <2>7
<1>10. CASE ReadTimesOut(a, r)
  <2>1. /\ UNCHANGED <<requests, stream, received>>
        /\ \A q \in RPCs : rpc'[a][q] = IF q = r THEN "failed" ELSE rpc[a][q]
    BY <1>3, <1>10 DEF ReadTimesOut, RPCPhases
  <2>2. \A s \in Steps : OnTheWay(a, s) => OnTheWay(a, s)'
    BY <2>1, GenerateIsAnRPC DEF OnTheWay
  <2> QED
    BY <1>6, <2>1, <2>2 DEF InOnePlace, OwnBatch
<1> QED
  BY <1>7, <1>8, <1>9, <1>10 DEF RPCStep

\* An engine turns a request into hidden states, or into none.
LEMMA EngineStepKeepsBatches ==
    ASSUME BatchInv, NEW a \in Actors, EngineStep(a) \/ Die(a), UNCHANGED sidecarVars
    PROVE  BatchInvAt(a)'
<1>0. TypeOK /\ StepBegun /\ BatchInvAt(a)
  BY DEF BatchInv, BatchInvAt
<1>1. UNCHANGED <<step, phase, doomed, rpc, received>>
  BY EngineStepTypes, <1>0 DEF sidecarVars
<1>2. StepsInOrder(a)' /\ OwnBatch(a)' /\ \A s \in Steps : OnTheWay(a, s)' <=> OnTheWay(a, s)
  BY <1>0, <1>1 DEF BatchInvAt, StepsInOrder, OwnBatch, OnTheWay
<1>3. /\ \A i \in DOMAIN requests[a] : requests[a][i] \in RPCs /\ requests[a][i][2] \in Steps
      /\ stream[a] # <<>> => Head(stream[a]) \in Steps
      /\ InOnePlace(a)
  BY <1>0, RequestQueue, QueueTypes, GenerateIsAnRPC DEF BatchInvAt
<1>4. InOnePlace(a)'
  <2>1. CASE Die(a)
    BY <1>2, <1>3, <2>1 DEF Die, InOnePlace
  <2>2. CASE EngineStep(a)
    <3> DEFINE r == Head(requests[a])
               rest == Tail(requests[a])
    <3>1. /\ requests[a] # <<>> /\ requests' = [requests EXCEPT ![a] = rest]
          /\ \/ stream' = stream
             \/ r[1] = "generate" /\ stream' = [stream EXCEPT ![a] = Append(stream[a], r[2])]
      BY <2>2 DEF EngineStep, Handle, HandlerRaises
    <3>2. /\ 1 \in DOMAIN requests[a] /\ r = requests[a][1]
          /\ \A i \in DOMAIN rest : /\ i + 1 \in DOMAIN requests[a] /\ i + 1 # 1 /\ i \in Nat
                                   /\ rest[i] = requests[a][i + 1]
      BY <1>0, <3>1, RequestQueue
    <3> HIDE DEF r, rest
    <3>3. requests'[a] = rest
      BY <1>0, <3>1 DEF TypeOK, EngineTypeOK
    <3>4. \A i \in DOMAIN rest : rest[i][1] = "generate" =>
             /\ OnTheWay(a, rest[i][2])
             /\ r[1] # "generate"
             /\ stream[a] = <<>>
             /\ \A j \in DOMAIN rest : rest[j][1] = "generate" => j = i
      <4>1. ASSUME NEW i \in DOMAIN rest, rest[i][1] = "generate"
            PROVE  /\ OnTheWay(a, rest[i][2])
                   /\ r[1] # "generate"
                   /\ stream[a] = <<>>
        <5>1. i + 1 \in DOMAIN requests[a] /\ requests[a][i + 1][1] = "generate" /\ i + 1 # 1
          BY <3>2, <4>1
        <5>2. /\ OnTheWay(a, requests[a][i + 1][2]) /\ stream[a] = <<>>
              /\ requests[a][1][1] # "generate"
          BY <1>3, <3>2, <5>1 DEF InOnePlace
        <5> QED
          BY <3>2, <5>2
      <4>2. ASSUME NEW i \in DOMAIN rest, rest[i][1] = "generate",
                   NEW j \in DOMAIN rest, rest[j][1] = "generate"
            PROVE  j = i
        <5>1. /\ i \in Nat /\ i + 1 \in DOMAIN requests[a] /\ requests[a][i + 1][1] = "generate"
              /\ j \in Nat /\ j + 1 \in DOMAIN requests[a] /\ requests[a][j + 1][1] = "generate"
          BY <3>2, <4>2
        <5>2. j + 1 = i + 1
          BY <1>3, <5>1 DEF InOnePlace
        <5> QED
          BY <5>1, <5>2
      <4> QED
        BY <4>1, <4>2
    <3>5. \A i \in DOMAIN rest : rest[i][2] \in Steps
      BY <1>3, <3>2
    <3>6. CASE stream' = stream
      BY <1>2, <1>3, <3>3, <3>4, <3>5, <3>6 DEF InOnePlace
    <3>7. CASE r[1] = "generate" /\ stream' = [stream EXCEPT ![a] = Append(stream[a], r[2])]
      <4>1. r[2] \in Steps /\ OnTheWay(a, r[2]) /\ stream[a] = <<>>
        BY <1>3, <3>2, <3>7 DEF InOnePlace
      <4>2. stream'[a] # <<>> /\ Len(stream'[a]) = 1 /\ Head(stream'[a]) = r[2]
        <5>1. stream'[a] = Append(stream[a], r[2])
          BY <1>0, <3>7 DEF TypeOK, EngineTypeOK
        <5> QED
          BY <1>0, <4>1, <5>1, StreamOfOne
      <4>3. \A i \in DOMAIN rest : rest[i][1] # "generate"
        BY <3>4, <3>7
      <4> QED
        BY <1>2, <3>3, <4>1, <4>2, <4>3 DEF InOnePlace
    <3> QED
      BY <3>1, <3>6, <3>7
  <2> QED
    BY <2>1, <2>2
<1> QED
  BY <1>2, <1>4 DEF BatchInvAt

LEMMA BatchNext ==
    ASSUME BatchInv, [Next]_vars
    PROVE  BatchInv'
<1>1. TypeOK' /\ StepBegun'
  BY TypeNext DEF BatchInv
<1>2. \A a \in Actors : BatchInvAt(a)'
  <2>1. CASE SidecarStep
    BY <2>1, SidecarKeepsBatches
  <2>2. CASE UNCHANGED vars
    BY <2>2 DEF BatchInv, BatchInvAt, StepsInOrder, InOnePlace, OnTheWay, OwnBatch,
                vars, engineVars, sidecarVars
  <2>3. ASSUME NEW a \in Actors, EngineStep(a) \/ Die(a) \/ (\E r \in RPCs : RPCStep(a, r)),
               UNCHANGED sidecarVars
        PROVE  \A b \in Actors : BatchInvAt(b)'
    <3>1. BatchInvAt(a)'
      BY <2>3, EngineStepKeepsBatches, RPCStepKeepsBatches
    <3>2. ASSUME NEW b \in Actors \ {a} PROVE BatchInvAt(b)'
      <4>1. /\ rpc'[b] = rpc[b] /\ requests'[b] = requests[b]
            /\ stream'[b] = stream[b] /\ received'[b] = received[b]
        BY <2>3, EngineStepTypes, RPCStepTypes DEF BatchInv
      <4> QED
        BY <2>3, <4>1 DEF BatchInv, BatchInvAt, StepsInOrder, InOnePlace, OnTheWay, OwnBatch,
                          sidecarVars
    <3> QED
      BY <3>1, <3>2
  <2> QED
    BY <2>1, <2>2, <2>3 DEF Next
<1> QED
  BY <1>1, <1>2 DEF BatchInv, BatchInvAt

THEOREM BatchInvariant == Spec => []BatchInv
<1>1. Init => BatchInv
  <2> SUFFICES ASSUME Init, NEW a \in Actors
               PROVE  StepsInOrder(a) /\ InOnePlace(a) /\ OwnBatch(a)
    BY TypeInitially DEF BatchInv
  <2>1. /\ step = 0 /\ ~doomed /\ requests[a] = <<>> /\ stream[a] = <<>>
        /\ \A r \in RPCs : rpc[a][r] = "none"
        /\ \A s \in Steps : received[a][s] = 0
    BY DEF Init, EngineInit
  <2>2. \A s \in Steps : s \in Nat \ {0} /\ rpc[a][Generate(s)] = "none"
    BY <2>1, GenerateIsAnRPC, EngineAssumption DEF Steps
  <2> QED
    BY <2>1, <2>2, EmptySeq DEF StepsInOrder, InOnePlace, OwnBatch
<1> QED
  BY <1>1, BatchNext, PTL DEF Spec

\* The types, and with them that no actor has more than max_concurrency calls
\* on its threads.
THEOREM SidecarTypes == Spec => []TypeOK
<1>1. BatchInv => TypeOK
  BY DEF BatchInv
<1> QED
  BY <1>1, BatchInvariant, PTL

\* A batch that is returned holds its own hidden states, for any number of
\* engines and steps, whatever answers are late, crossed or left over.
THEOREM NoBatchIsStale == Spec => []NoStaleBatch
<1>1. BatchInv => NoStaleBatch
  BY DEF BatchInv, OwnBatch, NoStaleBatch
<1> QED
  BY <1>1, BatchInvariant, PTL

-----------------------------------------------------------------------------
(* Memory.                                                                 *)

LEMMA ShortSequences ==
    ASSUME NEW x, NEW y
    PROVE  /\ Append(<<>>, x) = <<x>>
           /\ <<x>> # <<>> /\ Head(<<x>>) = x /\ Tail(<<x>>) = <<>>
           /\ <<x, y>> # <<>> /\ Head(<<x, y>>) = x
           /\ <<>> \o <<x>> = <<x>> /\ <<>> \o <<x, y>> = <<x, y>>
           /\ <<x>>[1] = x /\ 1 \in DOMAIN <<x>>
OBVIOUS

\* The present call of an actor takes its course, and only its own answer is
\* there to be taken.
LEMMA RPCStepKeepsTheCall ==
    ASSUME BatchInv, NEW a \in Actors, NEW kind \in Kinds, step \in Steps, OneCall(a, kind),
           NEW r \in RPCs, RPCStep(a, r), UNCHANGED sidecarVars
    PROVE  OneCall(a, kind)'
<1> DEFINE c == <<kind, step>>
<1>0. TypeOK /\ step' = step /\ memory' = memory
  BY RPCStepTypes DEF BatchInv, sidecarVars
<1>1. c \in RPCs /\ c[1] = kind
  BY DEF RPCs
<1>2. r = c /\ rpc[a][c] \in UnderWay
  <2>1. rpc[a][r] \in UnderWay
    BY DEF RPCStep, Start, NextInLine, Pending, Receive, GiveUp, Read, ReadTimesOut, UnderWay
  <2> QED
    BY <2>1 DEF OneCall, UnderWayAt
<1>3. ASSUME NEW p \in RPCPhases \ {"none"}, RPCGoes(a, r, p)
      PROVE  UnderWayAt(a)' \subseteq {c} /\ rpc'[a][c] = p /\ p # "none"
  <2>1. \A q \in RPCs : rpc'[a][q] = IF q = c THEN p ELSE rpc[a][q]
    BY <1>0, <1>2, <1>3, RPCGoesEffect
  <2> QED
    BY <1>1, <2>1 DEF OneCall, UnderWayAt
<1>4. \A q \in RPCs : /\ Head(<<Raised(q)>>).success = FALSE
                      /\ Head(<<Succeeded(q)>>) = Succeeded(q) /\ Tail(<<Succeeded(q)>>) = <<>>
                      /\ Head(<<Succeeded(q), Raised(q)>>) = Succeeded(q)
                      /\ Succeeded(q).success = TRUE /\ Succeeded(q).of = q
  BY ShortSequences DEF Raised, Succeeded
<1>5. CASE Start(a, r)
  <2>1. QueuesEmpty(a) /\ rpc[a][c] \in {"queued", "empty"}
    BY <1>2, <1>5 DEF OneCall, Start, NextInLine, Pending
  <2>2. CASE RPCGoes(a, r, "ok") /\ UNCHANGED requests /\ rpc[a][r] = "empty"
    BY <1>0, <1>2, <1>3, <1>5, <2>1, <2>2 DEF OneCall, QueuesEmpty, Start, RPCPhases
  <2>3. CASE RPCGoes(a, r, "failed")
    BY <1>0, <1>3, <2>3 DEF OneCall, RPCPhases
  <2>4. CASE requests' = [requests EXCEPT ![a] = Append(@, r)] /\ RPCGoes(a, r, "waiting")
    <3>1. Asked(a, c)'
      BY <1>0, <1>2, <1>5, <2>1, <2>4, ShortSequences
         DEF Asked, QueuesEmpty, TypeOK, EngineTypeOK, Start
    <3> QED
      BY <1>0, <1>3, <2>4, <3>1 DEF OneCall, RPCPhases
  <2> QED
    BY <1>5, <2>2, <2>3, <2>4 DEF Start
<1>6. CASE Receive(a, r)
  <2>1. Answered(a, c) /\ responses'[a] = Tail(responses[a]) /\ UNCHANGED <<requests, stream>>
    BY <1>0, <1>2, <1>6 DEF Receive, OneCall, Asked, TypeOK, EngineTypeOK
  <2>2. CASE responses[a] = <<Raised(c)>>
    <3>1. RPCGoes(a, r, "failed")
      BY <1>1, <1>4, <1>6, <2>2 DEF Receive
    <3> QED
      BY <1>0, <1>3, <3>1 DEF OneCall, RPCPhases
  <2>3. CASE responses[a] = <<Succeeded(c)>> /\ (kind = "sleep" => memory[a] = "asleep")
    <3>1. RPCGoes(a, r, IF kind # "generate" THEN "ok" ELSE "reading")
      BY <1>1, <1>2, <1>4, <1>6, <2>3 DEF Receive
    <3>2. QueuesEmpty(a)'
      BY <1>1, <1>4, <2>1, <2>3 DEF QueuesEmpty, Answered
    <3> QED
      BY <1>0, <1>3, <2>3, <3>1, <3>2 DEF OneCall, QueuesEmpty, RPCPhases
  <2>4. CASE responses[a] = <<Succeeded(c), Raised(c)>> /\ kind = "generate" /\ stream[a] = <<>>
    <3>1. RPCGoes(a, r, "reading")
      BY <1>1, <1>2, <1>4, <1>6, <2>4 DEF Receive
    <3> QED
      BY <1>0, <1>3, <2>1, <2>4, <3>1 DEF OneCall, Answered, RPCPhases
  <2> QED
    BY <1>1, <2>1, <2>2, <2>3, <2>4 DEF Answered
<1>7. CASE GiveUp(a, r) \/ ReadTimesOut(a, r)
  <2>1. RPCGoes(a, r, "failed")
    BY <1>7 DEF GiveUp, ReadTimesOut
  <2> QED
    BY <1>0, <1>3, <2>1 DEF OneCall, RPCPhases
<1>8. CASE Read(a, r)
  <2>1. RPCGoes(a, r, "ok") /\ UNCHANGED <<requests, responses>> /\ QueuesEmpty(a) /\ kind # "sleep"
    BY <1>2, <1>8 DEF Read, OneCall, QueuesEmpty
  <2> QED
    BY <1>0, <1>3, <2>1 DEF OneCall, QueuesEmpty, RPCPhases
<1> QED
  BY <1>5, <1>6, <1>7, <1>8 DEF RPCStep

\* The engine handles the request of the present call, or one that has failed
\* already.
LEMMA EngineStepKeepsTheCall ==
    ASSUME BatchInv, NEW a \in Actors, NEW kind \in Kinds, step \in Steps, OneCall(a, kind),
           EngineStep(a) \/ Die(a), UNCHANGED sidecarVars
    PROVE  OneCall(a, kind)'
<1> DEFINE c == <<kind, step>>
<1>0. TypeOK /\ step' = step /\ rpc' = rpc
  BY EngineStepTypes DEF BatchInv, sidecarVars
<1>1. c \in RPCs /\ c[1] = kind
  BY DEF RPCs
<1>2. UnderWayAt(a)' \subseteq {c} /\ rpc'[a][c] = rpc[a][c]
  BY <1>0 DEF OneCall, UnderWayAt
<1>3. CASE Die(a)
  <2>1. UNCHANGED <<requests, responses, stream>> /\ memory'[a] = "asleep"
    BY <1>0, <1>3 DEF Die, TypeOK, EngineTypeOK
  <2> QED
    BY <1>0, <1>2, <2>1 DEF OneCall, QueuesEmpty, Asked, Answered
<1>4. CASE EngineStep(a) /\ rpc[a][c] = "failed"
  BY <1>0, <1>2, <1>4 DEF OneCall
<1>5. CASE EngineStep(a) /\ rpc[a][c] # "failed"
  <2>1. rpc[a][c] = "waiting" /\ Asked(a, c)
    <3>1. requests[a] # <<>>
      BY <1>5 DEF EngineStep, Handle, HandlerRaises
    <3>2. rpc[a][c] \in RPCPhases
      BY <1>0, <1>1 DEF TypeOK, EngineTypeOK
    <3> QED
      BY <1>5, <3>1, <3>2 DEF OneCall, QueuesEmpty, Answered, RPCPhases
  <2>2. Head(requests[a]) = c /\ Tail(requests[a]) = <<>> /\ responses[a] = <<>>
    BY <2>1, ShortSequences DEF Asked
  <2>3. requests'[a] = <<>>
    <3>1. requests' = [requests EXCEPT ![a] = Tail(requests[a])]
      BY <1>5 DEF EngineStep, Handle, HandlerRaises
    <3> QED
      BY <1>0, <2>2, <3>1 DEF TypeOK, EngineTypeOK
  <2>4. Answered(a, c)'
    <3>1. CASE Handle(a)
      <4>1. responses'[a] = <<Succeeded(c)>>
        BY <1>0, <2>2, <3>1, ShortSequences DEF Handle, Answer, TypeOK, EngineTypeOK
      <4>2. kind = "sleep" => memory'[a] = "asleep"
        BY <1>0, <1>1, <2>2, <3>1 DEF Handle, TypeOK, EngineTypeOK
      <4> QED
        BY <1>0, <1>1, <2>3, <4>1, <4>2 DEF Answered, Succeeded
    <3>2. CASE HandlerRaises(a)
      <4>1. \/ responses'[a] = <<Raised(c)>>
            \/ responses'[a] = <<Succeeded(c), Raised(c)>> /\ kind = "generate"
        <5>1. \/ responses' = [responses EXCEPT ![a] = responses[a] \o <<Raised(c)>>]
              \/ /\ responses' = [responses EXCEPT ![a] = responses[a] \o <<Succeeded(c), Raised(c)>>]
                 /\ kind = "generate"
          BY <1>1, <2>2, <3>2 DEF HandlerRaises, Answer
        <5>2. /\ <<>> \o <<Raised(c)>> = <<Raised(c)>>
              /\ <<>> \o <<Succeeded(c), Raised(c)>> = <<Succeeded(c), Raised(c)>>
          BY ShortSequences
        <5> QED
          BY <1>0, <2>2, <5>1, <5>2 DEF TypeOK, EngineTypeOK
      <4>2. kind = "generate" => stream[a] = <<>> /\ stream' = stream
        <5>1. 1 \in DOMAIN requests[a] /\ requests[a][1] = c
          BY <2>1, ShortSequences DEF Asked
        <5> QED
          BY <1>1, <3>2, <5>1 DEF BatchInv, InOnePlace, HandlerRaises
      <4> QED
        BY <1>0, <1>1, <2>3, <4>1, <4>2 DEF Answered, Succeeded, Raised
    <3> QED
      BY <1>5, <3>1, <3>2 DEF EngineStep
  <2> QED
    BY <1>0, <1>2, <2>1, <2>4 DEF OneCall
<1> QED
  BY <1>3, <1>4, <1>5
\* The sidecar's next call of an actor that is done with the last one.
LEMMA SubmitOpensTheCall ==
    ASSUME TypeOK, NEW a \in Actors, NEW kind \in Kinds, NEW busy,
           step' \in Steps, Submit(kind, step', busy), kind = "sleep" => a \in busy,
           UnderWayAt(a) = {}, QueuesEmpty(a), UNCHANGED <<requests, responses>>
    PROVE  OneCall(a, kind)'
<1> DEFINE c == <<kind, step'>>
<1>1. c \in RPCs
  BY DEF RPCs
<1>2. \A q \in RPCs : rpc'[a][q] = IF q = c THEN IF a \in busy THEN "queued" ELSE "empty"
                                   ELSE rpc[a][q]
  BY SubmitEffect
<1>3. UnderWayAt(a)' \subseteq {c}
  BY <1>2 DEF UnderWayAt
<1>4. rpc'[a][c] \in {"queued", "empty"} /\ (kind = "sleep" => rpc'[a][c] = "queued")
  BY <1>1, <1>2
<1> QED
  BY <1>3, <1>4 DEF OneCall, QueuesEmpty

\* An actor whose call has returned is done with it.
LEMMA ReturnedCallIsOver ==
    ASSUME NEW a \in Actors, NEW kind \in Kinds, OneCall(a, kind), rpc[a][<<kind, step>>] = "ok"
    PROVE  UnderWayAt(a) = {} /\ QueuesEmpty(a)
BY DEF OneCall, UnderWayAt, UnderWay

LEMMA SleepNext ==
    ASSUME BatchInv, SleepInv, [Next]_vars
    PROVE  SleepInv'
<1> SUFFICES ASSUME OnTrack', NEW a \in Actors
             PROVE  ActorOnTrack(a)'
  BY DEF SleepInv
<1>0. TypeOK /\ StepBegun
  BY DEF BatchInv
<1>1. step \in Nat /\ (phase # "rollout" => step \in Steps)
  BY <1>0, EngineAssumption DEF TypeOK, StepBegun, Steps
<1>2. CASE SidecarStep
  <2>1. OnTrack /\ (Wake \/ Compute \/ Computed \/ Slept)
    <3>1. sleepOK' /\ ~doomed' /\ phase' # "dead"
      BY DEF OnTrack
    <3>2. ~WakeFails
      BY <3>1 DEF WakeFails
    <3>3. ~ComputeFails
      BY <3>1, Zenon DEF ComputeFails
    <3>4. ~SleepFails
      BY <3>1, Zenon DEF SleepFails
    <3>5. Wake \/ Compute \/ Computed \/ Slept
      BY <1>2, <3>2, <3>3, <3>4 DEF SidecarStep
    <3>6. sleepOK' = sleepOK /\ doomed' = doomed /\ phase # "dead"
      BY <3>5 DEF Wake, Compute, Computed, GoToSleep, Slept
    <3>7. sleepOK /\ ~doomed
      BY <3>1, <3>6, Zenon
    <3> QED
      BY <3>5, <3>6, <3>7 DEF OnTrack
  <2>2. ActorOnTrack(a)
    BY <2>1 DEF SleepInv
  <2>3. CASE Wake
    <3>1. OneCall(a, "wakeup")'
      <4>1. step' \in Steps /\ Submit("wakeup", step', Actors) /\ UNCHANGED <<requests, responses>>
        BY <1>0, <2>3, SidecarSubmits DEF Wake
      <4>2. UnderWayAt(a) = {} /\ QueuesEmpty(a)
        BY <2>2, <2>3 DEF Wake, ActorOnTrack
      <4> QED
        BY <1>0, <4>1, <4>2, SubmitOpensTheCall DEF Kinds
    <3> QED
      BY <2>3, <3>1 DEF Wake, ActorOnTrack
  <2>4. CASE Compute
    <3>1. OneCall(a, "generate")'
      <4>1. PICK busy \in SUBSET Actors : Submit("generate", step', busy)
        BY <2>4 DEF Compute
      <4>2. step' \in Steps /\ UNCHANGED <<requests, responses>>
        BY <1>0, <2>4, SidecarSubmits DEF Compute
      <4>3. OneCall(a, "wakeup") /\ rpc[a][<<"wakeup", step>>] = "ok"
        BY <2>2, <2>4 DEF Compute, ActorOnTrack, All
      <4> QED
        BY <1>0, <4>1, <4>2, <4>3, ReturnedCallIsOver, SubmitOpensTheCall DEF Kinds
    <3> QED
      BY <2>4, <3>1 DEF Compute, ActorOnTrack
  <2>5. CASE Computed
    <3>1. OneCall(a, "sleep")'
      <4>1. step' \in Steps /\ Submit("sleep", step', Actors) /\ UNCHANGED <<requests, responses>>
        BY <1>0, <2>5, SidecarSubmits DEF Computed, GoToSleep
      <4>2. OneCall(a, "generate") /\ rpc[a][<<"generate", step>>] = "ok"
        BY <2>2, <2>5 DEF Computed, ActorOnTrack, All
      <4> QED
        BY <1>0, <4>1, <4>2, ReturnedCallIsOver, SubmitOpensTheCall DEF Kinds
    <3> QED
      BY <2>5, <3>1 DEF Computed, GoToSleep, ActorOnTrack
  <2>6. CASE Slept
    <3>1. /\ OneCall(a, "sleep") /\ rpc[a][<<"sleep", step>>] = "ok" /\ phase' = "rollout"
          /\ UNCHANGED engineVars
      BY <2>1, <2>2, <2>6 DEF Slept, Returns, ActorOnTrack, All, OnTrack
    <3>2. UnderWayAt(a) = {} /\ QueuesEmpty(a) /\ memory[a] = "asleep"
      BY <3>1, ReturnedCallIsOver DEF OneCall, Kinds
    <3> QED
      BY <3>1, <3>2 DEF ActorOnTrack, UnderWayAt, QueuesEmpty, engineVars
  <2> QED
    BY <2>1, <2>3, <2>4, <2>5, <2>6
<1>3. CASE UNCHANGED vars
  BY <1>3 DEF SleepInv, OnTrack, ActorOnTrack, OneCall, UnderWayAt, QueuesEmpty, Asked, Answered,
              vars, engineVars, sidecarVars
<1>4. ASSUME NEW b \in Actors, EngineStep(b) \/ Die(b) \/ (\E r \in RPCs : RPCStep(b, r)),
             UNCHANGED sidecarVars
      PROVE  ActorOnTrack(a)'
  <2>1. ActorOnTrack(a) /\ phase' = phase
    BY <1>4 DEF SleepInv, OnTrack, sidecarVars
  <2>2. CASE a # b
    <3>1. /\ rpc'[a] = rpc[a] /\ requests'[a] = requests[a] /\ responses'[a] = responses[a]
          /\ stream'[a] = stream[a] /\ memory'[a] = memory[a]
      BY <1>0, <1>4, <2>2, EngineStepTypes, RPCStepTypes
    <3> QED
      BY <1>4, <2>1, <3>1 DEF ActorOnTrack, OneCall, UnderWayAt, QueuesEmpty, Asked, Answered,
                              sidecarVars
  \* During a rollout there is nothing for an actor or an engine to do but die.
  <2>3. CASE a = b /\ phase = "rollout"
    <3>1. UnderWayAt(a) = {} /\ QueuesEmpty(a) /\ memory[a] = "asleep"
      BY <2>1, <2>3 DEF ActorOnTrack
    <3>2. \A r \in RPCs : ~RPCStep(a, r)
      BY <3>1 DEF UnderWayAt, UnderWay, RPCStep, Start, NextInLine, Pending, Receive, GiveUp, Read,
                  ReadTimesOut
    <3>3. ~EngineStep(a)
      BY <3>1 DEF QueuesEmpty, EngineStep, Handle, HandlerRaises
    <3>4. memory'[a] = "asleep" /\ UNCHANGED <<rpc, requests, responses>>
      BY <1>0, <1>4, <2>3, <3>2, <3>3 DEF Die, TypeOK, EngineTypeOK
    <3> QED
      BY <2>1, <2>3, <3>1, <3>4 DEF ActorOnTrack, UnderWayAt, QueuesEmpty
  <2>4. ASSUME NEW kind \in Kinds, OneCall(a, kind), a = b, phase # "rollout"
        PROVE  OneCall(a, kind)'
    BY <1>1, <1>4, <2>4, EngineStepKeepsTheCall, RPCStepKeepsTheCall
  <2>5. CASE a = b /\ phase # "rollout"
    <3>1. /\ phase = "waking" => OneCall(a, "wakeup")'
          /\ phase = "computing" => OneCall(a, "generate")'
          /\ phase = "sleeping" => OneCall(a, "sleep")'
      BY <2>1, <2>4, <2>5 DEF ActorOnTrack, Kinds
    <3> QED
      BY <2>1, <2>5, <3>1 DEF ActorOnTrack
  <2> QED
    BY <2>2, <2>3, <2>5
<1> QED
  BY <1>2, <1>3, <1>4 DEF Next

THEOREM SleepInvariant == Spec => [](BatchInv /\ SleepInv)
<1>1. Init => SleepInv
  <2> SUFFICES ASSUME Init, NEW a \in Actors
               PROVE  ActorOnTrack(a)
    BY DEF SleepInv
  <2>1. /\ phase = "rollout" /\ requests[a] = <<>> /\ responses[a] = <<>> /\ memory[a] = "asleep"
        /\ \A r \in RPCs : rpc[a][r] = "none"
    BY DEF Init, EngineInit
  <2> QED
    BY <2>1 DEF ActorOnTrack, UnderWayAt, UnderWay, QueuesEmpty
<1>2. BatchInv /\ SleepInv /\ [Next]_vars => SleepInv'
  BY SleepNext
<1> QED
  BY <1>1, <1>2, BatchInvariant, PTL DEF Spec

\* While the student's rollout runs, no engine holds GPU memory, provided every
\* sleep so far was reported as done: whatever was late, crossed, had raised or
\* had died in the steps before.
THEOREM MemoryIsFreeDuringRollout == Spec => []AsleepDuringRollout
<1>1. BatchInv /\ SleepInv => AsleepDuringRollout
  BY DEF BatchInv, StepBegun, SleepInv, OnTrack, ActorOnTrack, AsleepDuringRollout
<1> QED
  BY <1>1, SleepInvariant, PTL

-----------------------------------------------------------------------------
(***************************************************************************)
(* The refinement of TeacherCalls.  What NoStaleBatch leaves open is that  *)
(* a batch is given to the trainer at all: as long as its engines are at   *)
(* work some actor that was sent a part of the batch has it still before   *)
(* it, has failed, or has its hidden states; so when all have answered ok, *)
(* there are some, and BatchInv says whose.                                *)
(***************************************************************************)
WorkDone ==
    phase = "computing" =>
        \E a \in Actors : \/ rpc[a][Generate(step)] \in {"queued", "waiting", "reading", "failed"}
                          \/ received[a][step] = step

LEMMA WorkNext ==
    ASSUME BatchInv, WorkDone, [Next]_vars
    PROVE  WorkDone'
<1>0. TypeOK /\ StepBegun
  BY DEF BatchInv
<1> SUFFICES ASSUME phase' = "computing"
             PROVE  WorkDone'
  BY DEF WorkDone
<1>1. CASE Compute
  <2>1. PICK busy \in (SUBSET Actors) \ {{}} : Submit("generate", step, busy)
    BY <1>1 DEF Compute
  <2>2. PICK a \in Actors : a \in busy
    BY <2>1
  <2>3. step' = step /\ step' \in Steps /\ Generate(step) = <<"generate", step>>
    BY <1>0, <1>1, SidecarSubmits DEF Compute, Generate
  <2>4. rpc'[a][Generate(step)] = "queued"
    <3>1. \A b \in Actors, q \in RPCs :
              rpc'[b][q] = IF q = <<"generate", step>> THEN IF b \in busy THEN "queued" ELSE "empty"
                           ELSE rpc[b][q]
      BY <1>0, <2>1, <2>3, SubmitEffect DEF Kinds
    <3> QED
      BY <2>2, <2>3, <3>1, GenerateIsAnRPC
  <2> QED
    BY <2>2, <2>3, <2>4 DEF WorkDone
<1>2. CASE SidecarStep /\ ~Compute
  <2>1. phase' # "computing"
    BY <1>2 DEF SidecarStep, Wake, WakeFails, Computed, ComputeFails, GoToSleep, Slept, SleepFails,
                Returns
  <2> QED
    BY <2>1
<1>3. CASE UNCHANGED vars
  BY <1>3 DEF WorkDone, vars, engineVars, sidecarVars
<1>4. ASSUME NEW b \in Actors, EngineStep(b) \/ Die(b) \/ (\E r \in RPCs : RPCStep(b, r)),
             UNCHANGED sidecarVars
      PROVE  WorkDone'
  <2>1. phase = "computing" /\ step' = step /\ phase' = phase
    BY <1>4 DEF sidecarVars
  <2>2. step \in Steps
    BY <1>0, <2>1 DEF TypeOK, StepBegun, Steps
  <2>3. PICK a \in Actors :
            \/ rpc[a][Generate(step)] \in {"queued", "waiting", "reading", "failed"}
            \/ received[a][step] = step
    BY <2>1 DEF WorkDone
  <2>4. CASE rpc'[a] = rpc[a] /\ received'[a] = received[a]
    BY <2>1, <2>3, <2>4 DEF WorkDone
  <2>5. ASSUME NEW r \in RPCs, RPCStep(b, r), a = b
        PROVE  WorkDone'
    <3>1. OwnBatch(a) /\ InOnePlace(a) /\ StepsInOrder(a)
      BY DEF BatchInv
    <3>2. \A p \in RPCPhases : RPCGoes(a, r, p) =>
              \A q \in RPCs : rpc'[a][q] = IF q = r THEN p ELSE rpc[a][q]
      BY <1>0, RPCGoesEffect
    <3>3. Generate(step) \in RPCs /\ (r[1] = "generate" => r = Generate(r[2]) /\ r[2] \in Steps)
      BY <2>2, GenerateIsAnRPC
    <3>4. CASE Read(a, r)
      <4>1. /\ rpc[a][r] = "reading" /\ stream[a] # <<>>
            /\ received' = [received EXCEPT ![a][r[2]] = Head(stream[a])]
        BY <3>4 DEF Read
      <4>2. r[1] = "generate"
        BY <3>1, <4>1 DEF OwnBatch
      <4>3. r[2] = step
        BY <3>1, <3>3, <4>1, <4>2, <1>0 DEF StepsInOrder, TypeOK, Steps
      <4>4. Head(stream[a]) = step
        <5>1. OnTheWay(a, Head(stream[a])) /\ Head(stream[a]) \in Steps
          BY <1>0, <3>1, <4>1, QueueTypes DEF InOnePlace
        <5> QED
          BY <1>0, <3>1, <5>1 DEF OnTheWay, StepsInOrder, TypeOK, Steps
      <4>5. received'[a][step] = step
        BY <1>0, <2>2, <4>1, <4>3, <4>4 DEF TypeOK, EngineTypeOK
      <4> QED
        BY <2>1, <4>5 DEF WorkDone
    <3>5. CASE ~Read(a, r)
      <4>1. received' = received
        BY <2>5, <3>5 DEF RPCStep, Start, Receive, GiveUp, ReadTimesOut
      <4>2. ASSUME rpc[a][Generate(step)] \in {"queued", "waiting", "reading", "failed"},
                   r = Generate(step)
            PROVE  \E p \in {"waiting", "reading", "failed"} : RPCGoes(a, r, p)
        <5>1. r[1] = "generate"
          BY <2>2, <4>2, GenerateIsAnRPC
        <5> QED
          BY <2>5, <3>5, <4>2, <5>1 DEF RPCStep, Start, Receive, GiveUp, ReadTimesOut
      <4>3. \E p \in RPCPhases : RPCGoes(a, r, p)
        BY <2>5 DEF RPCStep, Start, Receive, GiveUp, Read, ReadTimesOut, RPCPhases
      <4>4. rpc[a][Generate(step)] \in {"queued", "waiting", "reading", "failed"} =>
            rpc'[a][Generate(step)] \in {"queued", "waiting", "reading", "failed"}
        <5>1. CASE r = Generate(step)
          BY <3>2, <3>3, <4>2, <5>1 DEF RPCPhases
        <5>2. CASE r # Generate(step)
          BY <3>2, <3>3, <4>3, <5>2
        <5> QED
          BY <5>1, <5>2
      <4> QED
        BY <2>1, <2>3, <4>1, <4>4 DEF WorkDone
    <3> QED
      BY <3>4, <3>5
  <2> QED
    BY <1>0, <1>4, <2>4, <2>5, EngineStepTypes, RPCStepTypes
<1> QED
  BY <1>1, <1>2, <1>3, <1>4 DEF Next

\* Nobody writes to what has been given to the trainer.
LEMMA ReturnedIsKept ==
    ASSUME BatchInv, [Next]_vars, NEW a \in Actors, NEW s \in Steps, Delivered(s)
    PROVE  received'[a][s] = received[a][s]
<1>0. TypeOK /\ StepsInOrder(a) /\ OwnBatch(a)
  BY DEF BatchInv
<1>1. rpc[a][Generate(s)] = "ok"
  BY <1>0 DEF StepsInOrder, Delivered
<1>2. CASE received'[a] = received[a]
  BY <1>2
<1>3. ASSUME NEW r \in RPCs, RPCStep(a, r)
      PROVE  received'[a][s] = received[a][s]
  <2>1. CASE received' = received
    BY <2>1
  <2>2. CASE Read(a, r)
    <3>1. r # Generate(s) /\ r = Generate(r[2]) /\ r[2] \in Steps
      BY <1>0, <1>1, <2>2, GenerateIsAnRPC DEF Read, OwnBatch
    <3>2. r[2] # s
      BY <3>1
    <3>3. received' = [received EXCEPT ![a][r[2]] = Head(stream[a])]
      BY <2>2 DEF Read
    <3> QED
      BY <1>0, <3>2, <3>3 DEF TypeOK, EngineTypeOK
  <2> QED
    BY <1>3, <2>1, <2>2 DEF RPCStep, Start, Receive, GiveUp, ReadTimesOut
<1>4. CASE SidecarStep \/ UNCHANGED vars
  BY <1>4 DEF SidecarStep, Wake, WakeFails, Compute, Computed, ComputeFails, GoToSleep, Slept,
              SleepFails, vars, engineVars
<1>5. ASSUME NEW b \in Actors, EngineStep(b) \/ Die(b) \/ (\E r \in RPCs : RPCStep(b, r))
      PROVE  received'[a][s] = received[a][s]
  BY <1>0, <1>3, <1>5, EngineStepTypes, RPCStepTypes
<1> QED
  BY <1>4, <1>5 DEF Next

\* What the trainer has been given stays as it is, while no further step counts
\* as answered.
LEMMA ReturnedUnlessDelivered ==
    ASSUME BatchInv, [Next]_vars, \A s \in Steps : Delivered(s)' <=> Delivered(s)
    PROVE  Returned' = Returned
<1> DEFINE Of(s) == {received[a][s] : a \in Actors} \ {0}
<1>1. \A s \in Steps : Delivered(s) => Of(s)' = Of(s)
  BY ReturnedIsKept
<1>2. Returned = [s \in Steps |-> IF Delivered(s) THEN Of(s) ELSE {}]
  BY DEF Returned
<1>3. Returned' = [s \in Steps |-> IF Delivered(s)' THEN Of(s)' ELSE {}]
  BY DEF Returned
<1>4. \A s \in Steps : (IF Delivered(s)' THEN Of(s)' ELSE {}) = (IF Delivered(s) THEN Of(s) ELSE {})
  BY <1>1
<1> HIDE DEF Of
<1> QED
  BY <1>2, <1>3, <1>4

\* When all engines have answered, what they answered is the batch of the step.
LEMMA ComputedDelivers ==
    ASSUME BatchInv, WorkDone, Computed
    PROVE  Returned' = [Returned EXCEPT ![step] = {step}]
<1>0. TypeOK /\ StepBegun /\ \A a \in Actors : OwnBatch(a)
  BY DEF BatchInv
<1>1. /\ phase = "computing" /\ phase' = "sleeping" /\ step' = step /\ doomed' = doomed
      /\ received' = received /\ ~doomed
      /\ \A a \in Actors : rpc[a][Generate(step)] = "ok"
  BY <1>0 DEF Computed, GoToSleep, All, StepBegun, Generate
<1>2. step \in Steps /\ step # 0 /\ step \in Nat /\ \A s \in Steps : s \in Nat
  BY <1>0, <1>1, EngineAssumption DEF TypeOK, StepBegun, Steps
<1>3. \A s \in Steps : /\ Delivered(s) <=> s < step
                       /\ Delivered(s)' <=> s < step \/ s = step
  BY <1>1, <1>2 DEF Delivered
<1>4. {received[a][step] : a \in Actors} \ {0} = {step}
  <2>1. \A a \in Actors : received[a][step] \in {0, step}
    BY <1>0, <1>2 DEF OwnBatch
  <2>2. \E a \in Actors : received[a][step] = step
    BY <1>1 DEF WorkDone
  <2> QED
    BY <1>2, <2>1, <2>2
<1> DEFINE Of(s) == {received[a][s] : a \in Actors} \ {0}
<1>5. Returned = [s \in Steps |-> IF Delivered(s) THEN Of(s) ELSE {}]
  BY DEF Returned
<1>6. Returned' = [s \in Steps |-> IF Delivered(s)' THEN Of(s) ELSE {}]
  BY <1>1 DEF Returned
<1>7. Of(step) = {step}
  BY <1>4
<1> HIDE DEF Of
<1> QED
  BY <1>2, <1>3, <1>5, <1>6, <1>7

\* Every step of the sidecar, its actors and engines is one of TeacherCalls, or
\* none.
LEMMA CallsStep ==
    ASSUME BatchInv, SleepInv, WorkDone, SleepInv', BatchInv', [Next]_vars
    PROVE  [Calls!CallsNext]_(Calls!callVars)
<1> USE DEF Calls!CallsNext, Calls!callVars, Calls!Call, Calls!Deliver, Calls!Fail, Calls!End,
            Calls!Return, Calls!MemoryChanges
<1>0. TypeOK /\ StepBegun
  BY DEF BatchInv
<1>1. step \in Nat /\ \A s \in Steps : s \in Nat \ {0}
  BY <1>0, EngineAssumption DEF TypeOK, Steps
<1>2. /\ AsleepDuringRollout
      /\ phase' = "rollout" /\ sleepOK' => MemoryFree'
  <2>1. AsleepDuringRollout
    BY DEF BatchInv, StepBegun, SleepInv, OnTrack, ActorOnTrack, AsleepDuringRollout
  <2>2. AsleepDuringRollout'
    BY DEF BatchInv, StepBegun, SleepInv, OnTrack, ActorOnTrack, AsleepDuringRollout
  <2> QED
    BY <2>1, <2>2 DEF AsleepDuringRollout, MemoryFree
<1>3. (\A s \in Steps : Delivered(s)' <=> Delivered(s)) => Returned' = Returned
  BY ReturnedUnlessDelivered
<1>4. memory' = memory => MemoryFree' = MemoryFree
  BY DEF MemoryFree
<1>5. CASE Wake
  <2>1. Job = "training" /\ Job' = "calling" /\ step < MaxSteps /\ step' = step + 1
    BY <1>5 DEF Wake, Job
  <2>2. \A s \in Steps : Delivered(s)' <=> Delivered(s)
    BY <1>0, <1>1, <1>5 DEF Wake, Delivered, StepBegun
  <2> QED
    BY <1>3, <1>4, <1>5, <2>1, <2>2 DEF Wake
<1>6. CASE WakeFails \/ Compute
  <2>1. /\ Job = "calling" /\ Job' = IF WakeFails THEN "ended" ELSE "calling"
        /\ step' = step /\ memory' = memory /\ sleepOK' = sleepOK
    BY <1>6 DEF WakeFails, Compute, Job, engineVars
  <2>2. \A s \in Steps : Delivered(s)' <=> Delivered(s)
    BY <1>6 DEF WakeFails, Compute, Delivered
  <2> QED
    BY <1>3, <1>4, <2>1, <2>2
<1>7. CASE Computed
  <2>1. Job = "calling" /\ Job' = "returning"
    BY <1>0, <1>7 DEF Computed, GoToSleep, Job, StepBegun
  <2>2. Returned' = [Returned EXCEPT ![step] = {step}]
    BY <1>7, ComputedDelivers
  <2>3. step' = step /\ memory' = memory /\ sleepOK' = sleepOK
    BY <1>7 DEF Computed, GoToSleep
  <2> QED
    BY <1>4, <2>1, <2>2, <2>3
<1>8. CASE ComputeFails
  <2>1. /\ Job = "calling" /\ Job' = "failing"
        /\ step' = step /\ memory' = memory /\ sleepOK' = sleepOK
    BY <1>8 DEF ComputeFails, GoToSleep, Job
  <2>2. \A s \in Steps : Delivered(s)' <=> Delivered(s)
    BY <1>8 DEF ComputeFails, GoToSleep, Delivered
  <2> QED
    BY <1>3, <1>4, <2>1, <2>2
<1>9. CASE Slept \/ SleepFails
  <2>1. /\ Job = (IF doomed THEN "failing" ELSE "returning")
        /\ Job' = (IF doomed THEN "ended" ELSE "training")
        /\ step' = step /\ memory' = memory /\ (sleepOK' = sleepOK \/ sleepOK' = FALSE)
        /\ ~doomed => phase' = "rollout"
    BY <1>9 DEF Slept, SleepFails, Returns, Job, engineVars
  <2>2. \A s \in Steps : Delivered(s)' <=> Delivered(s)
    BY <1>9 DEF Slept, SleepFails, Returns, Delivered
  <2>3. MemoryFree' = MemoryFree /\ Returned' = Returned
    BY <1>3, <1>4, <2>1, <2>2
  <2>4. (~sleepOK)' \in {~sleepOK, TRUE}
    <3>1. sleepOK' = sleepOK \/ sleepOK' = FALSE
      BY <2>1
    <3> QED
      BY <3>1, Zenon
  <2>5. ~doomed => MemoryFree \/ ~sleepOK'
    BY <1>2, <2>1, <2>3
  <2> QED
    BY <2>1, <2>3, <2>4, <2>5
<1>10. CASE UNCHANGED sidecarVars
  <2>1. Job' = Job /\ step' = step /\ sleepOK' = sleepOK /\ phase' = phase
    BY <1>10 DEF sidecarVars, Job
  <2>2. \A s \in Steps : Delivered(s)' <=> Delivered(s)
    BY <1>10 DEF sidecarVars, Delivered
  <2>3. CASE phase = "rollout" /\ sleepOK
    <3>1. MemoryFree /\ MemoryFree'
      BY <1>2, <2>1, <2>3 DEF AsleepDuringRollout, MemoryFree
    <3> QED
      BY <1>3, <2>1, <2>2, <3>1
  <2>4. CASE ~(phase = "rollout" /\ sleepOK)
    <3>1. Job # "training" \/ ~sleepOK
      BY <2>4 DEF Job
    <3>2. MemoryFree' \in BOOLEAN
      BY DEF MemoryFree
    <3> QED
      BY <1>3, <2>1, <2>2, <3>1, <3>2
  <2> QED
    BY <2>3, <2>4
<1> QED
  BY <1>5, <1>6, <1>7, <1>8, <1>9, <1>10 DEF Next, SidecarStep, vars

\* Whatever is late, crossed, raises or dies among any number of engines, the
\* trainer sees calls that return their own batch or end the job, and finds the
\* memory free between them until a sleep has failed.
THEOREM SidecarImplementsCalls == Spec => ImplementsTeacherCalls
<1>1. Init => Calls!CallsInit
  <2> SUFFICES ASSUME Init PROVE Calls!CallsInit
    OBVIOUS
  <2>1. /\ phase = "rollout" /\ step = 0 /\ sleepOK = TRUE
        /\ \A a \in Actors : memory[a] = "asleep"
    BY DEF Init, EngineInit
  <2>2. \A s \in Steps : ~Delivered(s)
    BY <2>1, EngineAssumption DEF Delivered, Steps
  <2>3. Returned = [s \in 1..MaxSteps |-> {}]
    BY <2>2 DEF Returned, Steps
  <2> QED
    BY <2>1, <2>3 DEF Calls!CallsInit, Job, MemoryFree
<1>2. Init => WorkDone
  BY DEF Init, WorkDone
<1>3. BatchInv /\ WorkDone /\ [Next]_vars => WorkDone'
  BY WorkNext
<1>4. BatchInv /\ SleepInv /\ WorkDone /\ SleepInv' /\ BatchInv' /\ [Next]_vars
          => [Calls!CallsNext]_(Calls!callVars)
  BY CallsStep
<1> QED
  BY <1>1, <1>2, <1>3, <1>4, SleepInvariant, PTL
     DEF Spec, ImplementsTeacherCalls, Calls!CallsSpec

-----------------------------------------------------------------------------
(***************************************************************************)
(* How TeacherBatching deals a batch: after every sample, no actor has     *)
(* more than the largest sample beyond any other, and as long as every     *)
(* sample has tokens those that have none yet come first.                  *)
(***************************************************************************)
DealtUpTo(m, counts, n, d) ==
    d = [i \in 0..m |-> IF i = 0 THEN NothingDealt(n) ELSE Deal(counts, d[i-1], i)]
Dealt(counts, n, d) == DealtUpTo(Len(counts), counts, n, d)

Deals(n) == [samples : [1..n -> Seq(Nat)], load : [1..n -> Nat]]
Busy(d, n) == {a \in 1..n : d.samples[a] # <<>>}

\* The deal so far is fair, after i samples of at most largest tokens each; and
\* if no sample is empty, actors are idle only while there are fewer samples.
FairDeal(d, n, largest) ==
    \A a, b \in 1..n : d.load[a] <= d.load[b] + largest
NoneIdle(d, n, i) ==
    /\ \A a \in 1..n : d.samples[a] = <<>> <=> d.load[a] = 0
    /\ Cardinality(Busy(d, n)) >= i \/ Busy(d, n) = 1..n

\* There is a least loaded actor.
LEMMA LeastLoadedActor ==
    ASSUME NEW n \in Nat \ {0}, NEW load \in [1..n -> Nat]
    PROVE  /\ LeastLoaded(load) \in 1..n
           /\ \A b \in 1..n : load[LeastLoaded(load)] <= load[b]
<1> DEFINE B == {load[a] : a \in 1..n}
<1>1. PICK m \in B : \A k \in B : m <= k
  <2>1. B \in SUBSET Nat /\ B # {}
    <3>1. load[1] \in B
      OBVIOUS
    <3> QED
      BY <3>1
  <2> HIDE DEF B
  <2> QED
    BY <2>1, FirstOne
<1> DEFINE A == {a \in 1..n : load[a] = m}
<1>2. PICK a \in A : \A k \in A : a <= k
  <2>1. A \in SUBSET Nat /\ A # {}
    OBVIOUS
  <2> HIDE DEF A
  <2> QED
    BY <2>1, FirstOne
<1>3. /\ a \in DOMAIN load
      /\ \A b \in DOMAIN load : load[a] < load[b] \/ (load[a] = load[b] /\ a <= b)
  <2>1. a \in 1..n /\ load[a] = m /\ DOMAIN load = 1..n /\ m \in Nat
    OBVIOUS
  <2>2. ASSUME NEW b \in 1..n
        PROVE  load[a] < load[b] \/ (load[a] = load[b] /\ a <= b)
    <3>1. m <= load[b] /\ load[b] \in Nat
      BY <1>1
    <3>2. load[b] = m => a <= b
      BY <1>2
    <3> QED
      BY <2>1, <3>1, <3>2
  <2> QED
    BY <2>1, <2>2
<1> DEFINE l == LeastLoaded(load)
<1>4. /\ l \in DOMAIN load
      /\ \A b \in DOMAIN load : load[l] < load[b] \/ (load[l] = load[b] /\ l <= b)
  BY <1>3 DEF LeastLoaded
<1>5. DOMAIN load = 1..n /\ \A b \in 1..n : load[b] \in Nat
  OBVIOUS
<1> HIDE DEF l
<1> QED
  BY <1>4, <1>5 DEF l

\* A sample goes to the least loaded actor, which keeps the deal fair.
LEMMA DealStaysFair ==
    ASSUME NEW n \in Nat \ {0}, NEW largest \in Nat, NEW counts, NEW i \in Nat \ {0},
           counts[i] \in Nat, counts[i] <= largest,
           NEW d \in Deals(n), FairDeal(d, n, largest)
    PROVE  LET e == Deal(counts, d, i) IN
           /\ e \in Deals(n)
           /\ FairDeal(e, n, largest)
           /\ counts[i] > 0 /\ NoneIdle(d, n, i-1) => NoneIdle(e, n, i)
<1> DEFINE l == LeastLoaded(d.load)
           e == Deal(counts, d, i)
<1>1. d.load \in [1..n -> Nat] /\ d.samples \in [1..n -> Seq(Nat)]
  BY DEF Deals
<1>2. l \in 1..n /\ \A b \in 1..n : d.load[l] <= d.load[b]
  BY <1>1, LeastLoadedActor
<1>3. e = [samples |-> [d.samples EXCEPT ![l] = Append(@, i)],
           load |-> [d.load EXCEPT ![l] = @ + counts[i]]]
  BY DEF Deal
<1> HIDE DEF l, e
<1>4. /\ e.samples = [d.samples EXCEPT ![l] = Append(@, i)]
      /\ e.load = [d.load EXCEPT ![l] = @ + counts[i]]
  BY <1>3
<1>5. Append(d.samples[l], i) \in Seq(Nat) /\ Append(d.samples[l], i) # <<>>
  <2>1. d.samples[l] \in Seq(Nat)
    BY <1>1, <1>2
  <2> QED
    BY <2>1, AppendProperties
<1>6. /\ e.load \in [1..n -> Nat] /\ e.samples \in [1..n -> Seq(Nat)]
      /\ e.load[l] = d.load[l] + counts[i] /\ e.samples[l] # <<>>
      /\ \A b \in 1..n : b # l => e.load[b] = d.load[b] /\ e.samples[b] = d.samples[b]
  <2> DEFINE load == d.load
             samples == d.samples
             x == Append(samples[l], i)
  <2>1. load \in [1..n -> Nat] /\ samples \in [1..n -> Seq(Nat)] /\ x \in Seq(Nat) /\ x # <<>>
    BY <1>1, <1>5
  <2>2. e.samples = [samples EXCEPT ![l] = x] /\ e.load = [load EXCEPT ![l] = @ + counts[i]]
    BY <1>4
  <2> HIDE DEF load, samples, x
  <2>3. /\ e.load \in [1..n -> Nat] /\ e.load[l] = load[l] + counts[i]
        /\ \A b \in 1..n : b # l => e.load[b] = load[b]
    BY <1>2, <2>1, <2>2
  <2>4. /\ e.samples \in [1..n -> Seq(Nat)] /\ e.samples[l] = x
        /\ \A b \in 1..n : b # l => e.samples[b] = samples[b]
    BY <1>2, <2>1, <2>2
  <2> QED
    BY <2>1, <2>3, <2>4 DEF load, samples
<1>7. e \in Deals(n)
  BY <1>3, <1>4, <1>6 DEF Deals
<1>8. \A b \in 1..n : d.load[b] \in Nat /\ e.load[b] \in Nat
  BY <1>1, <1>6
<1>9. FairDeal(e, n, largest)
  <2> SUFFICES ASSUME NEW a \in 1..n, NEW b \in 1..n
               PROVE  e.load[a] <= e.load[b] + largest
    BY DEF FairDeal
  <2>1. d.load[a] <= d.load[b] + largest /\ d.load[l] <= d.load[b]
    BY <1>2 DEF FairDeal
  <2>2. e.load[a] = IF a = l THEN d.load[l] + counts[i] ELSE d.load[a]
    BY <1>6
  <2>3. e.load[b] = IF b = l THEN d.load[l] + counts[i] ELSE d.load[b]
    BY <1>6
  <2>4. d.load[a] \in Nat /\ d.load[b] \in Nat /\ d.load[l] \in Nat
    BY <1>2, <1>8
  <2> QED
    BY <2>1, <2>2, <2>3, <2>4
<1>10. ASSUME counts[i] > 0, NoneIdle(d, n, i-1)
       PROVE  NoneIdle(e, n, i)
  <2>1. e.load[l] # 0
    BY <1>2, <1>6, <1>8, <1>10
  <2>2. \A a \in 1..n : e.samples[a] = <<>> <=> e.load[a] = 0
    BY <1>6, <1>10, <2>1 DEF NoneIdle
  <2>3. Busy(e, n) = Busy(d, n) \cup {l}
    BY <1>2, <1>6 DEF Busy
  <2>4. IsFiniteSet(Busy(d, n)) /\ Cardinality(Busy(d, n)) \in Nat
    <3>1. IsFiniteSet(1..n) /\ Busy(d, n) \in SUBSET (1..n)
      BY FS_Interval DEF Busy
    <3> QED
      BY <3>1, FS_Subset, FS_CardinalityType
  <2>5. CASE Busy(d, n) = 1..n
    BY <1>2, <2>2, <2>3, <2>5 DEF NoneIdle
  <2>6. CASE Busy(d, n) # 1..n
    <3>1. PICK b \in 1..n : b \notin Busy(d, n)
      BY <2>6 DEF Busy
    <3>2. d.load[b] = 0
      BY <1>10, <3>1 DEF NoneIdle, Busy
    <3>3. d.load[l] = 0
      BY <1>2, <1>8, <3>2
    <3>4. l \notin Busy(d, n)
      BY <1>2, <1>10, <3>3 DEF NoneIdle, Busy
    <3>5. Cardinality(Busy(e, n)) = Cardinality(Busy(d, n)) + 1
      BY <2>3, <2>4, <3>4, FS_AddElement
    <3>6. Cardinality(Busy(d, n)) >= i-1
      BY <1>10, <2>6 DEF NoneIdle
    <3>7. Cardinality(Busy(e, n)) >= i
      BY <2>4, <3>5, <3>6
    <3> QED
      BY <2>2, <3>7 DEF NoneIdle
  <2> QED
    BY <2>5, <2>6
<1> QED
  BY <1>7, <1>9, <1>10 DEF e
\* There is a deal of every batch, sample by sample.
LEMMA DealExists ==
    ASSUME NEW m \in Nat, NEW counts, NEW n
    PROVE  \E d : DealtUpTo(m, counts, n, d)
<1> DEFINE Upto(k, d) ==
               d = [i \in 0..k |-> IF i = 0 THEN NothingDealt(n) ELSE Deal(counts, d[i-1], i)]
           B == {k \in Nat : ~\E d : Upto(k, d)}
<1> SUFFICES ASSUME B # {} PROVE FALSE
  BY Zenon DEF DealtUpTo
<1>1. PICK k \in B : \A j \in B : k <= j
  <2> HIDE DEF B
  <2>1. B \in SUBSET Nat
    BY DEF B
  <2> QED
    BY <2>1, FirstOne
<1>2. k \in Nat /\ ~\E d : Upto(k, d)
  OBVIOUS
<1>3. k # 0
  <2> DEFINE d == [i \in 0..0 |-> NothingDealt(n)]
  <2>1. Upto(0, d)
    OBVIOUS
  <2> HIDE DEF Upto
  <2> QED
    BY <1>2, <2>1
<1>4. PICK g : Upto(k-1, g)
  <2>1. k-1 \in Nat /\ ~(k <= k-1)
    BY <1>2, <1>3
  <2>2. k-1 \notin B
    <3> HIDE DEF B
    <3> QED
      BY <1>1, <2>1
  <2> HIDE DEF Upto
  <2> QED
    BY <2>1, <2>2 DEF B
<1> HIDE DEF B
<1> DEFINE d == [i \in 0..k |-> IF i = k THEN Deal(counts, g[k-1], k) ELSE g[i]]
<1>5. ASSUME NEW i \in 0..k
      PROVE  d[i] = IF i = 0 THEN NothingDealt(n) ELSE Deal(counts, d[i-1], i)
  <2>1. CASE i = k
    <3>1. d[i] = Deal(counts, g[k-1], k) /\ i # 0 /\ i-1 = k-1 /\ k-1 \in 0..k /\ k-1 # k
      BY <1>2, <1>3, <2>1
    <3>2. d[k-1] = g[k-1]
      BY <3>1
    <3> HIDE DEF d
    <3> QED
      BY <2>1, <3>1, <3>2
  <2>2. CASE i # k
    <3>1. i \in 0..k-1 /\ d[i] = g[i]
      BY <1>2, <1>3, <2>2
    <3>2. g[i] = IF i = 0 THEN NothingDealt(n) ELSE Deal(counts, g[i-1], i)
      BY <1>4, <3>1
    <3>3. i # 0 => d[i-1] = g[i-1]
      BY <1>2, <3>1
    <3> HIDE DEF d
    <3> QED
      BY <3>1, <3>2, <3>3
  <2> QED
    BY <2>1, <2>2
<1>6. Upto(k, d)
  <2>1. d = [i \in 0..k |-> d[i]]
    OBVIOUS
  <2> HIDE DEF d
  <2> QED
    BY <1>5, <2>1
<1> QED
  <2> HIDE DEF d, Upto
  <2> QED
    BY <1>2, <1>6

\* No sample among the first i is with two actors, or twice with one.
DealtOnce(samples, n, i) ==
    /\ \A a \in 1..n : \A j \in DOMAIN samples[a] : samples[a][j] \in 1..i
    /\ \A a, b \in 1..n : \A j \in DOMAIN samples[a], k \in DOMAIN samples[b] :
           samples[a][j] = samples[b][k] => a = b /\ j = k

\* The next sample goes to one actor only.
LEMMA DealsOnce ==
    ASSUME NEW n \in Nat \ {0}, NEW counts, NEW i \in Nat \ {0},
           NEW d \in Deals(n), DealtOnce(d.samples, n, i-1)
    PROVE  DealtOnce(Deal(counts, d, i).samples, n, i)
<1> DEFINE l == LeastLoaded(d.load)
           old == d.samples
           new == Deal(counts, d, i).samples
<1>1. old \in [1..n -> Seq(Nat)] /\ l \in 1..n
  BY LeastLoadedActor DEF Deals
<1>2. new = [old EXCEPT ![l] = Append(@, i)]
  BY DEF Deal
<1>3. DealtOnce(old, n, i-1)
  OBVIOUS
<1> HIDE DEF l, old, new
<1>4. \A a \in 1..n : a # l => new[a] = old[a]
  BY <1>1, <1>2
<1>5. new[l] = Append(old[l], i) /\ old[l] \in Seq(Nat)
  BY <1>1, <1>2
<1>6. \A j \in DOMAIN new[l] :
          \/ j \in DOMAIN old[l] /\ new[l][j] = old[l][j]
          \/ j = Len(old[l]) + 1 /\ new[l][j] = i
  BY <1>5
<1>7. ASSUME NEW a \in 1..n, NEW j \in DOMAIN new[a]
      PROVE  \/ j \in DOMAIN old[a] /\ new[a][j] = old[a][j] /\ new[a][j] \in 1..(i-1)
             \/ a = l /\ j = Len(old[l]) + 1 /\ new[a][j] = i
  BY <1>3, <1>4, <1>6, <1>7 DEF DealtOnce
<1>8. \A k \in 1..(i-1) : k \in 1..i /\ k # i
  OBVIOUS
<1>9. \A a \in 1..n : \A j \in DOMAIN new[a] : new[a][j] \in 1..i
  BY <1>7, <1>8
<1>10. ASSUME NEW a \in 1..n, NEW b \in 1..n, NEW j \in DOMAIN new[a], NEW k \in DOMAIN new[b],
              new[a][j] = new[b][k]
       PROVE  a = b /\ j = k
  <2>1. CASE new[a][j] = i
    BY <1>7, <1>8, <1>10, <2>1
  <2>2. CASE new[a][j] # i
    <3>1. /\ j \in DOMAIN old[a] /\ new[a][j] = old[a][j]
          /\ k \in DOMAIN old[b] /\ new[b][k] = old[b][k]
      BY <1>7, <1>10, <2>2
    <3>2. old[a][j] = old[b][k] /\ DealtOnce(old, n, i-1)
      BY <1>3, <1>10, <3>1
    <3>3. \A x, y \in 1..n : \A p \in DOMAIN old[x], q \in DOMAIN old[y] :
              old[x][p] = old[y][q] => x = y /\ p = q
      BY <3>2 DEF DealtOnce
    <3> QED
      BY <3>1, <3>2, <3>3
  <2> QED
    BY <2>1, <2>2
<1> QED
  BY <1>9, <1>10 DEF DealtOnce, new

\* The deal is fair after every sample, and no sample is dealt twice.
LEMMA WholeDeal ==
    ASSUME NEW n \in Nat \ {0}, NEW largest \in Nat, NEW counts, Len(counts) \in Nat,
           \A i \in 1..Len(counts) : counts[i] \in Nat /\ counts[i] <= largest
    PROVE  LET e == Assigned(counts, n) IN
           /\ e \in Deals(n)
           /\ FairDeal(e, n, largest)
           /\ DealtOnce(e.samples, n, Len(counts))
           /\ (\A i \in 1..Len(counts) : counts[i] > 0) => NoneIdle(e, n, Len(counts))
<1> DEFINE d == CHOOSE d : Dealt(counts, n, d)
           full == \A i \in 1..Len(counts) : counts[i] > 0
           P == {i \in 0..Len(counts) : /\ d[i] \in Deals(n) /\ FairDeal(d[i], n, largest)
                                        /\ DealtOnce(d[i].samples, n, i)
                                        /\ full => NoneIdle(d[i], n, i)}
<1>1. Dealt(counts, n, d)
  <2>1. \E f : Dealt(counts, n, f)
    BY DealExists DEF Dealt
  <2> QED
    BY <2>1
<1>2. Assigned(counts, n) = d[Len(counts)]
  BY DEF Assigned, Dealt, DealtUpTo
<1> HIDE DEF d
<1>3. 0 \in P
  <2>1. d[0] = NothingDealt(n)
    BY <1>1 DEF Dealt, DealtUpTo
  <2>2. /\ NothingDealt(n).load = [a \in 1..n |-> 0]
        /\ NothingDealt(n).samples = [a \in 1..n |-> <<>>]
        /\ NothingDealt(n) \in Deals(n)
    BY DEF NothingDealt, Deals
  <2>3. FairDeal(NothingDealt(n), n, largest)
    BY <2>2 DEF FairDeal
  <2>4. DealtOnce(NothingDealt(n).samples, n, 0)
    BY <2>2 DEF DealtOnce
  <2>5. Busy(NothingDealt(n), n) = {}
    BY <2>2 DEF Busy
  <2>6. NoneIdle(NothingDealt(n), n, 0)
    BY <2>2, <2>5, FS_EmptySet DEF NoneIdle
  <2> QED
    BY <2>1, <2>2, <2>3, <2>4, <2>6
<1>4. ASSUME NEW i \in 1..Len(counts), i-1 \in P
      PROVE  i \in P
  <2>1. i \in Nat \ {0} /\ i \in 0..Len(counts) /\ i # 0
    OBVIOUS
  <2>2. d[i] = Deal(counts, d[i-1], i)
    BY <1>1, <2>1 DEF Dealt, DealtUpTo
  <2>3. counts[i] \in Nat /\ counts[i] <= largest /\ (full => counts[i] > 0)
    OBVIOUS
  <2> HIDE DEF full
  <2>4. /\ d[i-1] \in Deals(n) /\ FairDeal(d[i-1], n, largest)
        /\ DealtOnce(d[i-1].samples, n, i-1)
        /\ full => NoneIdle(d[i-1], n, i-1)
    BY <1>4
  <2>5. /\ d[i] \in Deals(n) /\ FairDeal(d[i], n, largest)
        /\ full => NoneIdle(d[i], n, i)
    BY <2>1, <2>2, <2>3, <2>4, DealStaysFair
  <2>6. DealtOnce(d[i].samples, n, i)
    BY <2>1, <2>2, <2>4, DealsOnce
  <2> QED
    BY <2>1, <2>5, <2>6
<1>5. Len(counts) \in P
  <2> HIDE DEF P
  <2>1. \A i \in 1..Len(counts) : i-1 \in P => i \in P
    BY <1>4
  <2>2. \A i \in 0..Len(counts) : i \in P
    BY <1>3, <2>1, UpTo, Zenon
  <2> QED
    BY <2>2
<1> QED
  BY <1>2, <1>5

\* The load of a batch is shared out fairly, whatever the samples and however
\* many actors: no actor has more than the largest sample beyond any other, and
\* none is idle in a batch of at least as many samples, all with tokens.
THEOREM EveryDealIsBalanced ==
    \A counts \in Batches, n \in 1..MaxDpSize : Balanced(counts, n)
<1> SUFFICES ASSUME NEW counts \in Batches, NEW n \in 1..MaxDpSize
             PROVE  Balanced(counts, n)
  OBVIOUS
<1>1. PICK m \in 1..MaxBatch : counts \in [1..m -> 0..MaxTokens]
  BY DEF Batches
<1>2. /\ m \in Nat /\ Len(counts) = m /\ DOMAIN counts = 1..m /\ 1 \in 1..m
      /\ \A i \in 1..m : counts[i] \in 0..MaxTokens
      /\ n \in Nat \ {0} /\ MaxTokens \in Nat
  BY <1>1, BatchingAssumption
<1> DEFINE IsLargest(t) == (\E i \in DOMAIN counts : counts[i] = t)
                           /\ \A i \in DOMAIN counts : counts[i] <= t
           largest == CHOOSE t \in 0..MaxTokens : IsLargest(t)
<1>3. \E t \in 0..MaxTokens : IsLargest(t)
  <2> DEFINE B == {MaxTokens - counts[i] : i \in 1..m}
  <2>1. PICK k \in B : \A j \in B : k <= j
    <3>1. B \in SUBSET Nat /\ B # {}
      <4>1. MaxTokens - counts[1] \in B
        BY <1>2
      <4>2. \A i \in 1..m : MaxTokens - counts[i] \in Nat
        BY <1>2
      <4> QED
        BY <4>1, <4>2
    <3> HIDE DEF B
    <3> QED
      BY <3>1, FirstOne
  <2>2. PICK i \in 1..m : k = MaxTokens - counts[i]
    OBVIOUS
  <2>3. ASSUME NEW j \in 1..m
        PROVE  counts[j] <= counts[i]
    <3>1. MaxTokens - counts[i] <= MaxTokens - counts[j]
      BY <2>1, <2>2
    <3>2. counts[i] \in Nat /\ counts[j] \in Nat /\ MaxTokens \in Nat
      BY <1>2
    <3> QED
      BY <3>1, <3>2
  <2> QED
    BY <1>2, <2>3
<1>4. largest \in 0..MaxTokens /\ IsLargest(largest)
  <2> HIDE DEF IsLargest
  <2> QED
    BY <1>3
<1>5. largest \in Nat /\ \A i \in 1..Len(counts) : counts[i] \in Nat /\ counts[i] <= largest
  <2> HIDE DEF largest
  <2> QED
    BY <1>2, <1>4
<1> DEFINE e == Assigned(counts, n)
<1>6. /\ e \in Deals(n)
      /\ FairDeal(e, n, largest)
      /\ (\A i \in 1..Len(counts) : counts[i] > 0) => NoneIdle(e, n, Len(counts))
  <2> HIDE DEF largest
  <2> QED
    BY <1>2, <1>5, WholeDeal
<1>7. ASSUME \A i \in DOMAIN counts : counts[i] > 0, Len(counts) >= n
      PROVE  \A a \in 1..n : e.samples[a] # <<>>
  <2>1. NoneIdle(e, n, Len(counts))
    BY <1>2, <1>6, <1>7
  <2>2. IsFiniteSet(1..n) /\ Cardinality(1..n) = n
    BY <1>2, FS_Interval
  <2> HIDE DEF e
  <2>3. Busy(e, n) \in SUBSET (1..n)
    BY DEF Busy
  <2>4. /\ Cardinality(Busy(e, n)) <= n /\ Cardinality(Busy(e, n)) \in Nat
        /\ Cardinality(Busy(e, n)) = n => Busy(e, n) = 1..n
    BY <2>2, <2>3, FS_Subset, FS_CardinalityType
  <2>5. Busy(e, n) = 1..n
    BY <1>2, <1>7, <2>1, <2>4 DEF NoneIdle
  <2> QED
    BY <2>5 DEF Busy
<1>8. \A a, b \in 1..n : e.load[a] <= e.load[b] + largest
  BY <1>6 DEF FairDeal
<1> HIDE DEF e
<1> QED
  BY <1>7, <1>8 DEF Balanced, e
-----------------------------------------------------------------------------
(***************************************************************************)
(* How TeacherBatching puts a batch together again.  Every sample is dealt *)
(* once, so that the pairs' indices are all different; if there are as     *)
(* many pairs as samples they are 1, 2, 3, ... when sorted, no actor's     *)
(* answer is short, and each index stands beside its own hidden states.    *)
(***************************************************************************)
\* An engine's answer is never longer than what it was asked for, and holds all
\* of it, in order, if it is as long.
LEMMA AnswerIsPart ==
    ASSUME NEW s \in Seq(Nat), NEW answered
    PROVE  LET states == StatesOf(s, answered) IN
           /\ states \in Seq(Nat)
           /\ Len(states) <= Len(s)
           /\ Len(states) = Len(s) => states = s
<1> DEFINE m == Len(s)
           X == Seq(Nat)
           Step == [p \in X \X (1..m) |->
                       IF s[p[2]] \in answered THEN Append(p[1], s[p[2]]) ELSE p[1]]
           Runs(f) == f = [j \in 0..m |->
                              IF j = 0 THEN <<>>
                              ELSE IF s[j] \in answered THEN Append(f[j-1], s[j])
                              ELSE f[j-1]]
           g == CHOOSE f : Runs(f)
<1>1. m \in Nat /\ \A i \in 1..m : s[i] \in Nat
  OBVIOUS
<1>2. \E f : Runs(f)
  <2>1. Step \in [X \X (1..m) -> X]
    BY <1>1
  <2>2. <<>> \in X
    OBVIOUS
  <2>3. PICK f : Iterates(f, X, <<>>, m, Step)
    <3>1. m \in Nat
      BY <1>1
    <3> HIDE DEF Step, X, m
    <3> QED
      BY <2>1, <2>2, <3>1, StepsExist, Zenon
  <2> HIDE DEF Step, X
  <2>4. ASSUME NEW j \in 0..m
        PROVE  f[j] = IF j = 0 THEN <<>>
                      ELSE IF s[j] \in answered THEN Append(f[j-1], s[j])
                      ELSE f[j-1]
    <3>1. CASE j = 0
      BY <2>3, <3>1 DEF Iterates
    <3>2. CASE j # 0
      <4>1. j \in 1..m /\ f[j-1] \in X
        BY <1>1, <2>3, <3>2 DEF Iterates
      <4>2. f[j] = Step[<<f[j-1], j>>] /\ <<f[j-1], j>> \in X \X (1..m)
        BY <2>3, <4>1 DEF Iterates
      <4> QED
        BY <3>2, <4>2 DEF Step
    <3> QED
      BY <3>1, <3>2
  <2>5. f = [j \in 0..m |-> f[j]]
    BY <2>3 DEF Iterates
  <2> QED
    BY <2>4, <2>5
<1>3. Runs(g)
  <2> HIDE DEF Runs
  <2> QED
    BY <1>2
<1>4. StatesOf(s, answered) = g[m]
  BY DEF StatesOf
<1> HIDE DEF g
<1> DEFINE P == {j \in 0..m : /\ g[j] \in Seq(Nat) /\ Len(g[j]) <= j
                              /\ Len(g[j]) = j => \A k \in 1..j : g[j][k] = s[k]}
<1>5. 0 \in P
  BY <1>1, <1>3
<1>6. ASSUME NEW j \in 1..m, j-1 \in P
      PROVE  j \in P
  <2>1. /\ g[j-1] \in Seq(Nat) /\ Len(g[j-1]) <= j-1
        /\ Len(g[j-1]) = j-1 => \A k \in 1..(j-1) : g[j-1][k] = s[k]
    BY <1>6
  <2>2. g[j] = IF s[j] \in answered THEN Append(g[j-1], s[j]) ELSE g[j-1]
    <3>1. j \in 0..m /\ j # 0
      BY <1>1
    <3> HIDE DEF P, m
    <3> QED
      BY <1>3, <3>1
  <2>3. j \in 0..m /\ s[j] \in Nat /\ j \in Nat \ {0} /\ Len(g[j-1]) \in Nat
    BY <1>1, <2>1
  <2> DEFINE t == g[j-1]
             x == s[j]
  <2>4. CASE s[j] \in answered
    <3>1. t \in Seq(Nat) /\ x \in Nat /\ g[j] = Append(t, x)
      BY <2>1, <2>2, <2>3, <2>4
    <3>2. /\ Append(t, x) \in Seq(Nat) /\ Len(Append(t, x)) = Len(t) + 1
          /\ Append(t, x)[Len(t) + 1] = x
          /\ \A k \in 1..Len(t) : Append(t, x)[k] = t[k]
      <4> HIDE DEF t, x
      <4> QED
        BY <3>1
    <3>3. ASSUME Len(g[j]) = j, NEW k \in 1..j
          PROVE  g[j][k] = s[k]
      <4>1. Len(t) = j - 1
        BY <2>3, <3>1, <3>2, <3>3
      <4>2. CASE k = j
        BY <2>3, <3>1, <3>2, <4>1, <4>2
      <4>3. CASE k # j
        <5>1. k \in 1..(j-1) /\ k \in 1..Len(t)
          BY <2>3, <4>1, <4>3
        <5> QED
          BY <2>1, <3>1, <3>2, <4>1, <5>1
      <4> QED
        BY <4>2, <4>3
    <3>4. Len(g[j]) <= j
      BY <2>1, <2>3, <3>1, <3>2
    <3> QED
      BY <2>3, <3>1, <3>2, <3>3, <3>4
  <2>5. CASE s[j] \notin answered
    <3>1. g[j] = g[j-1] /\ Len(g[j]) < j
      BY <2>1, <2>2, <2>3, <2>5
    <3> QED
      BY <2>1, <2>3, <3>1
  <2> QED
    BY <2>4, <2>5
<1>7. m \in P
  <2> HIDE DEF P
  <2>1. \A j \in 1..m : j-1 \in P => j \in P
    BY <1>6
  <2> HIDE DEF m
  <2>2. \A j \in 0..m : j \in P
    BY <1>1, <1>5, <2>1, UpTo, Zenon
  <2> QED
    BY <1>1, <2>2
<1>8. ASSUME Len(g[m]) = m
      PROVE  g[m] = s
  <2>1. g[m] \in Seq(Nat) /\ \A k \in 1..m : g[m][k] = s[k]
    BY <1>7, <1>8
  <2> DEFINE t == g[m]
  <2>2. t \in Seq(Nat) /\ Len(t) = Len(s) /\ \A k \in 1..Len(s) : t[k] = s[k]
    BY <1>8, <2>1
  <2> HIDE DEF t
  <2> QED
    BY <2>2, SeqEqual DEF t
<1> QED
  BY <1>4, <1>7, <1>8

IndexedPairs == Nat \X Nat

\* When the indices of all pairs of all actors differ, those of the flattened
\* sequence do, and each of its pairs is one of an actor's.
LEMMA FlattenedPairs ==
    ASSUME NEW n \in Nat \ {0}, NEW s \in [1..n -> Seq(IndexedPairs)],
           \A a, b \in 1..n : \A j \in DOMAIN s[a], k \in DOMAIN s[b] :
               s[a][j][1] = s[b][k][1] => a = b /\ j = k
    PROVE  LET flat == FlattenSeq(s) IN
           /\ flat \in Seq(IndexedPairs)
           /\ \A l \in DOMAIN flat : \E a \in 1..n : \E j \in DOMAIN s[a] : flat[l] = s[a][j]
           /\ \A l, m \in DOMAIN flat : flat[l][1] = flat[m][1] => l = m
<1> DEFINE X == Seq(IndexedPairs)
           Runs(f) == f = [i \in 1..n |-> IF i = 1 THEN s[i] ELSE f[i-1] \o s[i]]
           g == CHOOSE f : Runs(f)
<1>1. /\ s = <<>> <=> FALSE
      /\ Len(s) = n /\ n # 0
      /\ \A a \in 1..n : s[a] \in X
  OBVIOUS
<1>2. \E f : Runs(f)
  <2> DEFINE Step == [p \in X \X (1..n) |-> IF p[2] = 1 THEN s[1] ELSE p[1] \o s[p[2]]]
  <2>1. Step \in [X \X (1..n) -> X]
    <3>1. ASSUME NEW p \in X \X (1..n)
          PROVE  (IF p[2] = 1 THEN s[1] ELSE p[1] \o s[p[2]]) \in X
      <4>1. p[1] \in X /\ s[p[2]] \in X /\ s[1] \in X
        BY <1>1
      <4> DEFINE t == p[1]
                 u == s[p[2]]
      <4>2. t \o u \in X
        <5>1. t \in X /\ u \in X
          BY <4>1
        <5> HIDE DEF t, u
        <5> QED
          BY <5>1, ConcatProperties
      <4> QED
        BY <4>1, <4>2
    <3> HIDE DEF X
    <3> QED
      BY <3>1
  <2>2. <<>> \in X
    OBVIOUS
  <2>3. PICK f : Iterates(f, X, <<>>, n, Step)
    <3> HIDE DEF Step, X
    <3> QED
      BY <2>1, <2>2, StepsExist, Zenon
  <2> HIDE DEF Step, X
  <2> DEFINE h == [i \in 1..n |-> f[i]]
  <2>4. ASSUME NEW i \in 1..n
        PROVE  f[i] = IF i = 1 THEN s[i] ELSE f[i-1] \o s[i]
    <3>1. f[i] = Step[<<f[i-1], i>>] /\ f[i-1] \in X
      BY <2>3 DEF Iterates
    <3>2. <<f[i-1], i>> \in X \X (1..n)
      BY <3>1
    <3> QED
      BY <3>1, <3>2 DEF Step
  <2>5. ASSUME NEW i \in 1..n
        PROVE  h[i] = IF i = 1 THEN s[i] ELSE h[i-1] \o s[i]
    <3>1. h[i] = f[i] /\ (i # 1 => i-1 \in 1..n /\ h[i-1] = f[i-1])
      OBVIOUS
    <3> HIDE DEF h
    <3> QED
      BY <2>4, <3>1
  <2>6. Runs(h)
    <3>1. h = [i \in 1..n |-> h[i]]
      OBVIOUS
    <3> HIDE DEF h
    <3> QED
      BY <2>5, <3>1
  <2> HIDE DEF h, Runs
  <2> QED
    BY <2>6
<1>3. Runs(g)
  <2> HIDE DEF Runs
  <2> QED
    BY <1>2
<1>4. FlattenSeq(s) = g[n]
  BY <1>1 DEF FlattenSeq
<1> HIDE DEF g
<1> DEFINE From(f, i) == \A l \in DOMAIN f :
                             \E a \in 1..i : \E j \in DOMAIN s[a] : f[l] = s[a][j]
           Apart(f) == \A l, m \in DOMAIN f : f[l][1] = f[m][1] => l = m
           P == {i \in 0..n : i # 0 => g[i] \in X /\ From(g[i], i) /\ Apart(g[i])}
<1>5. 0 \in P
  OBVIOUS
<1>6. ASSUME NEW i \in 1..n, i-1 \in P
      PROVE  i \in P
  <2>1. s[i] \in X /\ i \in 0..n /\ i \in 1..i
    BY <1>1
  <2>2. \A j, k \in DOMAIN s[i] : s[i][j][1] = s[i][k][1] => j = k
    OBVIOUS
  <2>3. CASE i = 1
    <3>1. g[i] = s[i]
      BY <1>3, <2>3
    <3>2. From(g[i], i) /\ Apart(g[i])
      BY <2>1, <2>2, <3>1
    <3> HIDE DEF From, Apart
    <3> QED
      BY <2>1, <3>1, <3>2
  <2>4. CASE i # 1
    <3> DEFINE t == g[i-1]
               u == s[i]
               f == t \o u
    <3>1. i-1 \in 1..n /\ i-1 # 0 /\ \A a \in 1..(i-1) : a \in 1..i /\ a \in 1..n /\ a # i
      BY <2>4
    <3>2. g[i] = f
      <4> HIDE DEF P
      <4> QED
        BY <1>3, <2>4
    <3>3. t \in X /\ From(t, i-1) /\ Apart(t) /\ u \in X
      <4> HIDE DEF From, Apart
      <4> QED
        BY <1>6, <2>1, <3>1
    <3> HIDE DEF t, u
    <3>4. /\ f \in X /\ DOMAIN f = 1..(Len(t) + Len(u)) /\ Len(t) \in Nat /\ Len(u) \in Nat
          /\ \A l \in DOMAIN f : IF l \in DOMAIN t THEN f[l] = t[l]
                                 ELSE l - Len(t) \in DOMAIN u /\ f[l] = u[l - Len(t)]
      BY <3>3, ConcatProperties
    <3> HIDE DEF f, X
    <3>5. From(f, i)
      <4> SUFFICES ASSUME NEW l \in DOMAIN f
                   PROVE  \E a \in 1..i : \E j \in DOMAIN s[a] : f[l] = s[a][j]
        OBVIOUS
      <4>1. CASE l \in DOMAIN t
        <5>1. PICK a \in 1..(i-1) : \E j \in DOMAIN s[a] : t[l] = s[a][j]
          BY <3>3, <4>1
        <5> QED
          BY <3>1, <3>4, <4>1, <5>1
      <4>2. CASE l \notin DOMAIN t
        <5>1. l - Len(t) \in DOMAIN s[i] /\ f[l] = s[i][l - Len(t)]
          BY <3>4, <4>2 DEF u
        <5> QED
          BY <2>1, <5>1
      <4> QED
        BY <4>1, <4>2
    <3>6. ASSUME NEW l \in DOMAIN t, NEW k \in DOMAIN u
          PROVE  t[l][1] # u[k][1]
      <4>1. PICK a \in 1..(i-1) : \E j \in DOMAIN s[a] : t[l] = s[a][j]
        BY <3>3
      <4>2. PICK j \in DOMAIN s[a] : t[l] = s[a][j]
        BY <4>1
      <4>3. a \in 1..n /\ i \in 1..n /\ a # i
        BY <3>1
      <4>4. s[a][j][1] # s[i][k][1]
        BY <4>3 DEF u
      <4> QED
        BY <4>2, <4>4 DEF u
    <3>7. Apart(f)
      <4> SUFFICES ASSUME NEW l \in DOMAIN f, NEW m \in DOMAIN f, f[l][1] = f[m][1]
                   PROVE  l = m
        OBVIOUS
      <4>1. CASE l \in DOMAIN t /\ m \in DOMAIN t
        <5>1. f[l] = t[l] /\ f[m] = t[m]
          BY <3>4, <4>1
        <5> QED
          BY <3>3, <4>1, <5>1
      <4>2. CASE l \notin DOMAIN t /\ m \notin DOMAIN t
        <5>1. /\ l - Len(t) \in DOMAIN u /\ f[l] = u[l - Len(t)]
              /\ m - Len(t) \in DOMAIN u /\ f[m] = u[m - Len(t)]
          BY <3>4, <4>2
        <5>2. l - Len(t) = m - Len(t)
          BY <2>2, <5>1 DEF u
        <5> QED
          BY <3>4, <5>2
      <4>3. CASE (l \in DOMAIN t) # (m \in DOMAIN t)
        BY <3>4, <3>6, <4>3
      <4> QED
        BY <4>1, <4>2, <4>3
    <3> HIDE DEF From, Apart
    <3> QED
      BY <2>1, <3>2, <3>4, <3>5, <3>7
  <2> QED
    BY <2>3, <2>4
<1>7. n \in P
  <2> HIDE DEF P
  <2>1. \A i \in 1..n : i-1 \in P => i \in P
    BY <1>6
  <2>2. \A i \in 0..n : i \in P
    BY <1>5, <2>1, UpTo, Zenon
  <2> QED
    BY <2>2
<1>8. g[n] \in X /\ From(g[n], n) /\ Apart(g[n])
  BY <1>1, <1>7
<1> QED
  BY <1>4, <1>8

\* Pairs whose indices are 1 to n, each once, are sorted into that order.
LEMMA SortedPairs ==
    ASSUME NEW n \in Nat, NEW pairs \in Seq(IndexedPairs), Len(pairs) = n,
           \A l \in 1..n : pairs[l][1] \in 1..n,
           \A l, m \in 1..n : pairs[l][1] = pairs[m][1] => l = m
    PROVE  \A k \in 1..n : \E l \in 1..n : pairs[l][1] = k /\ InOrder(pairs)[k] = pairs[l]
<1> DEFINE index == [l \in 1..n |-> pairs[l][1]]
           Before(i, j) == pairs[i][1] < pairs[j][1] \/ (pairs[i][1] = pairs[j][1] /\ i < j)
           Place(j) == 1 + Cardinality({i \in DOMAIN pairs : Before(i, j)})
<1>1. /\ DOMAIN pairs = 1..n /\ IsFiniteSet(1..n)
      /\ index \in [1..n -> 1..n]
      /\ \A l \in 1..n : index[l] = pairs[l][1]
  BY FS_Interval
<1>2. \A k \in 1..n : \E l \in 1..n : index[l] = k
  <2>1. index \in Injection(1..n, 1..n)
    <3>1. \A l, m \in 1..n : index[l] = index[m] => l = m
      BY <1>1
    <3> HIDE DEF index
    <3> QED
      BY <1>1, <3>1, Fun_IsInj
  <2>2. index \in Surjection(1..n, 1..n)
    <3> HIDE DEF index
    <3> QED
      BY <1>1, <2>1, FS_Injection
  <2> HIDE DEF index
  <2> QED
    BY <2>2 DEF Surjection
<1>3. ASSUME NEW j \in 1..n
      PROVE  Place(j) = index[j]
  <2> DEFINE S == {i \in 1..n : Before(i, j)}
             T == 1..(index[j] - 1)
             f == [i \in S |-> index[i]]
  <2>1. \A i \in 1..n : i \in S <=> index[i] < index[j]
    BY <1>1
  <2>2. index[j] \in 1..n /\ \A i \in 1..n : index[i] \in 1..n
    BY <1>1
  <2>3. \A i, k \in 1..n : index[i] = index[k] => i = k
    BY <1>1
  <2> HIDE DEF index
  <2>4. f \in [S -> T]
    BY <2>1, <2>2
  <2>5. \A i, k \in S : f[i] = f[k] => i = k
    BY <2>3
  <2>6. ASSUME NEW t \in T
        PROVE  \E i \in S : f[i] = t
    <3>1. t \in 1..n /\ t < index[j]
      BY <2>2
    <3>2. PICK i \in 1..n : index[i] = t
      BY <1>2, <3>1
    <3> QED
      BY <2>1, <3>1, <3>2
  <2>7. f \in Bijection(S, T)
    <3> HIDE DEF f, S, T
    <3> QED
      BY <2>4, <2>5, <2>6, Fun_IsBij
  <2>8. IsFiniteSet(S) /\ IsFiniteSet(T) /\ Cardinality(T) = index[j] - 1
    <3>1. IsFiniteSet(S)
      BY <1>1, FS_Subset
    <3> QED
      BY <2>2, <3>1, FS_Interval
  <2>9. Cardinality(S) = Cardinality(T)
    <3> HIDE DEF f, S, T
    <3> QED
      BY <2>7, <2>8, FS_Bijection DEF ExistsBijection
  <2>10. Place(j) = 1 + Cardinality(S)
    BY <1>1
  <2> HIDE DEF S, T, Place
  <2> QED
    BY <2>2, <2>8, <2>9, <2>10
<1>4. InOrder(pairs) = [k \in 1..n |-> pairs[CHOOSE j \in 1..n : Place(j) = k]]
  BY <1>1 DEF InOrder
<1> HIDE DEF Place, index
<1>5. ASSUME NEW k \in 1..n
      PROVE  \E l \in 1..n : pairs[l][1] = k /\ InOrder(pairs)[k] = pairs[l]
  <2> DEFINE l == CHOOSE j \in 1..n : Place(j) = k
  <2>1. \E j \in 1..n : Place(j) = k
    <3>1. PICK j \in 1..n : index[j] = k
      BY <1>2
    <3>2. Place(j) = k
      BY <1>3, <3>1
    <3> QED
      BY <3>2
  <2>2. l \in 1..n /\ Place(l) = k
    BY <2>1
  <2>3. InOrder(pairs)[k] = pairs[l]
    BY <1>4
  <2> HIDE DEF l
  <2>4. pairs[l][1] = k
    BY <1>1, <1>3, <2>2
  <2> QED
    BY <2>2, <2>3, <2>4
<1> QED
  BY <1>5

\* Whichever samples the engines leave out: a call that does not raise returns
\* the i-th sample's hidden states in the i-th place.  As many pairs as samples
\* means that every index occurs, thus each actor's last one, thus no actor's
\* answer was short.
THEOREM EveryBatchComesBack ==
    \A counts \in Batches, n \in 1..MaxDpSize : Restored(counts, n)
<1> SUFFICES ASSUME NEW counts \in Batches, NEW n \in 1..MaxDpSize,
                    NEW answered \in SUBSET DOMAIN counts,
                    ~Raises(counts, n, answered)
             PROVE  LET flat == Flat(counts, n, answered) IN
                    Len(flat) = Len(counts) /\ \A i \in DOMAIN flat : flat[i][2] = i
  BY DEF Restored
<1>1. PICK m \in 1..MaxBatch : counts \in [1..m -> 0..MaxTokens]
  BY DEF Batches
<1>2. /\ m \in Nat /\ Len(counts) = m
      /\ \A i \in 1..m : counts[i] \in Nat /\ counts[i] <= MaxTokens
      /\ n \in Nat \ {0} /\ MaxTokens \in Nat
  BY <1>1, BatchingAssumption
<1> DEFINE samples == Assigned(counts, n).samples
           states == [a \in 1..n |-> StatesOf(samples[a], answered)]
           answers == [a \in 1..n |-> Paired(samples[a], answered)]
           pairs == FlattenSeq(answers)
           flat == InOrder(pairs)
<1>3. /\ samples \in [1..n -> Seq(Nat)]
      /\ \A a \in 1..n : \A j \in DOMAIN samples[a] : samples[a][j] \in 1..m
      /\ \A a, b \in 1..n : \A j \in DOMAIN samples[a], k \in DOMAIN samples[b] :
             samples[a][j] = samples[b][k] => a = b /\ j = k
  <2>1. samples \in [1..n -> Seq(Nat)] /\ DealtOnce(samples, n, m)
    BY <1>2, WholeDeal DEF Deals
  <2> HIDE DEF samples
  <2> QED
    BY <2>1 DEF DealtOnce
<1>4. flat = Flat(counts, n, answered)
  BY DEF Flat
<1> HIDE DEF samples
<1>5. ASSUME NEW a \in 1..n
      PROVE  /\ states[a] \in Seq(Nat) /\ Len(states[a]) <= Len(samples[a])
             /\ Len(states[a]) = Len(samples[a]) => states[a] = samples[a]
             /\ answers[a] \in Seq(IndexedPairs)
             /\ DOMAIN answers[a] = 1..Len(states[a])
             /\ \A j \in DOMAIN answers[a] :
                    /\ j \in DOMAIN samples[a]
                    /\ answers[a][j][1] = samples[a][j] /\ answers[a][j][2] = states[a][j]
  <2>1. samples[a] \in Seq(Nat)
    BY <1>3
  <2>2. /\ states[a] \in Seq(Nat) /\ Len(states[a]) <= Len(samples[a])
        /\ Len(states[a]) = Len(samples[a]) => states[a] = samples[a]
    BY <2>1, AnswerIsPart
  <2>3. answers[a] = [j \in DOMAIN states[a] |-> <<samples[a][j], states[a][j]>>]
    BY DEF Paired
  <2> HIDE DEF states, answers
  <2>4. DOMAIN states[a] = 1..Len(states[a]) /\ Len(states[a]) \in Nat
    BY <2>2
  <2>5. ASSUME NEW j \in 1..Len(states[a])
        PROVE  j \in DOMAIN samples[a] /\ samples[a][j] \in Nat /\ states[a][j] \in Nat
    <3> DEFINE s == samples[a]
               t == states[a]
    <3>1. s \in Seq(Nat) /\ t \in Seq(Nat) /\ Len(t) <= Len(s) /\ j \in 1..Len(t)
      BY <2>1, <2>2
    <3> HIDE DEF s, t
    <3>2. j \in DOMAIN s /\ s[j] \in Nat /\ t[j] \in Nat
      BY <3>1
    <3> QED
      BY <3>2 DEF s, t
  <2>6. answers[a] = [j \in 1..Len(states[a]) |-> <<samples[a][j], states[a][j]>>]
    BY <2>3, <2>4
  <2>7. answers[a] \in [1..Len(states[a]) -> IndexedPairs]
    BY <2>5, <2>6 DEF IndexedPairs
  <2>8. answers[a] \in Seq(IndexedPairs)
    BY <2>4, <2>7
  <2> QED
    BY <2>2, <2>5, <2>6, <2>8
<1>6. answers \in [1..n -> Seq(IndexedPairs)]
  <2>1. \A a \in 1..n : Paired(samples[a], answered) \in Seq(IndexedPairs)
    BY <1>5
  <2> QED
    BY <2>1
<1> HIDE DEF answers, states
<1>7. \A a, b \in 1..n : \A j \in DOMAIN answers[a], k \in DOMAIN answers[b] :
          answers[a][j][1] = answers[b][k][1] => a = b /\ j = k
  <2> SUFFICES ASSUME NEW a \in 1..n, NEW b \in 1..n,
                      NEW j \in DOMAIN answers[a], NEW k \in DOMAIN answers[b],
                      answers[a][j][1] = answers[b][k][1]
               PROVE  a = b /\ j = k
    OBVIOUS
  <2>1. j \in DOMAIN samples[a] /\ k \in DOMAIN samples[b] /\ samples[a][j] = samples[b][k]
    BY <1>5
  <2> QED
    BY <1>3, <2>1
<1>8. /\ pairs \in Seq(IndexedPairs)
      /\ \A l \in DOMAIN pairs : \E a \in 1..n : \E j \in DOMAIN answers[a] : pairs[l] = answers[a][j]
      /\ \A l, k \in DOMAIN pairs : pairs[l][1] = pairs[k][1] => l = k
  BY <1>2, <1>6, <1>7, FlattenedPairs
<1> HIDE DEF pairs
<1>9. Len(flat) = m /\ DOMAIN flat = 1..m /\ Len(pairs) = m /\ DOMAIN pairs = 1..m
  <2>1. Len(flat) = m
    BY <1>2, <1>4 DEF Raises
  <2>2. DOMAIN pairs = 1..Len(pairs) /\ Len(pairs) \in Nat /\ DOMAIN flat = DOMAIN pairs
    BY <1>8 DEF InOrder
  <2>3. Len(flat) = Len(pairs)
    BY <2>2
  <2> QED
    BY <2>1, <2>2, <2>3
<1>10. \A l \in 1..m : pairs[l][1] \in 1..m
  <2>1. ASSUME NEW l \in 1..m
        PROVE  pairs[l][1] \in 1..m
    <3>1. PICK a \in 1..n : \E j \in DOMAIN answers[a] : pairs[l] = answers[a][j]
      BY <1>8, <1>9
    <3>2. PICK j \in DOMAIN answers[a] : pairs[l] = answers[a][j]
      BY <3>1
    <3> QED
      BY <1>3, <1>5, <3>2
  <2> QED
    BY <2>1
<1>11. \A k \in 1..m : \E l \in 1..m : pairs[l][1] = k /\ flat[k] = pairs[l]
  <2>1. \A l, k \in 1..m : pairs[l][1] = pairs[k][1] => l = k
    BY <1>8, <1>9
  <2>2. Len(pairs) = m /\ pairs \in Seq(IndexedPairs) /\ m \in Nat
    BY <1>2, <1>8, <1>9
  <2> HIDE DEF flat
  <2> QED
    BY <1>10, <2>1, <2>2, SortedPairs DEF flat
<1> HIDE DEF flat
<1>12. ASSUME NEW a \in 1..n, samples[a] # <<>>
       PROVE  states[a] = samples[a]
  <2> DEFINE last == Len(samples[a])
  <2>1. last \in DOMAIN samples[a] /\ samples[a] \in Seq(Nat) /\ last \in Nat
    BY <1>3, <1>12
  <2>2. samples[a][last] \in 1..m
    BY <1>3, <2>1
  <2>3. PICK l \in 1..m : pairs[l][1] = samples[a][last]
    BY <1>11, <2>2
  <2>4. PICK b \in 1..n : \E j \in DOMAIN answers[b] : pairs[l] = answers[b][j]
    BY <1>8, <1>9
  <2>5. PICK j \in DOMAIN answers[b] : pairs[l] = answers[b][j]
    BY <2>4
  <2>6. j \in DOMAIN samples[b] /\ samples[b][j] = samples[a][last]
    BY <1>5, <2>3, <2>5
  <2>7. b = a /\ j = last
    BY <1>3, <2>1, <2>6
  <2>8. last \in 1..Len(states[a])
    BY <1>5, <2>7
  <2>9. Len(states[a]) \in Nat /\ Len(states[a]) <= last
    BY <1>5
  <2>10. Len(states[a]) = Len(samples[a])
    BY <2>1, <2>8, <2>9
  <2> QED
    BY <1>5, <2>10
<1>13. ASSUME NEW k \in 1..m
       PROVE  flat[k][2] = k
  <2>1. PICK l \in 1..m : pairs[l][1] = k /\ flat[k] = pairs[l]
    BY <1>11
  <2>2. PICK a \in 1..n : \E j \in DOMAIN answers[a] : pairs[l] = answers[a][j]
    BY <1>8, <1>9
  <2>3. PICK j \in DOMAIN answers[a] : pairs[l] = answers[a][j]
    BY <2>2
  <2>4. /\ j \in DOMAIN samples[a]
        /\ pairs[l][1] = samples[a][j] /\ pairs[l][2] = states[a][j]
    BY <1>5, <2>3
  <2>5. states[a] = samples[a]
    <3>1. samples[a] # <<>>
      BY <1>3, <2>4
    <3> QED
      BY <1>12, <3>1
  <2> QED
    BY <2>1, <2>4, <2>5
<1> QED
  BY <1>2, <1>4, <1>9, <1>13

\* Both together, in the terms of the run that checks them: whatever batch the
\* engines compute, it comes back in order or the call raises, and the load is
\* shared out.
THEOREM BatchesAreDealtAndRestored == EveryBatchRestored
  BY EveryDealIsBalanced, EveryBatchComesBack DEF EveryBatchRestored, AllRestored, AllBalanced
=============================================================================

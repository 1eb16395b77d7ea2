------------------------- MODULE TeacherEngineService -------------------------
(***************************************************************************)
(* The teacher actors of cross-tokenizer distillation and their SGLang     *)
(* engines (easyopd/methods/simple/sglang_engine.py, teacher_actor.py).    *)
(*                                                                         *)
(* Each Ray actor runs at most two RPCs at a time (max_concurrency), each  *)
(* in a thread of its own.  An RPC puts a request on the engine's request  *)
(* queue and takes the next answer from its response queue, whichever that *)
(* is: _get_response does not look at its type.  The engine process        *)
(* handles one request after another; hidden states travel on a stream of  *)
(* their own, after the answer.  A wait for an answer may run out, and the *)
(* answer may come all the same; the process may die.                      *)
(*                                                                         *)
(* An RPC is named by its kind and the training step that sent it.         *)
(* External: what the engine does with a request (succeed or raise).       *)
(***************************************************************************)
EXTENDS Naturals, Sequences, FiniteSets

CONSTANTS
    Actors,
    MaxSteps,      \* bound: training steps
    FaultyKinds,   \* the RPC kinds whose handler may raise or be late
    EngineMayDie

Kinds == {"wakeup", "generate", "sleep"}
Steps == 1..MaxSteps
RPCs == Kinds \X Steps

ASSUME EngineAssumption ==
    /\ MaxSteps \in Nat \ {0}
    /\ FaultyKinds \subseteq Kinds
    /\ EngineMayDie \in BOOLEAN

MaxConcurrency == 2   \* the actors' max_concurrency option

VARIABLES
    rpc,         \* per actor, the state of each RPC
    requests,    \* request_queue: RPCs
    responses,   \* response_queue: answers
    stream,      \* the ZMQ socket: the steps whose hidden states are in it
    memory,      \* the engine's GPU memory: "awake" or "asleep"
    alive,       \* the engine process
    received,    \* what the generate RPC of each step returned: a step, or 0
    faults       \* history: the kinds that have raised, been late, or died

engineVars == <<rpc, requests, responses, stream, memory, alive, received, faults>>

RPCPhases == {"none", "queued", "empty", "waiting", "reading", "ok", "failed"}
Answers == [of : RPCs, success : BOOLEAN]

EngineTypeOK ==
    /\ rpc \in [Actors -> [RPCs -> RPCPhases]]
    /\ requests \in [Actors -> Seq(RPCs)]
    /\ responses \in [Actors -> Seq(Answers)]
    /\ stream \in [Actors -> Seq(Steps)]
    /\ memory \in [Actors -> {"awake", "asleep"}]
    /\ alive \in [Actors -> BOOLEAN]
    /\ received \in [Actors -> [Steps -> 0..MaxSteps]]
    /\ faults \subseteq Kinds \cup {"death"}
    /\ \A a \in Actors : Cardinality({r \in RPCs : rpc[a][r] \in {"waiting", "reading"}})
                            <= MaxConcurrency

\* After TeacherRayActor.__init__ and the sidecar's first sleep.
EngineInit ==
    /\ rpc = [a \in Actors |-> [r \in RPCs |-> "none"]]
    /\ requests = [a \in Actors |-> <<>>]
    /\ responses = [a \in Actors |-> <<>>]
    /\ stream = [a \in Actors |-> <<>>]
    /\ memory = [a \in Actors |-> "asleep"]
    /\ alive = [a \in Actors |-> TRUE]
    /\ received = [a \in Actors |-> [s \in Steps |-> 0]]
    /\ faults = {}

-----------------------------------------------------------------------------
RPCGoes(a, r, phase) == rpc' = [rpc EXCEPT ![a][r] = phase]
Running(a) == {r \in RPCs : rpc[a][r] \in {"waiting", "reading"}}

\* Ray starts an actor's calls in the order they were submitted.
Rank(r) == 3 * r[2] + (CASE r[1] = "wakeup" -> 0 [] r[1] = "generate" -> 1 [] OTHER -> 2)
Pending(a) == {r \in RPCs : rpc[a][r] \in {"queued", "empty"}}
NextInLine(a, r) == r \in Pending(a) /\ \A q \in Pending(a) : Rank(r) <= Rank(q)

\* Mutant: the actor's threads are not counted.
StartUnbounded(a, r) ==
    /\ NextInLine(a, r)
    /\ IF rpc[a][r] = "empty"
       THEN RPCGoes(a, r, "ok") /\ UNCHANGED requests
       ELSE requests' = [requests EXCEPT ![a] = Append(@, r)] /\ RPCGoes(a, r, "waiting")
    /\ UNCHANGED <<responses, stream, memory, alive, received, faults>>

\* An actor thread takes up an RPC; only generate() looks first whether the
\* process is alive, and compute_hidden_states with no samples returns.
Start(a, r) ==
    /\ NextInLine(a, r)
    /\ Cardinality(Running(a)) < MaxConcurrency
    /\ IF rpc[a][r] = "empty"
       THEN RPCGoes(a, r, "ok") /\ UNCHANGED requests
       ELSE IF r[1] = "generate" /\ ~alive[a]
       THEN RPCGoes(a, r, "failed") /\ UNCHANGED requests
       ELSE /\ requests' = [requests EXCEPT ![a] = Append(@, r)]
            /\ RPCGoes(a, r, "waiting")
    /\ UNCHANGED <<responses, stream, memory, alive, received, faults>>

\* _get_response takes whatever answer is there.  generate() finds no
\* num_samples in the answer to another kind of request.
Receive(a, r) ==
    /\ rpc[a][r] = "waiting"
    /\ responses[a] # <<>>
    /\ LET answer == Head(responses[a])
       IN RPCGoes(a, r,
              IF ~answer.success THEN "failed"
              ELSE IF r[1] # "generate" THEN "ok"
              ELSE IF answer.of[1] = "generate" THEN "reading"
              ELSE "failed")
    /\ responses' = [responses EXCEPT ![a] = Tail(@)]
    /\ UNCHANGED <<requests, stream, memory, alive, received, faults>>

\* Mutant: the wait for an answer has no end.
GiveUpNever(a, r) == FALSE

\* _get_response gives up on a late answer, or finds the process dead.
GiveUp(a, r) ==
    /\ rpc[a][r] = "waiting"
    /\ responses[a] = <<>>
    /\ r[1] \in FaultyKinds \/ ~alive[a]
    /\ RPCGoes(a, r, "failed")
    /\ faults' = faults \cup (IF alive[a] THEN {r[1]} ELSE {})
    /\ UNCHANGED <<requests, responses, stream, memory, alive, received>>

\* The hidden states of the batch are read from the stream ...
Read(a, r) ==
    /\ rpc[a][r] = "reading"
    /\ stream[a] # <<>>
    /\ received' = [received EXCEPT ![a][r[2]] = Head(stream[a])]
    /\ stream' = [stream EXCEPT ![a] = Tail(@)]
    /\ RPCGoes(a, r, "ok")
    /\ UNCHANGED <<requests, responses, memory, alive, faults>>

\* ... or never come.
ReadTimesOut(a, r) ==
    /\ rpc[a][r] = "reading"
    /\ stream[a] = <<>>
    /\ RPCGoes(a, r, "failed")
    /\ UNCHANGED <<requests, responses, stream, memory, alive, received, faults>>

-----------------------------------------------------------------------------
Answer(a, answers) == responses' = [responses EXCEPT ![a] = @ \o answers]
Succeeded(r) == [of |-> r, success |-> TRUE]
Raised(r) == [of |-> r, success |-> FALSE]

\* _engine_worker handles the next request.  An engine without its weights
\* cannot generate.
Handle(a) ==
    /\ alive[a] /\ requests[a] # <<>>
    /\ LET r == Head(requests[a])
       IN /\ r[1] = "generate" => memory[a] = "awake"
          /\ Answer(a, <<Succeeded(r)>>)
          /\ stream' = IF r[1] = "generate" THEN [stream EXCEPT ![a] = Append(@, r[2])] ELSE stream
          /\ memory' = CASE r[1] = "wakeup" -> [memory EXCEPT ![a] = "awake"]
                         [] r[1] = "sleep" -> [memory EXCEPT ![a] = "asleep"]
                         [] OTHER -> memory
    /\ requests' = [requests EXCEPT ![a] = Tail(@)]
    /\ UNCHANGED <<rpc, alive, received, faults>>

\* The handler raises; _handle_generate may do so after its first answer, and
\* then there are two answers and no hidden states.
HandlerRaises(a) ==
    /\ alive[a] /\ requests[a] # <<>>
    /\ LET r == Head(requests[a])
       IN /\ r[1] \in FaultyKinds \/ (r[1] = "generate" /\ memory[a] = "asleep")
          /\ \/ Answer(a, <<Raised(r)>>)
             \/ r[1] = "generate" /\ memory[a] = "awake" /\ Answer(a, <<Succeeded(r), Raised(r)>>)
          /\ faults' = faults \cup (IF r[1] \in FaultyKinds THEN {r[1]} ELSE {})
    /\ requests' = [requests EXCEPT ![a] = Tail(@)]
    /\ UNCHANGED <<rpc, stream, memory, alive, received>>

\* External: the engine process dies, and its memory is free.
Die(a) ==
    /\ EngineMayDie /\ alive[a]
    /\ alive' = [alive EXCEPT ![a] = FALSE]
    /\ memory' = [memory EXCEPT ![a] = "asleep"]
    /\ faults' = faults \cup {"death"}
    /\ UNCHANGED <<rpc, requests, responses, stream, received>>

RPCStep(a, r) == Start(a, r) \/ Receive(a, r) \/ GiveUp(a, r) \/ Read(a, r) \/ ReadTimesOut(a, r)
EngineStep(a) == Handle(a) \/ HandlerRaises(a)
=============================================================================

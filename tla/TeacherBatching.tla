--------------------------- MODULE TeacherBatching ---------------------------
(***************************************************************************)
(* How one batch is dealt to the teacher actors and its hidden states are  *)
(* put together again: TeacherActorGroup.compute_hidden_states_batch       *)
(* (easyopd/methods/simple/teacher_group.py) with the part of each actor   *)
(* (teacher_actor.py).  TeacherSidecar has the RPCs, failures and time     *)
(* limits of the same call; here every actor answers.                      *)
(*                                                                         *)
(* A batch is the number of masked tokens of each sample, and a sample's   *)
(* hidden states are named by its index.  External: an engine may leave    *)
(* samples out of its answer.                                              *)
(***************************************************************************)
EXTENDS Naturals, SequencesExt

CONSTANTS
    MaxDpSize,    \* bound: actors
    MaxBatch,     \* bound: samples
    MaxTokens     \* bound: masked tokens of a sample

ASSUME BatchingAssumption ==
    MaxDpSize \in Nat \ {0} /\ MaxBatch \in Nat \ {0} /\ MaxTokens \in Nat

Batches == UNION {[1..n -> 0..MaxTokens] : n \in 1..MaxBatch}

\* min(range(dp_size), key=...): the first of those with the fewest tokens.
LeastLoaded(load) ==
    CHOOSE a \in DOMAIN load : \A b \in DOMAIN load :
        load[a] < load[b] \/ (load[a] = load[b] /\ a <= b)

\* Mutant: every sample adds the same load.
DealEvenly(counts, dealt, i) ==
    LET a == LeastLoaded(dealt.load) IN
    [samples |-> [dealt.samples EXCEPT ![a] = Append(@, i)],
     load |-> [dealt.load EXCEPT ![a] = @ + 1]]

Deal(counts, dealt, i) ==
    LET a == LeastLoaded(dealt.load) IN
    [samples |-> [dealt.samples EXCEPT ![a] = Append(@, i)],
     load |-> [dealt.load EXCEPT ![a] = @ + counts[i]]]

\* actor_assignments and actor_tokens, when all samples have been dealt.
NothingDealt(dpSize) ==
    [samples |-> [a \in 1..dpSize |-> <<>>], load |-> [a \in 1..dpSize |-> 0]]

Assigned(counts, dpSize) ==
    LET dealt[i \in 0..Len(counts)] ==
            IF i = 0 THEN NothingDealt(dpSize) ELSE Deal(counts, dealt[i-1], i)
    IN dealt[Len(counts)]

\* The engine's answer: what it has of the actor's samples, in their order.
StatesOf(samples, answered) ==
    LET states[j \in 0..Len(samples)] ==
            IF j = 0 THEN <<>>
            ELSE IF samples[j] \in answered THEN Append(states[j-1], samples[j])
            ELSE states[j-1]
    IN states[Len(samples)]

\* zip pairs what comes with the actor's indices, from the front.
Paired(samples, answered) ==
    LET states == StatesOf(samples, answered) IN
    [j \in DOMAIN states |-> <<samples[j], states[j]>>]

\* flat.sort by the first component, which keeps the order of equal ones.
InOrder(pairs) ==
    LET Before(i, j) == pairs[i][1] < pairs[j][1] \/ (pairs[i][1] = pairs[j][1] /\ i < j)
        Place(j) == 1 + Cardinality({i \in DOMAIN pairs : Before(i, j)})
    IN [k \in DOMAIN pairs |-> pairs[CHOOSE j \in DOMAIN pairs : Place(j) = k]]

\* All actors' pairs, sorted by their indices.
Flat(counts, dpSize, answered) ==
    LET samples == Assigned(counts, dpSize).samples IN
    InOrder(FlattenSeq([a \in 1..dpSize |-> Paired(samples[a], answered)]))

\* Mutant: results are believed to be complete.
RaisesNever(counts, dpSize, answered) == FALSE

\* The sanity check at the end.
Raises(counts, dpSize, answered) == Len(Flat(counts, dpSize, answered)) # Len(counts)

\* Whichever samples the engines leave out: the call raises, or its i-th array
\* holds the hidden states of the i-th sample.  An answer that is short in the
\* middle shifts the pairs behind it, and must be noticed.
Restored(counts, dpSize) ==
    \A answered \in SUBSET DOMAIN counts :
        \/ Raises(counts, dpSize, answered)
        \/ LET flat == Flat(counts, dpSize, answered) IN
           Len(flat) = Len(counts) /\ \A i \in DOMAIN flat : flat[i][2] = i

\* No actor is given more than the largest sample beyond what any other has,
\* and none is left idle by a large enough batch of non-empty masks.
Balanced(counts, dpSize) ==
    LET dealt == Assigned(counts, dpSize)
        largest == CHOOSE n \in 0..MaxTokens :
                      (\E i \in DOMAIN counts : counts[i] = n) /\ \A i \in DOMAIN counts : counts[i] <= n
    IN /\ \A a, b \in 1..dpSize : dealt.load[a] <= dealt.load[b] + largest
       /\ (\A i \in DOMAIN counts : counts[i] > 0) /\ Len(counts) >= dpSize
             => \A a \in 1..dpSize : dealt.samples[a] # <<>>

AllRestored == \A counts \in Batches, n \in 1..MaxDpSize : Restored(counts, n)
AllBalanced == \A counts \in Batches, n \in 1..MaxDpSize : Balanced(counts, n)

\* Every batch that the teacher group computes comes back in order or not at
\* all, and is shared out fairly.
EveryBatchRestored == AllRestored /\ AllBalanced
=============================================================================

---------------------------- MODULE SharedRequests ----------------------------
(***************************************************************************)
(* What create_text promises to concurrent calls with equal input, without *)
(* a table, futures, a scheduler or its shutdown: a call sends a request,  *)
(* or joins the one that an equal call has under way; every request is     *)
(* answered once, and each call that shares it ends with that answer.      *)
(* Nobody joins a request that has been answered, so that an answer is     *)
(* never older than the call.                                              *)
(***************************************************************************)
CONSTANTS Requests, FingerprintOf, NoFingerprint, NoRequest

VARIABLES
    joined,     \* the call whose request each call sent or joined
    answer,     \* the answer to each call's own request
    outcome     \* what each call has returned, or raised

sharedVars == <<joined, answer, outcome>>

UnderWay(f) == {r \in Requests : joined[r] = r /\ answer[r] = "pending" /\ FingerprintOf[r] = f}
Joins(c, r) == joined' = [joined EXCEPT ![c] = r]

SharedInit ==
    /\ joined = [c \in Requests |-> NoRequest]
    /\ answer = [c \in Requests |-> "pending"]
    /\ outcome = [c \in Requests |-> "pending"]

Send(c) ==
    /\ joined[c] = NoRequest
    /\ FingerprintOf[c] # NoFingerprint => UnderWay(FingerprintOf[c]) = {}
    /\ Joins(c, c)
    /\ UNCHANGED <<answer, outcome>>

Join(c) ==
    /\ joined[c] = NoRequest
    /\ FingerprintOf[c] # NoFingerprint
    /\ \E r \in UnderWay(FingerprintOf[c]) : Joins(c, r)
    /\ UNCHANGED <<answer, outcome>>

Answer(c) ==
    /\ joined[c] = c
    /\ answer[c] = "pending"
    /\ \E a \in {"result", "exception"} : answer' = [answer EXCEPT ![c] = a]
    /\ UNCHANGED <<joined, outcome>>

Return(c) ==
    /\ joined[c] # NoRequest
    /\ outcome[c] = "pending"
    /\ answer[joined[c]] # "pending"
    /\ outcome' = [outcome EXCEPT ![c] = answer[joined[c]]]
    /\ UNCHANGED <<joined, answer>>

SharedNext == \E c \in Requests : Send(c) \/ Join(c) \/ Answer(c) \/ Return(c)

SharedSpec == SharedInit /\ [][SharedNext]_sharedVars
=============================================================================

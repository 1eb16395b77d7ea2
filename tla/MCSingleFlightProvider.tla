------------------------ MODULE MCSingleFlightProvider ------------------------
(* SingleFlightProvider: three calls share a fingerprint, a fourth has none. *)
EXTENDS SingleFlightProvider

CONSTANTS c1, c2, c3, lone, w1, prompt
MCCalls == {c1, c2, c3, lone}
MCWorkers == {w1}
MCFingerprints == [c \in MCCalls |-> IF c = lone THEN NoFingerprint ELSE prompt]
MCSamePriority == [c \in MCCalls |-> 0]
=============================================================================

-------------------------- MODULE MCTeacherSidecar --------------------------
(* TeacherSidecar with two engines and a few training steps, and how a batch
   is dealt to up to three of them. *)
EXTENDS TeacherSidecar, TeacherBatching, TLC

CONSTANTS a1, a2
MCActors == {a1, a2}
MCSymmetry == Permutations(MCActors)
MCAll == Kinds
MCSleepOnly == {"sleep"}
MCWakeOnly == {"wakeup"}

\* While the engines compute a batch, it is one that was dealt and that will be
\* put together as EveryBatchRestored says.
BatchDealtAndRestored == phase = "computing" => EveryBatchRestored
=============================================================================

------------------------ MODULE MCTrainerCheckpoint -------------------------
(* TrainerCheckpoint with two ranks. *)
EXTENDS TrainerCheckpoint, TLC
CONSTANTS rank0, rank1
MCRanks == {rank0, rank1}
=============================================================================

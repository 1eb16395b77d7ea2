-------------------------- MODULE MCRewardQualityGate --------------------------
(***************************************************************************)
(* Small instances of RewardQualityGate.  Groups, and pairs across groups, *)
(* are interchangeable for the safety properties.                          *)
(***************************************************************************)
EXTENDS RewardQualityGate, TLC

CONSTANTS g1, g2, i1, i2

MCGroups == {g1, g2}
MCPairIndices == {i1, i2}
MCSymmetry == Permutations(MCGroups) \cup Permutations(MCPairIndices)
=============================================================================

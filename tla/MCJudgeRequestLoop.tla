------------------------- MODULE MCJudgeRequestLoop -------------------------
(* JudgeRequestLoop on two threads, with small thresholds and budgets. *)
EXTENDS JudgeRequestLoop

CONSTANTS c1, c2
MCTwoCallers == {c1, c2}

MCOneKind == {"incomplete"}
MCOneKindRetries == [k \in MCOneKind |-> 1]
=============================================================================

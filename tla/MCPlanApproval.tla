--------------------------- MODULE MCPlanApproval ---------------------------
(***************************************************************************)
(* TLC instances of PlanApproval.                                          *)
(***************************************************************************)
EXTENDS PlanApproval, TLC

Symmetry == Permutations(Run) \cup Permutations(Call)
=============================================================================

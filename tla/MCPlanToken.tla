----------------------------- MODULE MCPlanToken -----------------------------
(* A manifest of two rows, and the manifest with its first row gone.          *)
EXTENDS PlanToken, TLC

CONSTANTS c1, c2, f1, f2

MCRows == (c1 :> <<f1, f2>>) @@ (c2 :> <<f2>>)
AgentSymmetry == Permutations(Agent) \cup Permutations(Token)
=============================================================================

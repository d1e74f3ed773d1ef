----------------------------- MODULE MCPlanWatch -----------------------------
(* A schedule with up to two reloads in flight, while others write.         *)
EXTENDS PlanWatch, TLC

\* Requests differ in nothing but their names.
GetSymmetry == Permutations(Gets)
=============================================================================

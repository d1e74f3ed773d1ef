-------------------------- MODULE MCProjectClosure --------------------------
(* Four requests of any kind race on a project in any initial status.       *)
EXTENDS ProjectClosure, TLC

\* Slots differ in nothing but their names.
SlotSymmetry == Permutations(Slots)
=============================================================================

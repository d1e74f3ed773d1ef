---------------------------- MODULE PlanHistory -----------------------------
(***************************************************************************)
(* What the write path promises, without requests, locks or transactions:  *)
(* the plan has one linear history.  Entry v of chain is the plan at       *)
(* version v with the commands that led to it.  A step appends one entry,  *)
(* whose plan is the previous one with all of its commands stored; nothing *)
(* else ever changes the plan or an earlier entry.                         *)
(*                                                                         *)
(* (docs/decisions/2026-07-18-linear-plan-history.md describes the same.)  *)
(***************************************************************************)
EXTENDS PlanCommands

CONSTANT InitialPlan

VARIABLE chain

Entry == [plan: Plans, cmds: Seq(Commands)]

TypeOK == chain \in Seq(Entry) /\ chain # << >>

Init == chain = <<[plan |-> InitialPlan, cmds |-> << >>]>>

\* One more commit, with any commands: its whole batch or nothing.
Extend ==
    LET v == Len(chain)
    IN  /\ Len(chain') = v + 1
        /\ SubSeq(chain', 1, v) = chain
        /\ chain'[v + 1].plan = Stored(chain[v].plan, chain'[v + 1].cmds)

Spec == Init /\ [][Extend]_chain
=============================================================================

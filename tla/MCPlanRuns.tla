----------------------------- MODULE MCPlanRuns ------------------------------
(* One staged run is proposed, applied, rejected, expires and is purged     *)
(* while the plan is edited, by every kind of request.                      *)
EXTENDS PlanWrites, TLC

CONSTANTS t1, ann, bob, r1

MCTasks == {t1}

MCInitialPlan == t1 :> [status |-> "new", progress |-> 0, units |-> 1, archived |-> FALSE]

Request(kind, actor, cmds, run) ==
    [kind |-> kind, actor |-> actor, key |-> NoKey, cmds |-> cmds, run |-> run]

Reassignment ==
    <<[op |-> "unassign", task |-> t1], [op |-> "assign", task |-> t1, units |-> 2]>>

MCTemplates ==
    {Request("propose_scenario", ann, Reassignment, NoRun),
     Request("propose_solver", bob, Reassignment, NoRun),
     Request("apply", ann, << >>, r1),
     Request("reject", bob, << >>, r1),
     Request("commands", ann, <<[op |-> "progress", task |-> t1, percent |-> 30]>>, NoRun),
     Request("archive", bob, <<[op |-> "archive", task |-> t1]>>, NoRun)}
==============================================================================

----------------------------- MODULE MCPlanEdits -----------------------------
(* Two clients edit and revert a plan while a participant moves a task.     *)
(* Answers get lost and are asked for again under the same key; keys are    *)
(* also misused for other commands, by another user and for a revert.       *)
EXTENDS PlanWrites, TLC

CONSTANTS t1, t2, ann, bob, k1, k2

\* Slots differ in nothing but their names.
SlotSymmetry == Permutations(Slots)

MCTasks == {t1, t2}

MCInitialPlan ==
    t1 :> [status |-> "new", progress |-> 0, units |-> 1, archived |-> FALSE]
        @@ t2 :> [status |-> "in_progress", progress |-> 40, units |-> 0, archived |-> FALSE]

Request(kind, actor, key, cmds) ==
    [kind |-> kind, actor |-> actor, key |-> key, cmds |-> cmds, run |-> NoRun]

Status(t, status) == [op |-> "status", task |-> t, status |-> status]
Progress(t, percent) == [op |-> "progress", task |-> t, percent |-> percent]
Assign(t, units) == [op |-> "assign", task |-> t, units |-> units]

\* 120 is not a percentage: refused, and not remembered under its key.
MCTemplates ==
    {Request("commands", ann, k1, <<Assign(t1, 2), Status(t2, "review")>>),
     Request("commands", bob, k1, <<Progress(t2, 70)>>),
     Request("commands", ann, k1, <<Progress(t2, 120)>>),
     Request("commands", bob, NoKey, <<Progress(t2, 70)>>),
     Request("revert", ann, k1, << >>),
     Request("revert", bob, k2, << >>),
     Request("transition", bob, NoKey, <<Status(t1, "in_progress")>>)}
==============================================================================

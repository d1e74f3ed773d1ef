---------------------------- MODULE PlanCommands ----------------------------
(***************************************************************************)
(* Planning commands as pure functions of a plan: what the preview thinks  *)
(* a command does (packages/domain commandReducer), what the repository    *)
(* stores for it (packages/persistence applyPlanningCommand) and the       *)
(* inverse that a revert applies (compensatingCommands).                   *)
(*                                                                         *)
(* The three live in three files and are kept consistent by hand, which is *)
(* why they are three operators here.                                      *)
(*                                                                         *)
(* A plan keeps, of each task, the fields these commands touch: its status *)
(* category, its progress in percent, the units of its one assignment (0   *)
(* when nobody is assigned) and whether it is archived.  A field that      *)
(* behaves like one of these (title, dates, dependency lag) is abstracted. *)
(***************************************************************************)
EXTENDS Integers, Sequences

CONSTANTS
    Tasks,      \* the task ids of the project
    MaxUnits    \* bound on the units of an assignment

ASSUME UnitsAssumption == MaxUnits \in Nat \ {0}

\* TaskStatusCategory
Statuses == {"new", "waiting", "in_progress", "review", "done"}

TaskRow == [status: Statuses, progress: 0..100, units: 0..MaxUnits, archived: BOOLEAN]

Plans == [Tasks -> TaskRow]

Commands ==
    [op: {"status"}, task: Tasks, status: Statuses]
        \cup [op: {"progress"}, task: Tasks, percent: Int]
        \cup [op: {"assign"}, task: Tasks, units: 1..MaxUnits]
        \cup [op: {"unassign", "archive"}, task: Tasks]

-----------------------------------------------------------------------------
(* commandReducer.ts: the preview.                                         *)

\* validateCommandPreconditions: the snapshot lists active tasks only, a
\* progress must be a percentage, and only an existing assignment is deleted.
Allowed(p, c) ==
    /\ ~p[c.task].archived
    /\ c.op = "progress" => c.percent \in 0..100
    /\ c.op = "unassign" => p[c.task].units # 0

\* The effect of one command on one task row, given the progress that the
\* command leaves behind: the preview and the repository differ only there.
Effect(row, c, progressAfter) ==
    CASE c.op = "status"   -> [row EXCEPT !.status = c.status, !.progress = progressAfter]
      [] c.op = "progress" -> [row EXCEPT !.progress = progressAfter]
      [] c.op = "assign"   -> [row EXCEPT !.units = c.units]
      [] c.op = "unassign" -> [row EXCEPT !.units = 0]
      [] c.op = "archive"  -> [row EXCEPT !.archived = TRUE]

\* Math.max(0, Math.min(100, x))
Clamp(x) == IF x < 0 THEN 0 ELSE IF x > 100 THEN 100 ELSE x

AtLeast_Sum(x, floor) == x + floor    \* mutated: adds where it should raise

\* SQL greatest(x, floor)
AtLeast(x, floor) == IF x < floor THEN floor ELSE x

\* reducePlanningCommand: a status command leaves the progress alone.  A
\* command that is not allowed returns the snapshot it was given.
Reduce(p, c) ==
    IF ~Allowed(p, c) THEN p
    ELSE [p EXCEPT ![c.task] =
            Effect(@, c, IF c.op = "progress" THEN Clamp(c.percent) ELSE @.progress)]

-----------------------------------------------------------------------------
(* planningRepository.ts: what is stored.                                  *)

\* deriveProgressExpression
DerivedProgress(status, progress) ==
    CASE status = "done"        -> 100
      [] status = "new"         -> 0
      [] status = "in_progress" -> AtLeast(progress, 10)
      [] status = "review"      -> AtLeast(progress, 80)
      [] status = "waiting"     -> progress

StoredProgress(row, c) ==
    CASE c.op = "progress" -> Clamp(c.percent)
      [] c.op = "status"   -> DerivedProgress(c.status, row.progress)
      [] OTHER             -> row.progress

\* applyPlanningCommand: no precondition of its own, the routes have checked.
Persist(p, c) ==
    [p EXCEPT ![c.task] = Effect(@, c, StoredProgress(@, c))]

-----------------------------------------------------------------------------
(* Batches: the loop `for (const command of commands)` of every route.     *)

\* previewPlanningCommands: is some command not allowed in the snapshot that
\* the preview of the earlier ones has produced?
Blocked(p, cmds) ==
    LET seen[n \in 0..Len(cmds)] ==
            IF n = 0 THEN p ELSE Reduce(seen[n - 1], cmds[n])
    IN  \E i \in 1..Len(cmds) : ~Allowed(seen[i - 1], cmds[i])

\* The plan after all the commands are stored, one after the other.
Stored(p, cmds) ==
    LET after[n \in 0..Len(cmds)] ==
            IF n = 0 THEN p ELSE Persist(after[n - 1], cmds[n])
    IN  after[Len(cmds)]

-----------------------------------------------------------------------------
(* compensatingCommands.ts                                                 *)

\* A command is irreversible when buildCompensatingCommands returns [].
Reversible(c, before) ==
    CASE c.op = "archive"  -> FALSE
      [] c.op = "unassign" -> before[c.task].units # 0 /\ ~before[c.task].archived
      [] c.op = "assign"   -> TRUE
      [] OTHER             -> ~before[c.task].archived

\* buildCompensatingCommands: the command that restores the field the command
\* names, computed from the snapshot before the commit.
Inverse(c, before) ==
    LET row == before[c.task]
    IN  CASE c.op = "status"   -> [op |-> "status", task |-> c.task, status |-> row.status]
          [] c.op = "progress" -> [op |-> "progress", task |-> c.task, percent |-> row.progress]
          [] c.op \in {"assign", "unassign"} ->
                IF row.units = 0 THEN [op |-> "unassign", task |-> c.task]
                ELSE [op |-> "assign", task |-> c.task, units |-> row.units]
          [] c.op = "archive"  -> c

\* buildCompensatingCommandBatch: [] as soon as one command is irreversible,
\* else the inverses in reverse order, all from the same snapshot.
Compensations(cmds, before) ==
    IF \E i \in DOMAIN cmds : ~Reversible(cmds[i], before) THEN << >>
    ELSE [i \in 1..Len(cmds) |-> Inverse(cmds[Len(cmds) + 1 - i], before)]
=============================================================================

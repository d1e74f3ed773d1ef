--------------------------- MODULE ProjectClosure ---------------------------
(***************************************************************************)
(* The status of one project against the writes of its plan: pausing,      *)
(* resuming, closing with a snapshot and reopening.                        *)
(*                                                                         *)
(* Each request is one READ COMMITTED transaction: every statement sees    *)
(* what is committed when it runs, and an UPDATE of the project row waits  *)
(* for the row lock of another transaction that has updated it.  Plan      *)
(* writes take the tenant lock (PlanWrites has their details); requests    *)
(* that change the project's status do not take it, and plan writes do not *)
(* lock the project row.                                                   *)
(*                                                                         *)
(* The tasks at plan version v are abstracted to v itself: a plan commit   *)
(* changes tasks and version together.                                     *)
(***************************************************************************)
EXTENDS Integers, FiniteSets

CONSTANTS
    Slots,      \* requests; a slot serves one, their number bounds a behaviour
    NoClosure   \* of a project without closure snapshot

Statuses == {"active", "paused", "closed", "cancelled"}

Transitions == {"pause", "resume", "reopen"}

\* Plan writes by what they do about the project's status: "commands" stands
\* for apply-command, batch and revert, "apply" for scenario and solver runs.
Writers == {"commands", "apply", "transition", "archive"}

Kinds == {"close"} \cup Transitions \cup Writers

\* STATUS_TRANSITIONS
From == [pause |-> {"active"}, resume |-> {"paused"}, reopen |-> {"closed", "cancelled"}]

Target == [pause |-> "paused", resume |-> "active", reopen |-> "active"]

Closable == {"active", "paused"}

VARIABLES
    status,       \* projects.status
    planVersion,  \* plan_versions.version
    closure,      \* project_closure_snapshots: its unique index allows one
    rowLock,      \* transactions with an uncommitted update of the project row
    planLock,     \* holders of the tenant's planning lock
    pc, kind,     \* per slot: progress, kind of request
    seen,         \* per slot: what its transaction has read
    answer,       \* per slot: what the client got
    lateWrites    \* (not in the code) plan commits since the project was closed,
                  \* other than archiving a task

locks == <<rowLock, planLock>>
vars == <<status, planVersion, closure, locks, pc, kind, seen, answer, lateWrites>>

Outcomes ==
    {"none", "ok", "existing", "missing", "not_allowed", "not_closable", "error", "lost"}

ASSUME NoClosureAssumption == NoClosure \notin [version: Nat, tasks: Nat, before: Closable]

\* 0 and "unread" stand for what has not been read yet.
Seen == [status: Statuses \cup {"unread"}, version: Nat, tasks: Nat]

Closures == [version: Nat, tasks: Nat, before: Closable]

Init ==
    /\ status \in {"active", "paused", "cancelled"}
    /\ planVersion = 1
    /\ closure = NoClosure
    /\ rowLock = {}
    /\ planLock = {}
    /\ pc = [s \in Slots |-> "idle"]
    /\ kind \in [Slots -> Kinds]    \* what each client is going to ask
    /\ seen = [s \in Slots |-> [status |-> "unread", version |-> 0, tasks |-> 0]]
    /\ answer = [s \in Slots |-> "none"]
    /\ lateWrites = 0

-----------------------------------------------------------------------------
\* One statement follows another in the same transaction.
Goto(s, label) ==
    /\ pc' = [pc EXCEPT ![s] = label]
    /\ UNCHANGED <<answer, locks>>

\* The transaction ends and its locks with it.
End(s, outcome) ==
    /\ pc' = [pc EXCEPT ![s] = "done"]
    /\ answer' = [answer EXCEPT ![s] = outcome]
    /\ rowLock' = rowLock \ {s}
    /\ planLock' = planLock \ {s}

Send(s) ==
    /\ pc[s] = "idle"
    /\ Goto(s, "sent")
    /\ UNCHANGED <<status, planVersion, closure, kind, seen, lateWrites>>

-----------------------------------------------------------------------------
(* transitionProjectStatus                                                 *)

\* findProjectById and the check of its status.
CheckTransition(s) ==
    /\ pc[s] = "sent"
    /\ kind[s] \in Transitions
    /\ IF status \in From[kind[s]] THEN Goto(s, "updating") ELSE End(s, "not_allowed")
    /\ UNCHANGED <<status, planVersion, closure, kind, seen, lateWrites>>

UpdateStatus_Unchecked(s) ==    \* mutated: no expectedStatuses in the WHERE clause
    /\ pc[s] = "updating"
    /\ rowLock = {}
    /\ rowLock' = {s}
    /\ pc' = [pc EXCEPT ![s] = "updated"]
    /\ UNCHANGED <<status, planVersion, closure, planLock, kind, seen, answer, lateWrites>>

\* updateProjectStatus: UPDATE ... WHERE status IN expectedStatuses, which is
\* evaluated on the row that is committed once the row lock is free.
UpdateStatus(s) ==
    /\ pc[s] = "updating"
    /\ rowLock = {}
    /\ IF status \in From[kind[s]]
       THEN /\ rowLock' = {s}
            /\ pc' = [pc EXCEPT ![s] = "updated"]
            /\ UNCHANGED <<planLock, answer>>
       ELSE End(s, "not_allowed")
    /\ UNCHANGED <<status, planVersion, closure, kind, seen, lateWrites>>

CommitTransition(s) ==
    /\ pc[s] = "updated"
    /\ status' = Target[kind[s]]
    /\ End(s, "ok")
    /\ UNCHANGED <<planVersion, closure, kind, seen, lateWrites>>

-----------------------------------------------------------------------------
(* The closure route.                                                      *)

FindProject_Forgetful(s) ==    \* mutated: the status is not kept for projectStatusBefore
    /\ pc[s] = "sent"
    /\ kind[s] = "close"
    /\ \/ /\ status \in Closable
          /\ Goto(s, "snapshotting")
       \/ /\ status \notin Closable
          /\ End(s, IF status = "closed" /\ closure # NoClosure THEN "existing" ELSE "not_closable")
    /\ UNCHANGED <<status, planVersion, closure, kind, seen, lateWrites>>

\* A project that was closed before returns its snapshot; getPlanSnapshot
\* comes next for one that can be closed.
FindProject(s) ==
    /\ pc[s] = "sent"
    /\ kind[s] = "close"
    /\ \/ /\ status \in Closable
          /\ seen' = [seen EXCEPT ![s].status = status]
          /\ Goto(s, "snapshotting")
       \/ /\ status \notin Closable
          /\ End(s, IF status = "closed" /\ closure # NoClosure THEN "existing" ELSE "not_closable")
          /\ UNCHANGED seen
    /\ UNCHANGED <<status, planVersion, closure, kind, lateWrites>>

\* getPlanSnapshot selects the project row first, active projects only.
SelectProject(s) ==
    /\ pc[s] = "snapshotting"
    /\ IF status = "active" THEN Goto(s, "reading") ELSE End(s, "missing")
    /\ UNCHANGED <<status, planVersion, closure, kind, seen, lateWrites>>

\* Its Promise.all then reads the version and the task rows by separate
\* statements, in an order that the code does not fix.
SelectVersion(s) ==
    /\ pc[s] = "reading"
    /\ seen[s].version = 0
    /\ seen' = [seen EXCEPT ![s].version = planVersion]
    /\ UNCHANGED <<status, planVersion, closure, locks, pc, kind, answer, lateWrites>>

SelectTasks(s) ==
    /\ pc[s] = "reading"
    /\ seen[s].tasks = 0
    /\ seen' = [seen EXCEPT ![s].tasks = planVersion]
    /\ UNCHANGED <<status, planVersion, closure, locks, pc, kind, answer, lateWrites>>

\* closeProject throws project_not_closable, which the route answers with the
\* existing snapshot when there is one.
NotClosable(s) == End(s, IF closure # NoClosure THEN "existing" ELSE "not_closable")

\* The first statement of closeProject reads the status again.
RecheckStatus(s) ==
    /\ pc[s] = "reading"
    /\ seen[s].version # 0
    /\ seen[s].tasks # 0
    /\ IF status \in Closable THEN Goto(s, "closing") ELSE NotClosable(s)
    /\ UNCHANGED <<status, planVersion, closure, kind, seen, lateWrites>>

CloseRow_Upsert(s) ==    \* mutated: the snapshot row is inserted or replaced
    /\ pc[s] = "closing"
    /\ rowLock = {}
    /\ IF status \in Closable
       THEN /\ rowLock' = {s}
            /\ pc' = [pc EXCEPT ![s] = "closed_row"]
            /\ UNCHANGED <<planLock, answer>>
       ELSE NotClosable(s)
    /\ UNCHANGED <<status, planVersion, closure, kind, seen, lateWrites>>

\* UPDATE ... WHERE status is active or paused, then the INSERT of the
\* snapshot: a second one violates the unique index, an error nobody maps.
CloseRow(s) ==
    /\ pc[s] = "closing"
    /\ rowLock = {}
    /\ \/ /\ status \notin Closable
          /\ NotClosable(s)
       \/ /\ status \in Closable
          /\ closure # NoClosure
          /\ End(s, "error")
       \/ /\ status \in Closable
          /\ closure = NoClosure
          /\ rowLock' = {s}
          /\ pc' = [pc EXCEPT ![s] = "closed_row"]
          /\ UNCHANGED <<planLock, answer>>
    /\ UNCHANGED <<status, planVersion, closure, kind, seen, lateWrites>>

CommitClose_StatusFirst(s) ==    \* mutated: the snapshot is stored by a later transaction
    /\ pc[s] = "closed_row"
    /\ status' = "closed"
    /\ lateWrites' = 0
    /\ End(s, "ok")
    /\ UNCHANGED <<planVersion, closure, kind, seen>>

\* projectStatusBefore and planVersion are those read at the beginning.
CommitClose(s) ==
    /\ pc[s] = "closed_row"
    /\ status' = "closed"
    /\ closure' = [version |-> seen[s].version, tasks |-> seen[s].tasks,
                   before |-> seen[s].status]
    /\ lateWrites' = 0
    /\ End(s, "ok")
    /\ UNCHANGED <<planVersion, kind, seen>>

-----------------------------------------------------------------------------
(* Plan writes.                                                            *)

LockPlan_NoLock(s) ==    \* mutated: the write does not wait for the tenant lock
    /\ pc[s] = "sent"
    /\ kind[s] \in Writers
    /\ planLock' = planLock \cup {s}
    /\ pc' = [pc EXCEPT ![s] = "locked"]
    /\ UNCHANGED <<status, planVersion, closure, rowLock, kind, seen, answer, lateWrites>>

LockPlan(s) ==
    /\ pc[s] = "sent"
    /\ kind[s] \in Writers
    /\ planLock = {}
    /\ planLock' = {s}
    /\ pc' = [pc EXCEPT ![s] = "locked"]
    /\ UNCHANGED <<status, planVersion, closure, rowLock, kind, seen, answer, lateWrites>>

\* getPlanSnapshot or findActiveProject; archiving does not ask.
ReadPlan(s) ==
    /\ pc[s] = "locked"
    /\ IF kind[s] = "archive" \/ status = "active"
       THEN /\ seen' = [seen EXCEPT ![s].version = planVersion]
            /\ Goto(s, "writing")
       ELSE /\ End(s, "missing")
            /\ UNCHANGED seen
    /\ UNCHANGED <<status, planVersion, closure, kind, lateWrites>>

\* After its writes a planning route reads the snapshot back.  When that finds
\* no active project, a command or revert throws, which rolls back; a scenario
\* or solver apply returns its 404 from a transaction that commits.
ReadBack(s) ==
    /\ pc[s] = "writing"
    /\ seen' = [seen EXCEPT ![s].status = status]
    /\ IF kind[s] = "commands" /\ status # "active" THEN End(s, "missing") ELSE Goto(s, "written")
    /\ UNCHANGED <<status, planVersion, closure, kind, lateWrites>>

CommitPlan(s) ==
    /\ pc[s] = "written"
    /\ planVersion' = seen[s].version + 1
    /\ lateWrites' = IF status = "closed" /\ kind[s] # "archive" THEN lateWrites + 1 ELSE lateWrites
    /\ End(s, IF kind[s] = "apply" /\ seen[s].status # "active" THEN "missing" ELSE "ok")
    /\ UNCHANGED <<status, closure, kind, seen>>

-----------------------------------------------------------------------------
\* The process or its connection is lost: rolled back, or not told.
Crash(s) ==
    /\ pc[s] \notin {"idle", "done"}
    /\ End(s, "lost")
    /\ UNCHANGED <<status, planVersion, closure, kind, seen, lateWrites>>

Next ==
    \E s \in Slots :
        \/ Send(s)
        \/ CheckTransition(s)
        \/ UpdateStatus(s)
        \/ CommitTransition(s)
        \/ FindProject(s)
        \/ SelectProject(s)
        \/ SelectVersion(s)
        \/ SelectTasks(s)
        \/ RecheckStatus(s)
        \/ CloseRow(s)
        \/ CommitClose(s)
        \/ LockPlan(s)
        \/ ReadPlan(s)
        \/ ReadBack(s)
        \/ CommitPlan(s)
        \/ Crash(s)

Spec == Init /\ [][Next]_vars

-----------------------------------------------------------------------------
(* Properties.                                                             *)

\* Every variable has its type.
TypeOK ==
    /\ status \in Statuses
    /\ planVersion \in Nat \ {0}
    /\ closure \in Closures \cup {NoClosure}
    /\ rowLock \subseteq Slots
    /\ planLock \subseteq Slots
    /\ pc \in [Slots -> {"idle", "sent", "updating", "updated", "snapshotting", "reading",
                         "closing", "closed_row", "locked", "writing", "written", "done"}]
    /\ kind \in [Slots -> Kinds]
    /\ seen \in [Slots -> Seen]
    /\ answer \in [Slots -> Outcomes]
    /\ lateWrites \in Nat

\* The status moves along the edges of the lifecycle only, although each
\* request checks it in one statement and changes it in another.
StatusEdges ==
    {<<"active", "paused">>, <<"paused", "active">>, <<"active", "closed">>,
     <<"paused", "closed">>, <<"closed", "active">>, <<"cancelled", "active">>}

StatusMoves == [][(<<status, status'>> \in StatusEdges)]_status

\* The closure snapshot is immutable: what one closing has stored survives a
\* reopening and every later attempt to close.
ClosureImmutable == [][closure = NoClosure]_closure

Closers == {s \in Slots : kind[s] = "close" /\ answer[s] = "ok"}

\* A closed project has its snapshot, a client that was told of a closure can
\* read it, and of all requests to close, racing or repeated, only one did.
ClosedOnce ==
    /\ status = "closed" => closure # NoClosure
    /\ \A s \in Slots : answer[s] = "existing" => closure # NoClosure
    /\ \A r, s \in Closers : r = s /\ closure # NoClosure

\* The plan of a closed project is not edited any more: at most the one write
\* that held the tenant lock when the project was closed still commits.
OneLateWrite == lateWrites <= 1

-----------------------------------------------------------------------------
(* What the repository says of itself and the code does not do.            *)

\* The snapshot's payload is the plan at the version stored with it.
SnapshotConsistent == closure # NoClosure => closure.tasks = closure.version
=============================================================================

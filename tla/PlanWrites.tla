----------------------------- MODULE PlanWrites -----------------------------
(***************************************************************************)
(* The write path of one project's plan: every HTTP request that changes   *)
(* the plan, from the moment a client sends it to the answer it gets, with *)
(* the PostgreSQL transaction in between.                                  *)
(*                                                                         *)
(* A slot of Slots is one request in flight.  Its transaction takes the    *)
(* tenant advisory lock, reads the committed rows, decides, writes its     *)
(* commands one by one, reads and increments the plan version, and commits *)
(* (or is lost with its process).  What it has written is its own until it *)
(* commits: that is tx[s]; plan, planVersion, audit, idem and runs are the *)
(* committed rows.                                                         *)
(*                                                                         *)
(* Requests do not share anything but these rows, so an interleaving of    *)
(* slots is an interleaving of the API processes' requests.                *)
(***************************************************************************)
EXTENDS PlanCommands, FiniteSets

CONSTANTS
    Slots,       \* requests in flight; a slot serves one request, so their
                 \* number bounds the requests of a behaviour
    Templates,   \* what clients may ask for, see Template
    Actors,      \* users
    Keys,        \* idempotency keys
    NoKey,       \* of a request without one
    Runs,        \* ids of scenario and solver runs
    NoRun,       \* of a request that names none
    NoEnvelope,  \* of a slot that has no request yet
    InitialPlan  \* the plan at version 1

(***************************************************************************)
(* The kinds of requests.  "commands" stands for apply-command and         *)
(* apply-command-batch, "transition" and "archive" for the project-work    *)
(* routes that write the plan without a client version.                    *)
(***************************************************************************)
ProposeKinds == {"propose_scenario", "propose_solver"}
PlanningKinds == {"commands", "revert", "apply", "reject"} \cup ProposeKinds
WorkKinds == {"transition", "archive"}

Template ==
    [kind: PlanningKinds \cup WorkKinds, actor: Actors, key: Keys \cup {NoKey},
     cmds: Seq(Commands), run: Runs \cup {NoRun}]

\* What the URL and the body schemas ensure: only commands and reverts can
\* carry an idempotency key, apply and reject name a run, a transition is one
\* status command and archiving one archive command.
WellFormed(request) ==
    /\ request.key # NoKey => request.kind \in {"commands", "revert"}
    /\ request.kind \in {"apply", "reject"} => request.run \in Runs
    /\ request.kind \in WorkKinds =>
        /\ Len(request.cmds) = 1
        /\ request.cmds[1].op = IF request.kind = "transition" THEN "status" ELSE "archive"

\* A template with the plan version the client believes in and, for a revert,
\* the audit event it names (0: an id that does not exist).
Envelopes ==
    {e \in [kind: PlanningKinds \cup WorkKinds, actor: Actors, key: Keys \cup {NoKey},
            cmds: Seq(Commands), run: Runs \cup {NoRun}, cv: Nat, target: Nat] : WellFormed(e)}

ASSUME TemplatesAssumption ==
    /\ Templates \subseteq Template
    /\ \A t \in Templates : WellFormed(t)

ASSUME InitialPlanAssumption == InitialPlan \in Plans

VARIABLES
    plan,         \* the committed task rows
    planVersion,  \* plan_versions.version
    audit,        \* audit_events, oldest first; an event's id is its index
    idem,         \* planning_command_idempotency_keys, at most one per key
    runs,         \* planning_scenario_runs and planning_solver_runs
    lock,         \* holders of the tenant's advisory lock
    pc, env, tx,  \* per slot: progress, request, transaction
    answer,       \* per slot: what the client got
    history       \* (not in the code) plan contents by version

rows == <<plan, planVersion, audit, idem, runs, history>>
vars == <<plan, planVersion, audit, idem, runs, lock, pc, env, tx, answer, history>>

-----------------------------------------------------------------------------
Outcomes ==
    {"none", "ok", "replay", "lost", "noop", "conflict", "key_conflict", "missing",
     "applied", "rejected", "expired", "reverted", "not_revertible",
     "not_current", "blocked"}

Answer == [outcome: Outcomes, version: Nat]

\* A row of the run tables.  version is planVersion of a scenario run and
\* clientPlanVersion of a solver run.
RunRow ==
    [there: BOOLEAN, solver: BOOLEAN, version: Nat, cmds: Seq(Commands),
     applied: BOOLEAN, rejected: BOOLEAN, expired: BOOLEAN]

\* An audit event.  version is afterState.planVersion (0 when there is none),
\* undo is afterState.compensatingCommands, cmds the commands it reports.
Event ==
    [env: Envelopes, status: {"succeeded", "conflict", "refused"},
     version: Nat, cmds: Seq(Commands), undo: Seq(Commands)]

Tx == [cmds: Seq(Commands), next: Nat \ {0}, draft: Plans, version: Nat]

NoTx == [cmds |-> << >>, next |-> 1, draft |-> InitialPlan, version |-> 0]

NoRunRow ==
    [there |-> FALSE, solver |-> FALSE, version |-> 0, cmds |-> << >>,
     applied |-> FALSE, rejected |-> FALSE, expired |-> FALSE]

Init ==
    /\ plan = InitialPlan
    /\ planVersion = 1
    /\ audit = << >>
    /\ idem = {}
    /\ runs = [r \in Runs |-> NoRunRow]
    /\ lock = {}
    /\ pc = [s \in Slots |-> "idle"]
    /\ env = [s \in Slots |-> NoEnvelope]
    /\ tx = [s \in Slots |-> NoTx]
    /\ answer = [s \in Slots |-> [outcome |-> "none", version |-> 0]]
    /\ history = <<InitialPlan>>

-----------------------------------------------------------------------------
(* Decisions, in the order of the early returns of each handler.           *)

Keyed(e) == e.key # NoKey

Committed(event) == event.version # 0

IdempotencyVerdict_KeyOnly(e) ==    \* mutated: the requestHash is not compared
    IF ~Keyed(e) \/ \A row \in idem : row.key # e.key THEN "new" ELSE "replay"

\* findPlanningCommandIdempotency and the requestHash comparison, which
\* covers the actor, the client version and what is asked for.
IdempotencyVerdict(e) ==
    IF ~Keyed(e) \/ \A row \in idem : row.key # e.key THEN "new"
    ELSE IF \E row \in idem : row.key = e.key /\ row.env = e THEN "replay"
    ELSE "key_conflict"

CommandsVerdict_AnyVersion(e) ==    \* mutated: the client version is not compared
    IF IdempotencyVerdict(e) # "new" THEN IdempotencyVerdict(e)
    ELSE IF Blocked(plan, e.cmds) THEN "blocked"
    ELSE "accept"

CommandsVerdict(e) ==
    IF IdempotencyVerdict(e) # "new" THEN IdempotencyVerdict(e)
    ELSE IF planVersion # e.cv THEN "conflict"
    ELSE IF Blocked(plan, e.cmds) THEN "blocked"
    ELSE "accept"

\* isSuccessfulRevertOf
SuccessfulRevertOf(event, target) ==
    /\ event.env.kind = "revert"
    /\ event.env.target = target
    /\ event.status = "succeeded"

\* A planning event of this project that succeeded and carries commands.
Revertible(event) ==
    /\ event.env.kind \in PlanningKinds
    /\ event.status = "succeeded"
    /\ event.undo # << >>

RevertVerdict_AnyCommit(e) ==    \* mutated: the target need not be the tip
    IF IdempotencyVerdict(e) # "new" THEN IdempotencyVerdict(e)
    ELSE IF planVersion # e.cv THEN "conflict"
    ELSE IF e.target \notin DOMAIN audit THEN "missing"
    ELSE IF \E i \in DOMAIN audit : SuccessfulRevertOf(audit[i], e.target) THEN "reverted"
    ELSE IF ~Revertible(audit[e.target]) THEN "not_revertible"
    ELSE IF Blocked(plan, audit[e.target].undo) THEN "blocked"
    ELSE "accept"

RevertVerdict(e) ==
    IF IdempotencyVerdict(e) # "new" THEN IdempotencyVerdict(e)
    ELSE IF planVersion # e.cv THEN "conflict"
    ELSE IF e.target \notin DOMAIN audit THEN "missing"
    ELSE IF \E i \in DOMAIN audit : SuccessfulRevertOf(audit[i], e.target) THEN "reverted"
    ELSE IF ~Revertible(audit[e.target]) THEN "not_revertible"
    ELSE IF audit[e.target].version # planVersion THEN "not_current"
    ELSE IF Blocked(plan, audit[e.target].undo) THEN "blocked"
    ELSE "accept"

\* The scenario route compares the client's version first and the run's
\* version last; a run that is gone is one it cannot find.
ScenarioApplyVerdict(e) ==
    LET run == runs[e.run]
    IN  IF planVersion # e.cv THEN "conflict"
        ELSE IF ~run.there THEN "missing"
        ELSE IF run.applied THEN "applied"
        ELSE IF run.rejected THEN "rejected"
        ELSE IF run.expired THEN "expired"
        ELSE IF planVersion # run.version THEN "conflict"
        ELSE IF Blocked(plan, run.cmds) THEN "blocked"
        ELSE "accept"

\* The solver route compares both versions with the run's, after its state.
SolverApplyVerdict(e) ==
    LET run == runs[e.run]
    IN  IF ~run.there THEN "missing"
        ELSE IF run.applied THEN "applied"
        ELSE IF run.rejected THEN "rejected"
        ELSE IF run.expired THEN "expired"
        ELSE IF planVersion # run.version \/ e.cv # run.version THEN "conflict"
        ELSE IF Blocked(plan, run.cmds) THEN "blocked"
        ELSE "accept"

\* Each kind of run has its own route.
ApplyVerdict(e) ==
    IF runs[e.run].solver THEN SolverApplyVerdict(e) ELSE ScenarioApplyVerdict(e)

\* A rejection does not look at the TTL.
RejectVerdict(e) ==
    IF ~runs[e.run].there THEN "missing"
    ELSE IF runs[e.run].applied THEN "applied"
    ELSE IF runs[e.run].rejected THEN "rejected"
    ELSE "accept"

\* isTaskStatusTransitionAllowed
AllowedTransitions ==
    [new         |-> {"waiting", "in_progress"},
     waiting     |-> {"in_progress"},
     in_progress |-> {"waiting", "review", "done"},
     review      |-> {"in_progress", "done"},
     done        |-> {}]

\* transitionTaskStatus: no plan version is compared.  (Its optional
\* clientUpdatedAt, the row's own timestamp, is left out: it only refuses more.)
TransitionVerdict(e) ==
    LET row == plan[e.cmds[1].task]
    IN  IF row.archived THEN "missing"
        ELSE IF e.cmds[1].status \notin AllowedTransitions[row.status] THEN "blocked"
        ELSE "accept"

\* archiveTask: archiving an archived task succeeds without a write.  (The
\* same check before the lock only saves the wait: no route unarchives.)
ArchiveVerdict(e) ==
    IF plan[e.cmds[1].task].archived THEN "noop" ELSE "accept"

Verdict(e) ==
    CASE e.kind = "commands"   -> CommandsVerdict(e)
      [] e.kind = "revert"     -> RevertVerdict(e)
      [] e.kind = "apply"      -> ApplyVerdict(e)
      [] e.kind = "reject"     -> RejectVerdict(e)
      [] e.kind = "transition" -> TransitionVerdict(e)
      [] e.kind = "archive"    -> ArchiveVerdict(e)

\* The commands an accepted request applies.
CommandsOf(e) ==
    CASE e.kind = "revert" -> audit[e.target].undo
      [] e.kind = "apply"  -> runs[e.run].cmds
      [] OTHER             -> e.cmds

\* What the commit event offers to a later revert.  The solver route and the
\* project-work routes store no compensating commands, a revert stores [].
UndoOf(e, cmds) ==
    IF e.kind = "commands" \/ (e.kind = "apply" /\ ~runs[e.run].solver)
    THEN Compensations(cmds, plan)
    ELSE << >>

\* Does the handler write an audit event when it refuses?  The command and
\* revert routes do for a version conflict, the solver route for everything
\* but a run it cannot find, the scenario and project-work routes never.
RefusalAudited(e, verdict) ==
    \/ e.kind \in {"commands", "revert"} /\ verdict = "conflict"
    \/ e.kind = "apply" /\ runs[e.run].solver /\ verdict # "missing"

RefusalEvent(e, verdict) ==
    [env |-> e, status |-> IF verdict = "conflict" THEN "conflict" ELSE "refused",
     version |-> 0, cmds |-> << >>, undo |-> << >>]

-----------------------------------------------------------------------------
(* Steps of a request.                                                     *)

\* Runs bounds the proposals of a behaviour: each one gets a fresh id.
FreshRuns == {r \in Runs : runs[r].version = 0}

Proposing == {s \in Slots : pc[s] \in {"waiting", "proposing"} /\ env[s].kind \in ProposeKinds}

\* The client sends.  It believes in some version it has been told of, so
\* none that is yet to come, and reverts an event it has seen, or nonsense.
Send(s) ==
    /\ pc[s] = "idle"
    /\ \E t \in Templates, cv \in 1..planVersion, target \in 0..Len(audit) :
        /\ t.run # NoRun => runs[t.run].version # 0
        /\ t.kind \in ProposeKinds => Cardinality(Proposing) < Cardinality(FreshRuns)
        /\ t.kind # "revert" => target = 0
        /\ t.kind \in WorkKinds \cup {"reject"} => cv = 1
        /\ env' = [env EXCEPT ![s] =
                    [kind |-> t.kind, actor |-> t.actor, key |-> t.key,
                     cmds |-> t.cmds, run |-> t.run, cv |-> cv, target |-> target]]
    /\ pc' = [pc EXCEPT ![s] = "waiting"]
    /\ UNCHANGED <<rows, lock, tx, answer>>

Acquire_NoLock(s) ==    \* mutated: the route does not take the tenant lock
    /\ pc[s] = "waiting"
    /\ env[s].kind \notin ProposeKinds
    /\ lock' = lock \cup {s}
    /\ pc' = [pc EXCEPT ![s] = "locked"]
    /\ UNCHANGED <<rows, env, tx, answer>>

\* lockTenantResourcePlanning: pg_advisory_xact_lock
Acquire(s) ==
    /\ pc[s] = "waiting"
    /\ env[s].kind \notin ProposeKinds
    /\ lock = {}
    /\ lock' = {s}
    /\ pc' = [pc EXCEPT ![s] = "locked"]
    /\ UNCHANGED <<rows, env, tx, answer>>

EndTransaction_KeepLock(s, outcome, version) ==    \* mutated: a session lock, not a transaction lock
    /\ lock' = lock
    /\ pc' = [pc EXCEPT ![s] = "committed"]
    /\ answer' = [answer EXCEPT ![s] = [outcome |-> outcome, version |-> version]]

\* The transaction ends, with or without writes, and with it the lock.  The
\* answer is on its way.
EndTransaction(s, outcome, version) ==
    /\ lock' = lock \ {s}
    /\ pc' = [pc EXCEPT ![s] = "committed"]
    /\ answer' = [answer EXCEPT ![s] = [outcome |-> outcome, version |-> version]]

\* The key is known: the stored response is returned and nothing is done.
Replay(s) ==
    /\ pc[s] = "locked"
    /\ Verdict(env[s]) = "replay"
    /\ \E row \in idem :
        /\ row.key = env[s].key
        /\ EndTransaction(s, "replay", row.version)
    /\ UNCHANGED <<rows, env, tx>>

\* Every early return: the transaction commits with at most an audit event.
Refuse(s) ==
    /\ pc[s] = "locked"
    /\ LET verdict == Verdict(env[s])
       IN  /\ verdict \notin {"accept", "replay"}
           /\ audit' = IF RefusalAudited(env[s], verdict)
                       THEN Append(audit, RefusalEvent(env[s], verdict))
                       ELSE audit
           /\ EndTransaction(s, verdict, planVersion)
    /\ UNCHANGED <<plan, planVersion, idem, runs, history, env, tx>>

\* All checks passed on what the transaction has read.
Accept(s) ==
    /\ pc[s] = "locked"
    /\ Verdict(env[s]) = "accept"
    /\ tx' = [tx EXCEPT ![s] =
                [cmds |-> CommandsOf(env[s]), next |-> 1, draft |-> plan, version |-> 0]]
    /\ pc' = [pc EXCEPT ![s] = "writing"]
    /\ UNCHANGED <<rows, lock, env, answer>>

WriteNext_OutsideTransaction(s) ==    \* mutated: applied through deps.dataSource
    /\ pc[s] = "writing"
    /\ tx[s].next <= Len(tx[s].cmds)
    /\ plan' = Persist(plan, tx[s].cmds[tx[s].next])
    /\ tx' = [tx EXCEPT ![s].draft = plan', ![s].next = @ + 1]
    /\ UNCHANGED <<planVersion, audit, idem, runs, history, lock, pc, env, answer>>

\* One turn of `for (const command of commands) await applyPlanningCommand`.
WriteNext(s) ==
    /\ pc[s] = "writing"
    /\ tx[s].next <= Len(tx[s].cmds)
    /\ tx' = [tx EXCEPT ![s].draft = Persist(@, tx[s].cmds[tx[s].next]),
                        ![s].next = @ + 1]
    /\ UNCHANGED <<rows, lock, pc, env, answer>>

\* incrementPlanVersion reads the row and writes its value plus one.
Increment(s) ==
    /\ pc[s] = "writing"
    /\ env[s].kind # "reject"
    /\ tx[s].next > Len(tx[s].cmds)
    /\ tx' = [tx EXCEPT ![s].version = planVersion + 1]
    /\ pc' = [pc EXCEPT ![s] = "written"]
    /\ UNCHANGED <<rows, lock, env, answer>>

\* The audit event of a commit.
CommitEvent(s) ==
    [env |-> env[s], status |-> "succeeded", version |-> tx[s].version,
     cmds |-> tx[s].cmds, undo |-> UndoOf(env[s], tx[s].cmds)]

\* markPlanningScenarioRunApplied and markPlanningSolverRunApplied: an UPDATE
\* by id, which finds no row when the run has been purged meanwhile.
MarkApplied(e) ==
    IF e.kind = "apply" /\ runs[e.run].there
    THEN [runs EXCEPT ![e.run].applied = TRUE]
    ELSE runs

\* createPlanningCommandIdempotency, onConflictDoNothing
RememberKey(s) ==
    IF Keyed(env[s]) /\ \A row \in idem : row.key # env[s].key
    THEN idem \cup {[key |-> env[s].key, env |-> env[s], version |-> tx[s].version]}
    ELSE idem

\* COMMIT makes the transaction's rows visible at once: tasks, version, audit
\* event with the compensating commands, run mark, idempotency key.
Commit(s) ==
    /\ pc[s] = "written"
    /\ plan' = tx[s].draft
    /\ planVersion' = tx[s].version
    /\ audit' = Append(audit, CommitEvent(s))
    /\ idem' = RememberKey(s)
    /\ runs' = MarkApplied(env[s])
    /\ history' = Append(history, tx[s].draft)
    /\ EndTransaction(s, "ok", tx[s].version)
    /\ UNCHANGED <<env, tx>>

\* The rejection of a run, which writes no task and no version.
CommitRejection(s) ==
    /\ pc[s] = "writing"
    /\ env[s].kind = "reject"
    /\ runs' = [runs EXCEPT ![env[s].run].rejected = @ \/ runs[env[s].run].there]
    /\ audit' = Append(audit, [env |-> env[s], status |-> "succeeded", version |-> 0,
                               cmds |-> << >>, undo |-> << >>])
    /\ EndTransaction(s, "ok", 0)
    /\ UNCHANGED <<plan, planVersion, idem, history, env, tx>>

\* The answer reaches the client.
Respond(s) ==
    /\ pc[s] = "committed"
    /\ pc' = [pc EXCEPT ![s] = "done"]
    /\ UNCHANGED <<rows, lock, env, tx, answer>>

\* The process dies, or the connection or a statement fails.  An open
\* transaction is rolled back and its lock released; a committed one stays,
\* but the client is not told.
Crash(s) ==
    /\ pc[s] \notin {"idle", "done"}
    /\ lock' = lock \ {s}
    /\ pc' = [pc EXCEPT ![s] = "done"]
    /\ answer' = [answer EXCEPT ![s] = [outcome |-> "lost", version |-> 0]]
    /\ UNCHANGED <<rows, env, tx>>

-----------------------------------------------------------------------------
(* Proposals: scenario preview and auto-solver run.                        *)

\* The snapshot is read outside any transaction and without the lock.
ReadForRun(s) ==
    /\ pc[s] = "waiting"
    /\ env[s].kind \in ProposeKinds
    /\ IF planVersion = env[s].cv
       THEN /\ pc' = [pc EXCEPT ![s] = "proposing"]
            /\ UNCHANGED answer
       ELSE /\ pc' = [pc EXCEPT ![s] = "committed"]
            /\ answer' = [answer EXCEPT ![s] = [outcome |-> "conflict", version |-> planVersion]]
    /\ UNCHANGED <<rows, lock, env, tx>>

\* Proposals are computed from the snapshot and stored under a fresh id, with
\* the version that was read and an audit event.
InsertRun(s) ==
    /\ pc[s] = "proposing"
    /\ \E r \in FreshRuns :
        runs' = [runs EXCEPT ![r] =
                    [there |-> TRUE, solver |-> env[s].kind = "propose_solver",
                     version |-> env[s].cv, cmds |-> env[s].cmds,
                     applied |-> FALSE, rejected |-> FALSE, expired |-> FALSE]]
    /\ audit' = Append(audit, [env |-> env[s], status |-> "succeeded", version |-> 0,
                               cmds |-> << >>, undo |-> << >>])
    /\ EndTransaction(s, "ok", env[s].cv)
    /\ UNCHANGED <<plan, planVersion, idem, history, env, tx>>

\* The TTL of a run passes.
Expire(r) ==
    /\ runs[r].there
    /\ ~runs[r].expired
    /\ runs' = [runs EXCEPT ![r].expired = TRUE]
    /\ UNCHANGED <<plan, planVersion, audit, idem, history, lock, pc, env, tx, answer>>

\* purgeExpiredPlanningRuns, a background job that does not take the lock:
\* it deletes the runs that expired before its cutoff and were not applied.
Purge(expiredBefore) ==
    /\ expiredBefore # {}
    /\ \A r \in expiredBefore : runs[r].there /\ runs[r].expired /\ ~runs[r].applied
    /\ runs' = [r \in Runs |-> IF r \in expiredBefore
                               THEN [runs[r] EXCEPT !.there = FALSE]
                               ELSE runs[r]]
    /\ UNCHANGED <<plan, planVersion, audit, idem, history, lock, pc, env, tx, answer>>

-----------------------------------------------------------------------------
\* What a request does by itself once it has been sent.
Step(s) ==
    \/ Acquire(s)
    \/ Replay(s)
    \/ Refuse(s)
    \/ Accept(s)
    \/ WriteNext(s)
    \/ Increment(s)
    \/ Commit(s)
    \/ CommitRejection(s)
    \/ Respond(s)
    \/ ReadForRun(s)
    \/ InsertRun(s)

Next ==
    \/ \E s \in Slots : Send(s) \/ Step(s) \/ Crash(s)
    \/ \E r \in Runs : Expire(r)
    \/ \E expiredBefore \in SUBSET Runs : Purge(expiredBefore)

Spec == Init /\ [][Next]_vars

\* A request that has been sent keeps running: the event loop resumes every
\* await, and PostgreSQL grants the lock when its holder's transaction ends.
\* Nothing is promised of Send, Crash, Expire and Purge.
Fairness == \A s \in Slots : WF_vars(Step(s))

FairSpec == Spec /\ Fairness

-----------------------------------------------------------------------------
(* Properties.                                                             *)

\* Every variable has its type; a slot that has been sent holds a request.
TypeOK ==
    /\ plan \in Plans
    /\ planVersion \in Nat \ {0}
    /\ audit \in Seq(Event)
    /\ idem \subseteq [key: Keys, env: Envelopes, version: Nat]
    /\ runs \in [Runs -> RunRow]
    /\ lock \subseteq Slots
    /\ pc \in [Slots -> {"idle", "waiting", "locked", "writing", "written",
                          "proposing", "committed", "done"}]
    /\ env \in [Slots -> Envelopes \cup {NoEnvelope}]
    /\ \A s \in Slots : pc[s] # "idle" => env[s] \in Envelopes
    /\ tx \in [Slots -> Tx]
    /\ answer \in [Slots -> Answer]
    /\ history \in Seq(Plans)

\* The audit events that are commits: those with a plan version.
Commits == {i \in DOMAIN audit : Committed(audit[i])}

\* The versions of the commits, in the order of the audit log, are exactly
\* 2, 3, ..., planVersion: no version is taken twice or skipped, whatever
\* requests interleave or die (incrementPlanVersion reads and then writes).
OneCommitPerVersion ==
    /\ \A i \in DOMAIN audit : audit[i].version \in 0..planVersion \ {1}
    /\ \A v \in 2..planVersion : \E i \in DOMAIN audit : audit[i].version = v
    /\ \A i, j \in Commits : i < j => audit[i].version < audit[j].version

\* No lost update: a commit of a planning route is built on the very version
\* its client had seen (clientPlanVersion), not on one that came later.
NoStaleWrite ==
    \A i \in Commits :
        audit[i].env.kind \in PlanningKinds => audit[i].version = audit[i].env.cv + 1

\* A key writes at most once, the row that remembers it names its commit, and
\* every request that was told it succeeded got the version of that commit,
\* a retry after a lost answer included.
IdempotentWrites ==
    /\ \A i, j \in Commits :
        Keyed(audit[i].env) /\ audit[i].env.key = audit[j].env.key => i = j
    /\ \A row \in idem : \E i \in DOMAIN audit :
        audit[i].env = row.env /\ audit[i].version = row.version
    /\ \A s \in Slots :
        answer[s].outcome \in {"ok", "replay"} /\ Keyed(env[s])
            => \E row \in idem : row.env = env[s] /\ row.version = answer[s].version

AppliesRun(event, r) ==
    event.env.kind = "apply" /\ event.env.run = r /\ Committed(event)

\* A run is applied by at most one commit, the one right after the version it
\* was proposed for; it is never both applied and rejected, and unless it has
\* been purged its mark says what the audit log says.
RunLifecycle ==
    \A r \in Runs :
        /\ ~(runs[r].applied /\ runs[r].rejected)
        /\ \A i, j \in DOMAIN audit : AppliesRun(audit[i], r) /\ AppliesRun(audit[j], r) => i = j
        /\ \A i \in DOMAIN audit : AppliesRun(audit[i], r) =>
            /\ audit[i].version = runs[r].version + 1
            /\ audit[i].cmds = runs[r].cmds
            /\ runs[r].applied \/ ~runs[r].there
        /\ runs[r].applied => \E i \in DOMAIN audit : AppliesRun(audit[i], r)

\* The fields that commands name and their inverses restore.
NamedFields(p) == [t \in Tasks |-> [status |-> p[t].status, units |-> p[t].units,
                                   archived |-> p[t].archived]]

IsRevert(event) == event.env.kind = "revert" /\ Committed(event)

\* A revert is a new commit that directly follows the commit it reverts, and
\* the statuses, assignments and archive marks of all tasks are what they
\* were before that commit, so nothing that came between is undone with it.
\* When no status command takes part, progress is restored as well.
RevertRestoresFields ==
    \A i \in DOMAIN audit : IsRevert(audit[i]) =>
        LET reverted == audit[audit[i].env.target]
            before == history[reverted.version - 1]
            after == history[audit[i].version]
        IN  /\ reverted.version = audit[i].version - 1
            /\ NamedFields(after) = NamedFields(before)
            /\ (\A c \in DOMAIN audit[i].cmds : audit[i].cmds[c].op # "status") => after = before

\* Every request that was sent ends, answered or lost: nobody waits for the
\* lock for ever.
EveryRequestEnds == \A s \in Slots : pc[s] = "waiting" ~> pc[s] = "done"

\* The committed rows as a history: the tip is the plan that is read.
CommitAt(v) == CHOOSE i \in DOMAIN audit : audit[i].version = v

Chain ==
    [v \in 1..planVersion |->
        [plan |-> IF v = planVersion THEN plan ELSE history[v],
         cmds |-> IF v = 1 THEN << >> ELSE audit[CommitAt(v)].cmds]]

\* The write path implements one linear history of atomic batches: no
\* interleaving, abort or crash shows part of a batch, loses a commit or
\* changes the plan outside a commit, and the audit log reports the commands
\* that were stored.
Linear == INSTANCE PlanHistory WITH chain <- Chain

LinearHistory == Linear!Spec

-----------------------------------------------------------------------------
(* What the repository says of itself and the code does not do.            *)

\* compensatingCommands.ts: the compensating commands return "the affected
\* entities to their previous values".  A status command also writes the
\* progress it derives, which its inverse does not put back.
RevertRestoresProgress ==
    \A i \in DOMAIN audit : IsRevert(audit[i]) =>
        \A t \in Tasks :
            history[audit[i].version][t].progress = history[audit[i].version - 2][t].progress
=============================================================================

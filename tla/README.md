# KISS-PM in TLA+

Models, model checks and proofs for the parts of KISS-PM in which several requests, processes or
browsers touch the same rows: the write path of project plans, the lifecycle of a project, the queue
of background jobs, the client's copy of a plan, calls and their recordings, the dispatch of
notifications by mail, and the way from an opportunity to a project. Paths below are relative to the
repository.

Run a check with `tlc -config <cfg> <module>`, a proof with `tlapm <module>_proofs.tla`.
`PROJECT.json` lists the runs, the lines each definition stands for, the hazards, the findings and
the theorems.

## 1. Inventory of the system

KISS-PM is a TypeScript monorepo: API processes (Hono, `apps/api`), PostgreSQL behind repositories
(`packages/persistence`), pure domain logic (`packages/domain`), a Next.js client (`apps/web`) and
small packages between them (`packages/planning-client`, `packages/access-control`). State lives in
PostgreSQL; processes share nothing else except events (in memory, or Redis between processes). All
transactions run at READ COMMITTED, and handlers `await` between statements, so every statement is a
point at which other requests may come in.

| Component | State it keeps | Operations | What is hard | What makes it correct |
|---|---|---|---|---|
| Plan commands (`domain/planning/commandReducer.ts`, `compensatingCommands.ts`, `persistence/planningRepository.ts`) | rows of a plan | preview, store, inverse of a command | three hand-written versions of one effect; progress derived from status | stored rows stay in range; an inverse restores what its command changed |
| Plan write path (`apps/api/src/planning/registerPlanningRoutes.ts`, `planningRevertRoute.ts`) | plan rows, `plan_versions`, audit events, idempotency keys | apply, batch, revert | interleaving, read-then-write of the version, retries, crash between COMMIT and answer | one linear history; no lost update; a key writes once; a revert undoes exactly its commit |
| Scenario and solver runs (`planningScenarioRoutes.ts`, `planningAutoSolverRoutes.ts`) | run rows with TTL and marks | propose, apply, reject, expire, purge | proposed outside a transaction, purged without the lock | a run is applied once, to the version it was proposed for |
| Project work (`apps/api/src/project-work`) | the same plan rows | create, update, transition, archive a task | writes without a client version | serialised with the plan routes |
| Project lifecycle and closure (`projectLifecycle.ts`, `retrospectiveRoutes.ts`) | project status, closure snapshot | pause, resume, close, reopen | takes no tenant lock; checks and writes in different statements | closed once; snapshot immutable; the plan is frozen |
| Background jobs (`backgroundJobRepository.ts`, `backgroundJobWorker.ts`) | `background_job_runs` | enqueue, recover, claim, complete, fail | several pollers, no transactions, leases, late answers, crashes | nobody runs a job another holds; no early death; every job ends |
| Job schedules (same files) | `background_job_schedules` | seed, list due, mark enqueued | several processes, crash between enqueue and mark | one job per slot |
| Plan events and the schedule's copy (`planningEventBus.ts`, `use-planning.ts`, `use-plan-version-watch.tsx`, `schedule-surface.tsx`) | shown version, banner, pending keys, staged batch, last commit | load, edit, stage, apply, discard, undo, reload, event | lost, doubled and reordered events, crossing answers | a client that is behind knows it; reloads do not go back |
| Capacity cache (`capacity/capacityCache.ts`) | cached heatmaps by tenant | compute, store, invalidate | computation started before an invalidation | nothing stale after an invalidation |
| Scheduling engine, auto solver | none | calculate a plan | large pure computation | its result enters the write path as "blocked" or as proposals |
| Control signals, corrective actions | their rows | evaluate, act | independent of plan versions | - |
| Agent and proposals | conversations, proposals | drives the same write path | model I/O | - |
| Calls and recordings (`communications/callWorkspace.ts`, `communications/recording`, `communicationRecordingWebhookRoute.ts`, `persistence/collaborationRepository.ts`) | call sessions, participants, recordings; egresses at the video provider | start and end a call, join, start and stop a recording, webhook, janitor | the provider takes no part in transactions; webhooks early, late, double or lost | one group records a call; no egress runs unknown; every row ends; a file is attached once |
| Notification dispatch (`backgroundJobs/jobHandlers.ts`, `collaborationRepository.ts`) | `user_notifications` as the queue of mails | list, mail, mark, count failures | overlapping runs, a crash between mail and mark, poisonous recipients | nothing lost, mailed rows marked, the queue drains |
| Project intake (`projectIntakeService`, `projectIntakeRepository.ts`) | opportunities, project reservations | check, edit, move, finalise, activate | handlers decide on what they read outside their transaction | a project stands for a won opportunity; activations fit the capacity; decided is final |
| Other CRM data, organisation, calendars, absences | reference rows | row-at-a-time edits | some change a plan without a version | - |
| Channels, meetings, comments, attachments, search | their rows | mostly appends and reads | external services, best effort | - |
| Sessions, access control | sessions | decisions before the modelled steps | - | - |

Requests interact through rows and locks only: the tenant's advisory lock
(`pg_advisory_xact_lock`, `repositories.ts` `lockTenantResourcePlanning`) serialises all plan writes
of a tenant; row locks of `UPDATE` serialise status changes of one project; the job queue relies on
the `WHERE` clause of each `UPDATE`, and so do notifications and opportunities; recordings take the
row lock of their session. After COMMIT a route emits the new version to the subscribers. The queue
of jobs runs the dispatch and the janitor of recordings; a closed, paused or reopened project gives
back or takes the capacity that activations assess.
The hazards this gives rise to are listed, at their lines, under `hazards` in `PROJECT.json`.

## 2. The modules

    PlanCommands <- PlanWrites <- MCPlanEdits, MCPlanRuns
    PlanCommands <- PlanHistory       (abstract specification, instantiated by PlanWrites)
    PlanWrites   <- PlanWrites_proofs <- PlanHistory_proofs
    ProjectClosure <- MCProjectClosure, ProjectClosure_proofs
    BackgroundJobs <- MCBackgroundJobs, BackgroundJobs_proofs
    PlanWatch      <- MCPlanWatch,      PlanWatch_proofs
    CallSessions   <- CallRecordings <- MCCallRecordings, CallRecordings_proofs
    NotificationDispatch <- MCNotificationDispatch, NotificationDispatch_proofs
    ProjectIntake  <- MCProjectIntake,  ProjectIntake_proofs

Operators with an underscore in their name (`Acquire_NoLock`) are mutated forms of the definition
they stand in front of; no specification uses them. They show, property by property, that a
plausible mistake in the code would be noticed.

### PlanCommands - pure functions on a plan

A task row has the fields of four families of commands: status category, progress, units of its one
assignment, archived. `Reduce` is the preview, `Persist` what the repository stores, `Inverse` and
`Compensations` what a revert will apply. They are three operators because they are three files.
Commands on other fields (title, dates, dependencies, baselines, ...) set one field from the command
and are undone by setting it back, like `assign`; they are not modelled one by one. Calendar and
resource issues found by the engine are left out: they only block more.

### PlanWrites - requests, transactions, rows

A slot is one HTTP request from `Send` to `Respond`. Its steps are those of the handlers:

| Action | Code |
|---|---|
| `Acquire` | `lockTenantResourcePlanning`, the first statement of every write |
| `Replay`, `Refuse`, `Accept` | the early returns, in each route's own order (`Verdict`), on what the transaction reads under the lock |
| `WriteNext` | one turn of `for (const command of commands) await applyPlanningCommand` |
| `Increment` | `incrementPlanVersion`: the version row is read; its value plus one is written |
| `Commit` | rows, version, audit event with compensating commands, run mark and key become visible |
| `CommitRejection`, `ReadForRun`, `InsertRun`, `Expire`, `Purge` | the life of a staged run |
| `Crash` | the process, the connection or a statement fails at any await |

Uncommitted writes are private to the slot (`tx`). After the lock is taken the committed rows are
read in one action although the handlers use several statements: all writers of these rows hold the
same lock (this is the lemma `LockInvariant`). The exception is the table of runs, which the purge
job changes without it; `MarkApplied` and `CommitRejection` therefore look at the row again.
`history` is a history variable. The hash of a run's payload is not modelled, nor are permissions: a
denied request writes no plan row.

### PlanHistory - what the write path promises

One variable, the chain of plans by version with the commands that led to each. A step appends one
entry, whose plan is the previous one with all commands stored. `PlanWrites` implements it under the
refinement mapping `Chain` (history and audit log): no interleaving or crash shows part of a batch,
loses a commit, or changes the plan outside a commit.

### ProjectClosure - the status of a project

Here the statements of one transaction are separate actions, since closing, pausing, resuming and
reopening do not take the tenant lock: `FindProject`, `SelectProject`, `SelectVersion`,
`SelectTasks`, `RecheckStatus`, `CloseRow`, `CommitClose`; `CheckTransition`, `UpdateStatus`,
`CommitTransition`; and a plan write reduced to `LockPlan`, `ReadPlan`, `ReadBack`, `CommitPlan`.
`rowLock` is the row lock an `UPDATE` leaves until the transaction ends. The tasks of a plan are
abstracted to the version they belong to.

### BackgroundJobs - the queue

One action per SQL statement with the decision taken on its result; a process's poll is a sequence
`ReadStale`, `RecoverRow`..., `SelectCandidate`, `Claim`, `Handle`, `Complete` or `ReadFailed`,
`Fail`. Time is what the statements compare: `due` and `aged` become true at any moment after they
were reset, which covers every delay and timeout. `claims[j]` stands for the instant in `locked_at`.

### PlanWatch - the schedule in a browser

One client and its environment; the plan is its version, and `Decide` is the route in one step (its
detail is `PlanWrites`).

| Action | Code |
|---|---|
| `Load`, `ReadVersion`, `Loaded` | `usePlanning`'s `load`: a request, the version it reads, its answer, which replaces what is shown whichever request it answers |
| `Reload`, `UndoStale`, `Discard`, `Conflict`, `DropStaged`, `ReloadsAgain` | every place that reloads: banner and retry; `undo` of a commit that is not the one shown; `discardStaged`; `apply` on a conflict; `applyStaged` and `undo` once more after that |
| `Edit`, `Stage`, `ApplyStaged`, `Undo`, `Begin` | `mutateCommands` outside and inside batch mode, `applyStaged`, `undo`, and `beginOperation`, which admits one operation at a time |
| `Succeed`, `PutBack`, `DropStaged`, `Stay`, `Over` | what each does with its answer: `setReadModel`, `lastCommitRef`, `batchBaseRef`, `endOperation` |
| `KeptKey`, `Committed`, `GiveUpKey` | `resolvePlanningWriteRequest`: the key kept for a retry of the same command on the same version, one for `apply` and one for `applyBatch`, and the answer the server stored for it |
| `Announce`, `Crash` | `notifyPlanVersionChanged`, after COMMIT and before the answer, or a process that dies between them |
| `Deliver`, `Noticed`, `CaughtUp` | the listener of `usePlanVersionWatch`, and the effect that drops the banner |
| `Break` | the stream ends, after an hour or before; nothing is repeated |

Events in transit are a set: they arrive in any order, and `Deliver` may leave one there (the Redis
publisher delivers to its own process twice). Nothing keeps a reload apart from a write in progress:
`load` does not ask `operationRef`, the shortcut of `undo` reloads before `beginOperation`
(`schedule-surface.tsx:935`, `:1738`), and a bar that is held may be dropped while the surface shows
its loading state, for `usePointerDrag` listens on the window (`CanCommand`). So a reload may bring
back an older plan after a write. Two history variables say when a promise can be made: `missed` (the
event of the newest version did not get through, so no banner can be expected) and `raced` (two
reloads overlap, or a write and a reload that no banner gave rise to). `ReloadsAdvance` is about the
rest: a reload from the banner may run during the client's own write, and it does not step back, since
that write is too late and cannot commit any more. `raced` ends with the last of such requests.

Not modelled: the read model beyond its version, leaving the page, a 403 that ends the surface, the
key that an import of a table keeps across other writes (`schedule-surface.tsx:1704`), a request that
the route still decides after the client has given it up, and the scenarios surface.

### CallSessions and CallRecordings - a call and what the provider records of it

`CallSessions` is one room: `StartSession` (decided by the index of one active session per room),
`EndSession`, `IssueJoinToken`, and the handlers that set a participant's state, which lock the
session's row, read, and commit later (`UpdateParticipant`, `CommitUpdate`, `RollBackUpdate`). Only
the states of the pairs in `Seats` are followed.

`CallRecordings` adds the recordings. `egress` is what runs at the video provider and `row` is
`call_recordings`: they are two variables since the provider takes no part in a transaction. An
egress runs from the answer of its start, or from a start whose answer was lost, and its row is seen
at COMMIT.

| Action | Code |
|---|---|
| `Resolve`, `BeginStart`, `StartTrack`, `CommitStart` | `startRecording`: the route's check before the transaction, lock and look at the open rows, one egress and one insert per track, COMMIT |
| `CleanTrack`, `RollBackStart`, `Compensate` | its cleanup after a failure: stops, rollback, and a row of its own for each egress that could not be stopped |
| `EndCall`, `ListToStop`, `StopNext` | the end of the session and, after it, `stopActiveEgressForSession` |
| `StopTrack` | a request to stop one recording |
| `RunJanitor`, `StopNext` | `callRecordingJanitor`: rows older than the window become failed, then their egresses are stopped |
| `ReadRow`, `CloseRow`, `RollBackHook` | the provider's webhook: row and later the conditional update with the attachment |
| `EgressEnds` | the provider ends an egress by itself |
| `CrashStart`, `CrashStop`, `Fault` | a process that dies, a provider call or a statement that fails, anywhere |

A row's age is not counted: the janitor may take any open row at any time. `faulted` (egresses a
failure touched) and `late` (rows committed after the end of their session) are history variables;
the properties name what may be wrong because of them instead of leaving it out.

### NotificationDispatch - mails for what users have not read

The queue is the table `user_notifications`. `Create` and `Read` are the users; a run is `List` (the
oldest pending rows up to a limit; what becomes of each is any outcome of preferences and access,
which are read one by one while they change), `MarkSkipped`, `Send` and `MarkSent` for one recipient
after the other, `RecordFailures`. Runs overlap: the jobs of two slots, or one whose lease ran out
and its successor. Each statement commits alone, so a mail and its mark are two actions, and `Crash`
comes between any two. `mailed`, `unwanted` and `torn` are history variables.

### ProjectIntake - from an opportunity to a project

A handler reads an opportunity and decides (`BeginCheck`, `BeginEdit`, `BeginMove`), and writes
later over whatever the row has become, looking at nothing but its status (`Write`). `Finalize` is
one statement. The activation takes the tenant lock (`BeginActivation`), assesses again
(`AssessAgain`), and commits project, reservation and decision together (`CommitActivation`).
`Release` and `TakeUp` are what happens to the project afterwards, in other components. Capacity is
one number and demand another: one position, one period. Probabilities of stages, which may only
refuse more moves, and blocking reasons other than an empty demand are left out; so is a read of
opportunity and demand that is torn between two statements. `exempt` (projects active at an accepted
risk, or taken up again without an assessment) and `activated` are history variables.

## 3. The runs

| Run | Instance | Checks |
|---|---|---|
| `plan_edits` | 3 requests of 7 kinds, 2 tasks, 2 users, 2 keys, any known version, any commit to revert; 151 thousand states | `TypeOK`, `OneCommitPerVersion`, `NoStaleWrite`, `IdempotentWrites`, `RevertRestoresFields`, and the refinement `LinearHistory` |
| `plan_runs` | 3 requests of 6 kinds, 1 run, 1 task, with fairness; 285 thousand states | `RunLifecycle`, `EveryRequestEnds` |
| `closure` | 4 requests of any kind, any initial status; 1.7 million states | `TypeOK`, `ClosedOnce`, `OneLateWrite`, `StatusMoves`, `ClosureImmutable` |
| `jobs` | 2 processes, 2 jobs, 2 attempts, 1 tick cut short, with fairness; 312 thousand states | `TypeOK`, `NoDoubleRun`, `NoEarlyDeath`, `LeaseRespected`, `FinalStays`, `EveryJobEnds` |
| `watch` | 2 read-model requests in flight, versions 1 to 4, edits of one command; 7.1 million states | `TypeOK`, `BannerTellsNewest`, `ReloadsAdvance` |
| `recordings` | 2 requests to record the second of 2 calls, 2 egresses, up to 2 tracks, 2 webhook deliveries at a time, 1 failure, with fairness; 1.4 million states | `TypeOK`, `RoomFollowsSession`, `ReadsStayFresh`, `OneGroupRecords`, `AttachedOnce`, `NoEgressForgotten`, `EndStopsRecordings`, `ReadyStays`, `EveryRecordingEnds` |
| `dispatch` | 2 notifications, 2 users, 2 runs, batches of 1 or 2, one row per mail, 2 attempts, 1 crash, with fairness; 477 thousand states | `TypeOK`, `NothingLost`, `MailedIsMarked`, `MarkIsFinal`, `QueueDrains` |
| `intake` | 2 opportunities of 0 or 2 hours in a capacity of 3, 3 stages in 2 pipelines, 1 handler, 2 activations; 1.1 million states | `TypeOK`, `ProjectOfWon`, `NoSilentOverbooking`, `FinalIsFrozen` |

and four that are violated, each by what the code does against a sentence of the repository
(`findings` in `PROJECT.json` quotes both sides):

| Run | What it shows |
|---|---|
| `revert_progress` | The inverse of a status command does not restore the progress that the command derived: reverting 40 % -> review (80 %) leaves 80 %. |
| `closure_torn` | The closure snapshot may store a plan version with the tasks of the next one: `getPlanSnapshot` reads them in two statements and closing takes no lock. |
| `jobs_retries` | A worker that read its candidate before another claimed and failed it claims with the old attempt: one run more than `maxAttempts`. |
| `recordings_ended` | A start that saw the call active commits after its end: the end handler lists the rows before they are seen, and the ended call is recorded until the janitor comes. |

Smaller disagreements, which are read off the code and need no run:

- A revert takes the next version and stores no inverse (`planningRevertRoute.ts:168`, `:252`): the
  commit before the reverted one can never be reverted, so the "sequence of reverts" of
  `docs/decisions/2026-07-18-linear-plan-history.md:67` has length one.
- Applying a scenario to a stale version answers 409 without the audit event
  `planning.command_conflict` the same record asks for (`planningScenarioRoutes.ts:218`), and answers
  404 from a transaction that commits when the project stopped being active before the readback
  (`:345`; `CommitPlan` in `ProjectClosure`).
- The routes of project work take a plan version and never announce it
  (`taskLifecycleCommands.ts:76`, `:215`).
- `undo` reloads before it asks whether an operation is in progress (`schedule-surface.tsx:935`, by the
  shortcut at `:1738`), and an edit may start while a reload is under way. The answer of the reload
  may then replace that of the write although it was read before it: the schedule shows an older
  version than its own commit, and no banner says so if the event was delivered in between. In the
  model this is a step with `raced`, which `ReloadsAdvance` leaves out.
- `undo` of a batch takes its inverses from the read model at the first staged command
  (`schedule-surface.tsx:803`, `:815`), which may be older than the version the batch was applied to:
  it may put back what another user changed meanwhile, where
  `docs/qa/full-eval/inventory/projects.md:95` says that only one's own last commit can be undone.
- A project closed, reopened and closed again fails on the unique index of its snapshots with an
  unmapped error (`retrospectiveRepository.ts:136`). Closing a paused project answers 404: the
  snapshot is read for active projects only (`planningRepository.ts:243`).
- The janitor's stop of an egress, made after its row is failed, is not repeated when it fails
  (`jobHandlers.ts:92`); the comment there calls it best effort.
- An edit of an opportunity takes no lock and writes back the status it has read
  (`updateOpportunityCommand.ts:79`): a won opportunity may have another demand than was reserved,
  and one may be `ready_to_activate` with its feasibility cleared. A move applies a rule to a stage
  that may have changed. Resuming or reopening a project assesses nothing (`TakeUp`).

**Bounds.** A slot serves one request, so `Slots` bounds a behaviour of the write path. Three
requests are the smallest number with a commit, a revert of it and a third that races, or a commit,
its lost answer with a retry, and a commit in between; for runs: propose, apply and a rival. Four in
`closure` give close, reopen, close and a plan write. Two tasks tell a batch from its parts; two
keys and two users tell a retry from every kind of misuse; `MaxUnits = 2` tells units that are
restored from units that are not. Two pollers and two jobs reach every pair of a late answer and a
newer claim; `MaxAttempts = 2` has a retry and a last attempt; `MaxCrashes` bounds the ticks cut
short, and one is what it takes to leave a job behind. Four versions in `watch` give events that are
newer than the banner, older than it, and older than what is shown, and room for a write, its undo
and a rival's commit. Two requests in flight are what it takes for one to overtake the other, or for
a reload beside that of a conflict; a third adds no new relation between two answers. `EditKeys` is
where an edit keeps its key: one command of its own in the run, so that `apply` and `applyBatch` are
told apart by edits and by batches with undo; with edits of several commands too (both keys) the run
has 14.5 million states, no error, and takes twice the time. Two starts, two egresses and two tracks
in `recordings` give two groups for one call, and a group whose second track fails after its first;
two deliveries are a webhook and its repetition; the end of the first call may still be at work while the second is
recorded; one failure is what each compensation in the code is written for. In `dispatch` the mails
and batches are smaller than the queue, so rows wait for others; two runs overlap, and two attempts
have a retry and a last one. In `intake` each opportunity fits and both do not; one handler writes
over what rival activations and decisions do in between, which is all a handler looks at. Symmetry:
over slots (`plan_edits`, `closure`) and over read-model requests (`watch`), which occur in no
definition by name; the runs with liveness use none.

**Deadlock** is checked for `jobs` and `watch`, where pollers and other users always can go on. It is
off for the write path and the closure: when every slot is done, those behaviours end. It is off for
`recordings`, `dispatch` and `intake` for the same reason: calls, egresses and notifications are
bounded, and what is recorded, delivered or decided stays.

**Fairness.** `PlanWrites`: weak fairness of each request's own steps. Node's event loop resumes
every await, PostgreSQL grants the advisory lock in the order of its queue, and a lock is held by a
transaction that ends. As a slot serves one request, no stream of newcomers overtakes a waiting one.
Nothing is assumed of `Send`, `Crash`, `Expire`, `Purge`. `BackgroundJobs`: weak fairness of each
poller (a `setInterval` that fires again and again; statements and handlers return or the process
dies) and of time (a delay passes, a lease ages); none of `Enqueue` and `Crash`. `CallRecordings`:
weak fairness of the janitor for each egress (an hourly schedule, and an open row is older than the
window once and for all) and of its stops, after which its next run can come; nothing is assumed of
webhooks, requests, the provider, or the end handler. `NotificationDispatch`: weak fairness of each
run's own steps (the schedule repeats the job every 15 minutes, mails and statements return or the
run dies); crashes are bounded, as a dispatch that always dies delivers nothing.

## 4. What is proved

Each theorem holds for every value of the constants that satisfies the named assumptions. The
layout is the same everywhere: one lemma for `Init`, lemmas with one step per action, and temporal
theorems that combine them.

**PlanWrites_proofs** - `TypeCorrect`, `OneCommitPerVersionHolds`, `NoStaleWriteHolds`,
`IdempotentWritesHolds`, `RunLifecycleHolds`. Assumptions: templates are well formed (what the body
schemas and routes ensure, among it that only the command and revert routes take a key), the initial
plan is a plan, `MaxUnits` is positive. The invariant has these parts, proved in this order:

- `IType`: `TypeOK`, and what the phases add (`IPhase`: a slot between check and commit has an
  accepted request; a written transaction has a version). It needs lemmas on the data: derived
  progress is a percentage, an inverse is a command, a batch's inverse is a sequence of commands.
- `ILock`: slots between lock and commit hold the lock, and it has at most one holder.
- `IFresh`: what such a slot has checked is still true: the version it has incremented is the current
  one, and so is its client's. It follows from `ILock`: anyone who could change those rows would hold
  the lock.
- `LoggedOnly`, `LoggedCommit`: each step either leaves version and commits alone or appends one
  commit with the next version; from it, the versions in the log are 2, 3, ..., each once, in order.
- `IKeys`: no two rows remember the same key, every commit made with a key has its row, and the key of
  a request between check and commit is in no row yet. The check is not enough for
  `IdempotentWrites`: it must still hold when the row is inserted, which is `ILock` again.
- `IRuns`: a run that was never proposed has no mark and is in no commit; one that is being applied is
  neither applied nor rejected, was proposed for the current version, and its commands are the ones
  being written. A purge, which takes no lock, may remove the row but adds no mark.

**PlanHistory_proofs** - `CompensationsRestore`, `RevertRestoresFieldsHolds`, `LinearHistoryHolds`,
`PreviewIsStored`, `OnlyAllowedWrittenHolds`, from the assumptions above. A batch has any length, so
these are inductions over it. The library's induction theorems take the induction hypothesis as an
operator, which the provers cannot instantiate; the proofs take instead a smallest counterexample
(`Least`, from the well-foundedness of the natural numbers, which needs no operator).

- On data: `Stored` is the last plan of the one run that stores the commands in turn
  (`StoredIsLast`, `BatchStores`); what a batch leaves in a field is what its last command on that
  field gave (`LastWrite`, `StatusAfter`, ...); all compensating commands on a field give the value
  it had (`CompensationsGive`). With these, a batch and its compensation restore the fields
  (`CompensationsRestore`). The preview and the repository change a plan differently, since only one
  derives progress, but no precondition looks at progress: they agree on everything that decides
  whether a command is allowed (`ReduceLikePersist`, `PreviewIsStored`).
- `IDraft`: what a transaction has written is the committed plan with its first commands stored.
- `IReverting`: a revert at work applies what the newest commit left to undo it.
- `IHistory`: there is a plan for each version; a commit is its batch stored on the plan before it,
  and carries the compensation computed from that plan. From it and `CompensationsRestore`,
  `RevertRestoresFields`; from it and `IChain` (entry v of the chain is the commit with version v),
  that every step appends one entry to the chain or leaves it, so `PlanWrites` implements
  `PlanHistory`.
- `IPreviewed`, `IUnblocked`: a batch that is being written passes the preview on the committed plan,
  and a committed one passed it on the plan of the version before. `OnlyAllowedWritten` follows with
  `PreviewIsStored`; it is a property of the proofs only, and no run checks it.

**ProjectClosure_proofs** - `TypeCorrect`, `ClosedOnceHolds`, `OneLateWriteHolds`,
`StatusMovesHolds`, `ClosureImmutableHolds`. Assumption: `NoClosure` is not a closure. The inductive
invariant adds to the properties what a stage knows (`IStage`), that a row lock has one holder whose
check of the status is still true (`IRow`), the same for the tenant lock (`IPlan`: a late write needs
a holder that has read the project as active, and after closing nobody reads that), and that an
answer is backed by rows (`IAnswer`).

**BackgroundJobs_proofs** - `TypeCorrect`, `NoDoubleRunHolds`, `NoEarlyDeathHolds`,
`FinalStaysHolds`, `LeaseRespectedHolds`. Assumptions: there are processes, and no two share a
worker id. The code uses `api-worker-<pid>`, so this holds on one host and need not hold across
containers. The inductive invariant: a worker whose id is on the row holds the claim of that row
(`IOwner`), a claim that has not lapsed is its job's last one (`IHeld`), no two workers made the same
claim (`IUnique`), a claim that recovery has selected is aged if it is still there (`IStale`), and
attempts never exceed the number of claims (`IRow`, `ITick`) - they may fall behind it, which is the
finding `jobs_retries`.

**PlanWatch_proofs** - `TypeCorrect`, `BannerTellsNewestHolds`, `ReloadsAdvanceHolds`. Assumptions:
there is a request id, an edit keeps its key in one of the two places, and the bound on versions is a
positive number. `BannerTellsNewest` needs that nothing shown, kept, announced or answered is ahead
of the plan (`IBehind`), that a key is kept with the version of its commit (`IKept`), which follows
the one its write was sent for (`IAnswer`), and that a client that shows nothing was told of nothing
(`IShown`). `ReloadsAdvance` needs the invariant `RInv`, which holds while nothing is `raced`: there
is one request at a time (`IAlone`), what it has read is not behind the surface (`IFresh`), and it is
ahead of the version that a write in progress was sent for (`ILate`). The last is where the banner
comes in: it names a version beyond the one the write was sent for, so the write cannot commit, and a
replay of its key answers with a version the reload has seen.

**CallRecordings_proofs** - `TypeCorrect`, `RoomAndSession`, `FreshReads`, `OneGroup`,
`OneAttachment`, `NoneForgotten`, `EndStops`, `ReadyIsFinal`. Assumptions (`SessionAssumption`,
`RecordingAssumption`): bounds are numbers, requests name sessions, and `None` and `Janitor` are
nobody else. The inductive invariant has four parts: `SessionInv` (an update in progress is the only
one of its session and holds its lock, so what it has read is still true), `RowsInv` (an egress in use
knows its session and group; a start owns its egresses alone and none of them has a row yet; what a
delivery has read has a row and has ended), `GroupInv` (starts of one session exclude each other by
the lock, and while one is at work nothing of its session is recorded by another group), `StopsInv`
(a session being closed has ended; the janitor stops what it has given up). `NoneForgotten` needs the
second, `OneGroup` the third, `EndStops` the fourth.

**NotificationDispatch_proofs** - `TypeCorrect`, `NoneIsLost`, `MailIsMarked`, `MarksAreFinal`.
Assumption (`DispatchAssumption`): limits are positive. The invariant is strengthened by
`NotGivenUp` (a row that is not delivered has attempts left) and `RunsReady` (what a run is to mail
exists, and what it is about to mark was mailed), which together also show that the count of
attempts stays in its type although runs overlap.

**ProjectIntake_proofs** - `TypeCorrect`, `ProjectsAreWon`, `FinalStaysFrozen`,
`ActivationsExclude`, `NoSilentOverbookingHolds`. Assumption (`IntakeAssumption`): demands and
capacity are numbers, every stage has a pipeline. Added to the properties: what a handler is about to
write is an open opportunity (`HandlersReady`), an activation at work names one
(`ActivationsReady`), and at most one is at work (`OneActivation`). For the capacity (`IBooking`):
what is assessed without a risk still fits beside the projects that are there (`AssessedFits`), and
projects are finitely many, which needs no assumption, as each comes from an activation that
committed. `Reserved` is a fold over a set in an order nobody knows; `SumsExist` and `HoursAddUp`
show that it is the sum whatever the order, again by a smallest counterexample (`SmallestSet`), and
`HoursGrow`, `HoursBounded`, `HoursAgree` what a project more, fewer projects, or other fields of the
same projects do to it.

**Only model-checked.** The liveness properties `EveryRequestEnds`, `EveryJobEnds`,
`EveryRecordingEnds` and `QueueDrains`: fairness is out of the prover's reach. Every other property
of the passing runs is stated by a theorem.

## 5. What is not modelled

- The scheduling engine, the solver and permissions: decisions on one snapshot, without a protocol.
- The browser's side except for the plan version it shows: two fifths of the code are surfaces,
  forms and mock backends of the web client, whose state is what the server answered last.
- The agent: a language model proposes, and what it proposes enters the modelled write path.
- Other fields of a plan; the text and layout of anything; notifications written with a commit.
- What a job's handler does, the log of job events, and, so far, the schedules.
- Creating and updating tasks (`taskCreateCommands.ts`, `taskUpdateCommands.ts`): same lock, same
  version, more fields.
- Recordings attached by hand (`attachRecording`), the events and audit rows of a call, presence and
  meetings; comments, mentions, preferences; clients, contacts and the settings of a pipeline.
- Sessions, passwords and rate limits: single statements, decided before the modelled handlers.
- `planningProposalRuns.ts` and `applyPlanningCommandHandler.ts` are not reached by any route.
- External systems (media server, object storage, language models) and everything in the inventory
  without a protocol of several steps. `PROJECT.json` gives a reason for each component.

## 6. Plan

Done, in the order of importance: the write path with its abstract specification; the closure; the
jobs; the client's copy; calls and recordings; the dispatch of notifications; project intake. Next:

1. **Job schedules** in `BackgroundJobs` or beside it: `seed`, `listDue`, enqueue under the key
   `scheduleKey:nextRunAt`, `markEnqueued`, which does not compare `next_run_at`. Properties: one job
   per slot, no slot lost by a crash between enqueue and mark, a schedule never moves back.
2. **Capacity cache**: a computation that started before a commit and is stored after the
   invalidation (`capacityCache.ts`, `registerCapacityRoutes.ts`).
3. **Project settings**: `PATCH` of a project writes its calendar without lock or version
   (`projectLifecycle.ts`), against the linear history.
4. **Creating and updating tasks** in `PlanWrites`, with the preflight that runs outside the
   transaction.
5. **Attaching a recording by hand** beside the webhook, and the split read of opportunity and demand
   in `ProjectIntake`.
6. **Proofs**: what liveness rests on and can be said without fairness, such as that a lock holder
   always has a step of its own to take; the theorems for what 1 to 5 add.

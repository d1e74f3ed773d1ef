--------------------------- MODULE BackgroundJobs ---------------------------
(***************************************************************************)
(* The queue in the table background_job_runs, polled by the worker of     *)
(* every API process.  No transaction spans two statements, so each action *)
(* below is one statement, with the decision that its result leads to.     *)
(*                                                                         *)
(* Time enters by what the statements compare: a queued job is due or not  *)
(* yet (run_after), a lease is aged or not (locked_at).  Both change at    *)
(* any moment, whatever delay or timeout was computed.  The order in which *)
(* due jobs and stale leases are taken is left open.                       *)
(***************************************************************************)
EXTENDS Integers, FiniteSets

CONSTANTS
    Processes,    \* API processes; each runs one poller, which is serialised
    WorkerId,     \* of a process: api-worker-<pid>
    Jobs,         \* jobs that may be enqueued, by id
    MaxAttempts,  \* max_attempts of the jobs
    MaxCrashes,   \* bound: ticks cut short
    NoJob, NoWorker

ASSUME ProcessAssumption == Processes # {} /\ NoJob \notin Jobs

\* Within a host process ids differ; two containers may well have the same.
ASSUME WorkerAssumption ==
    /\ \A p \in Processes : WorkerId[p] # NoWorker
    /\ \A p, q \in Processes : WorkerId[p] = WorkerId[q] => p = q

ASSUME AttemptsAssumption == MaxAttempts \in Nat \ {0} /\ MaxCrashes \in Nat

VARIABLES
    row,      \* background_job_runs
    tick,     \* per process: what its poll in progress knows
    crashes,  \* ticks cut short
    claims,   \* per job: how often it was claimed; stands for the claim's instant
    lapsed    \* (not in the code) claims <<job, instant>> taken away as expired

vars == <<row, tick, crashes, claims, lapsed>>

Statuses == {"absent", "queued", "running", "succeeded", "dead"}

Workers == {WorkerId[p] : p \in Processes} \cup {NoWorker}

Rows == [status: Statuses, attempt: 0 .. MaxAttempts, due: BOOLEAN,
         lockedBy: Workers, lockedAt: Nat, aged: BOOLEAN]

Stale == [job: Jobs, attempt: Nat, lockedAt: Nat]

Stages == {"idle", "recovering", "claiming", "handling", "completing", "failing", "failed"}

Ticks == [stage: Stages, stale: SUBSET Stale, job: Jobs \cup {NoJob},
          attempt: Nat, claim: Nat]

Idle == [stage |-> "idle", stale |-> {}, job |-> NoJob, attempt |-> 0, claim |-> 0]

NoRow == [status |-> "absent", attempt |-> 0, due |-> FALSE,
          lockedBy |-> NoWorker, lockedAt |-> 0, aged |-> FALSE]

Init ==
    /\ row = [j \in Jobs |-> NoRow]
    /\ tick = [p \in Processes |-> Idle]
    /\ crashes = 0
    /\ claims = [j \in Jobs |-> 0]
    /\ lapsed = {}

-----------------------------------------------------------------------------
(* The queue's clients and the passing of time.                            *)

\* enqueueBackgroundJob for a new idempotency key; for a known one it changes
\* nothing.
Enqueue(j) ==
    /\ row[j].status = "absent"
    /\ \E due \in BOOLEAN :
           row' = [row EXCEPT ![j].status = "queued", ![j].due = due]
    /\ UNCHANGED <<tick, crashes, claims, lapsed>>

BecomeDue(j) ==
    /\ row[j].status = "queued"
    /\ ~ row[j].due
    /\ row' = [row EXCEPT ![j].due = TRUE]
    /\ UNCHANGED <<tick, crashes, claims, lapsed>>

LeaseAges(j) ==
    /\ row[j].status = "running"
    /\ ~ row[j].aged
    /\ row' = [row EXCEPT ![j].aged = TRUE]
    /\ UNCHANGED <<tick, crashes, claims, lapsed>>

-----------------------------------------------------------------------------
(* Outcomes of an attempt.                                                 *)

Unlocked(r) == [r EXCEPT !.lockedBy = NoWorker, !.lockedAt = 0, !.aged = FALSE]

\* nextBackgroundJobFailureState: the attempt is the one the caller has read.
AfterFailure_Early(r, attempt) ==    \* mutated: the last attempt is not made
    [Unlocked(r) EXCEPT !.status = IF attempt + 1 >= MaxAttempts THEN "dead" ELSE "queued"]

AfterFailure_Late(r, attempt) ==    \* mutated: one attempt more
    [Unlocked(r) EXCEPT !.status = IF attempt > MaxAttempts THEN "dead" ELSE "queued"]

AfterFailure(r, attempt) ==
    [Unlocked(r) EXCEPT !.status = IF attempt >= MaxAttempts THEN "dead" ELSE "queued"]

\* WHERE status = 'running' AND locked_by = workerId
Owns(p) ==
    /\ row[tick[p].job].status = "running"
    /\ row[tick[p].job].lockedBy = WorkerId[p]

Goto(p, s) == tick' = [tick EXCEPT ![p].stage = s]

EndTick(p) == tick' = [tick EXCEPT ![p] = Idle]

-----------------------------------------------------------------------------
(* A tick of a process: recover leases, claim one job, run it, record.     *)

\* recoverExpiredBackgroundJobLeases first selects the rows.
ReadStale_Nothing(p) ==    \* mutated: no recovery
    /\ tick[p].stage = "idle"
    /\ Goto(p, "recovering")
    /\ UNCHANGED <<row, crashes, claims, lapsed>>

ReadStale(p) ==
    /\ tick[p].stage = "idle"
    /\ tick' = [tick EXCEPT
           ![p].stage = "recovering",
           ![p].stale = {[job |-> j, attempt |-> row[j].attempt, lockedAt |-> row[j].lockedAt] :
                             j \in {i \in Jobs : row[i].status = "running" /\ row[i].aged}}]
    /\ UNCHANGED <<row, crashes, claims, lapsed>>

\* ... and then updates them one by one, each if it is still the same claim.
RecoverRow_Unchecked(p) ==    \* mutated: the update looks at the job's id only
    /\ tick[p].stage = "recovering"
    /\ \E s \in tick[p].stale :
           /\ row' = [row EXCEPT ![s.job] = AfterFailure(row[s.job], s.attempt)]
           /\ lapsed' = lapsed \cup {<<s.job, s.lockedAt>>}
           /\ tick' = [tick EXCEPT ![p].stale = @ \ {s}]
    /\ UNCHANGED <<crashes, claims>>

RecoverRow_AnyClaim(p) ==    \* mutated: locked_at is not compared
    /\ tick[p].stage = "recovering"
    /\ \E s \in tick[p].stale :
           /\ IF row[s.job].status = "running"
              THEN /\ row' = [row EXCEPT ![s.job] = AfterFailure(row[s.job], s.attempt)]
                   /\ lapsed' = lapsed \cup {<<s.job, s.lockedAt>>}
              ELSE UNCHANGED <<row, lapsed>>
           /\ tick' = [tick EXCEPT ![p].stale = @ \ {s}]
    /\ UNCHANGED <<crashes, claims>>

RecoverRow(p) ==
    /\ tick[p].stage = "recovering"
    /\ \E s \in tick[p].stale :
           /\ IF row[s.job].status = "running" /\ row[s.job].lockedAt = s.lockedAt
              THEN /\ row' = [row EXCEPT ![s.job] = AfterFailure(row[s.job], s.attempt)]
                   /\ lapsed' = lapsed \cup {<<s.job, s.lockedAt>>}
              ELSE UNCHANGED <<row, lapsed>>
           /\ tick' = [tick EXCEPT ![p].stale = @ \ {s}]
    /\ UNCHANGED <<crashes, claims>>

DueJobs == {j \in Jobs : row[j].status = "queued" /\ row[j].due}

\* claimNextBackgroundJob selects a candidate.
SelectCandidate(p) ==
    /\ tick[p].stage = "recovering"
    /\ tick[p].stale = {}
    /\ \/ /\ DueJobs = {}
          /\ EndTick(p)
       \/ \E j \in DueJobs :
              tick' = [tick EXCEPT ![p].stage = "claiming", ![p].job = j,
                                   ![p].attempt = row[j].attempt]
    /\ UNCHANGED <<row, crashes, claims, lapsed>>

Claimed(p, j) ==
    [row[j] EXCEPT !.status = "running", !.attempt = tick[p].attempt + 1, !.due = FALSE,
                   !.lockedBy = WorkerId[p], !.lockedAt = claims[j] + 1, !.aged = FALSE]

\* UPDATE ... WHERE status = 'queued', with the attempt of the candidate.
Claim_Unchecked(p) ==    \* mutated: without the status
    /\ tick[p].stage = "claiming"
    /\ LET j == tick[p].job IN
       /\ row' = [row EXCEPT ![j] = Claimed(p, j)]
       /\ claims' = [claims EXCEPT ![j] = @ + 1]
       /\ tick' = [tick EXCEPT ![p].stage = "handling", ![p].attempt = 0,
                               ![p].claim = claims[j] + 1]
    /\ UNCHANGED <<crashes, lapsed>>

Claim(p) ==
    /\ tick[p].stage = "claiming"
    /\ LET j == tick[p].job IN
       \/ /\ row[j].status = "queued"
          /\ row' = [row EXCEPT ![j] = Claimed(p, j)]
          /\ claims' = [claims EXCEPT ![j] = @ + 1]
          /\ tick' = [tick EXCEPT ![p].stage = "handling", ![p].attempt = 0,
                                  ![p].claim = claims[j] + 1]
       \/ /\ row[j].status # "queued"
          /\ EndTick(p)
          /\ UNCHANGED <<row, claims>>
    /\ UNCHANGED <<crashes, lapsed>>

\* The handler returns or throws.
Handle(p) ==
    /\ tick[p].stage = "handling"
    /\ \E s \in {"completing", "failing"} : Goto(p, s)
    /\ UNCHANGED <<row, crashes, claims, lapsed>>

\* completeBackgroundJob.  Its result is ignored, so a worker that has lost the
\* job reports success; when it throws, before the update or (in recordEvent)
\* after it, the job is failed.
Complete(p) ==
    /\ tick[p].stage = "completing"
    /\ \/ /\ Owns(p)
          /\ row' = [row EXCEPT ![tick[p].job] = [Unlocked(@) EXCEPT !.status = "succeeded"]]
          /\ EndTick(p) \/ Goto(p, "failing")
       \/ /\ ~ Owns(p)
          /\ EndTick(p)
          /\ UNCHANGED row
       \/ /\ Goto(p, "failing")
          /\ UNCHANGED row
    /\ UNCHANGED <<crashes, claims, lapsed>>

\* failBackgroundJob: a select, then an update with the same filter.
ReadFailed(p) ==
    /\ tick[p].stage = "failing"
    /\ IF Owns(p)
       THEN tick' = [tick EXCEPT ![p].stage = "failed", ![p].attempt = row[tick[p].job].attempt]
       ELSE EndTick(p)
    /\ UNCHANGED <<row, crashes, claims, lapsed>>

Fail(p) ==
    /\ tick[p].stage = "failed"
    /\ row' = IF Owns(p)
              THEN [row EXCEPT ![tick[p].job] = AfterFailure(@, tick[p].attempt)]
              ELSE row
    /\ EndTick(p)
    /\ UNCHANGED <<crashes, claims, lapsed>>

\* The process dies and is restarted, or a statement throws and the poller
\* catches it: either way the tick's knowledge is gone.
Crash(p) ==
    /\ tick[p].stage # "idle"
    /\ crashes < MaxCrashes
    /\ crashes' = crashes + 1
    /\ EndTick(p)
    /\ UNCHANGED <<row, claims, lapsed>>

Step(p) ==
    \/ ReadStale(p)
    \/ RecoverRow(p)
    \/ SelectCandidate(p)
    \/ Claim(p)
    \/ Handle(p)
    \/ Complete(p)
    \/ ReadFailed(p)
    \/ Fail(p)

Next ==
    \/ \E p \in Processes : Step(p) \/ Crash(p)
    \/ \E j \in Jobs : Enqueue(j) \/ BecomeDue(j) \/ LeaseAges(j)

Spec == Init /\ [][Next]_vars

\* The timer polls again and again, statements and handlers return, time passes.
Fairness ==
    /\ \A p \in Processes : WF_vars(Step(p))
    /\ \A j \in Jobs : WF_vars(BecomeDue(j)) /\ WF_vars(LeaseAges(j))

FairSpec == Spec /\ Fairness

-----------------------------------------------------------------------------
(* Properties.                                                             *)

\* Every variable has its type; in particular no attempt counter exceeds
\* maxAttempts, although claims and failures compute it from earlier reads.
TypeOK ==
    /\ row \in [Jobs -> Rows]
    /\ tick \in [Processes -> Ticks]
    /\ crashes \in 0 .. MaxCrashes
    /\ claims \in [Jobs -> Nat]
    /\ lapsed \subseteq Jobs \X Nat

Working == {p \in Processes : tick[p].stage \in {"handling", "completing", "failing", "failed"}}

\* Two workers are busy with the same job only if the earlier one's lease was
\* taken away as expired: polling in parallel never runs a job twice.
NoDoubleRun ==
    \A p, q \in Working :
        tick[p].job = tick[q].job /\ tick[p].claim <= tick[q].claim /\ p # q
            => <<tick[p].job, tick[p].claim>> \in lapsed

\* What ends a claim is its own worker's outcome or the ageing of its lease,
\* never a late answer of an earlier claim or a recovery that has read one.
LeaseRespected ==
    [][\A j \in Jobs :
           row[j].status = "running" /\ <<row'[j].status, row'[j].lockedAt>>
                                            # <<row[j].status, row[j].lockedAt>>
               => \/ row[j].aged
                  \/ \E p \in Working : tick[p].job = j /\ tick[p].claim = row[j].lockedAt]_row

\* A job that has succeeded or is dead stays so, however late an answer comes.
FinalStays ==
    [][\A j \in Jobs : row[j].status \in {"succeeded", "dead"} => row'[j] = row[j]]_row

\* No job is given up before it was started as often as its maxAttempts says,
\* although crashes, expiries and failures all count the attempts.
NoEarlyDeath == \A j \in Jobs : row[j].status = "dead" => claims[j] >= MaxAttempts

\* Every job that is enqueued succeeds or is dead in the end, whatever ticks
\* are cut short: no job is left running by a worker that is gone.
EveryJobEnds ==
    \A j \in Jobs : row[j].status # "absent" ~> row[j].status \in {"succeeded", "dead"}

-----------------------------------------------------------------------------
(* What the repository says of itself and the code does not do.            *)

\* Failed jobs never retry beyond maxAttempts.
RetriesBounded == \A j \in Jobs : claims[j] <= MaxAttempts
=============================================================================

----------------------- MODULE BackgroundJobs_proofs -----------------------
(* For any number of processes and jobs: what the claims, leases and final  *)
(* states of the queue of background jobs guarantee.                        *)
EXTENDS BackgroundJobs, TLAPS

\* Instants of claims, and how attempts lag behind them.
IRow ==
    \A j \in Jobs :
        /\ row[j].attempt <= claims[j]
        /\ row[j].status \in {"absent", "queued"} => row[j].attempt < MaxAttempts
        /\ row[j].status = "running" => row[j].lockedAt = claims[j]
        /\ row[j].status = "dead" => claims[j] >= MaxAttempts

\* What a tick remembers was once so.
ITick ==
    \A p \in Processes :
        /\ tick[p].stage \in {"claiming", "handling", "completing", "failing", "failed"} =>
               /\ tick[p].job \in Jobs
               /\ tick[p].attempt <= claims[tick[p].job]
        /\ tick[p].stage = "claiming" => tick[p].attempt < MaxAttempts
        /\ \A s \in tick[p].stale : s.attempt <= claims[s.job] /\ s.lockedAt <= claims[s.job]
        /\ p \in Working => tick[p].claim <= claims[tick[p].job]

\* A claim that was found stale is still as it was, if it is still there.
IStale ==
    \A p \in Processes : \A s \in tick[p].stale :
        row[s.job].status = "running" /\ row[s.job].lockedAt = s.lockedAt =>
            row[s.job].aged /\ s.attempt = row[s.job].attempt

\* A worker whose id is on its job's row holds the claim of that row.
IOwner ==
    \A p \in Working : Owns(p) =>
        /\ row[tick[p].job].lockedAt = tick[p].claim
        /\ tick[p].stage = "failed" => tick[p].attempt = row[tick[p].job].attempt

\* A claim that has not lapsed is the job's last one, and it is still there
\* unless its own worker has completed it.
IHeld ==
    \A p \in Working :
        \/ <<tick[p].job, tick[p].claim>> \in lapsed
        \/ /\ tick[p].claim = claims[tick[p].job]
           /\ row[tick[p].job].status \in {"running", "succeeded"}

\* No two ticks made the same claim.
IUnique ==
    \A p, q \in Working :
        tick[p].job = tick[q].job /\ tick[p].claim = tick[q].claim => p = q

Inv == TypeOK /\ IRow /\ ITick /\ IStale /\ IOwner /\ IHeld /\ IUnique

-----------------------------------------------------------------------------
\* What nextBackgroundJobFailureState makes of a row.
LEMMA AfterFailureRow ==
    ASSUME NEW r \in Rows, NEW a \in Nat
    PROVE  /\ AfterFailure(r, a) \in Rows
           /\ AfterFailure(r, a).status \in {"queued", "dead"}
           /\ AfterFailure(r, a).status = "dead" => a >= MaxAttempts
           /\ AfterFailure(r, a).status = "queued" => a < MaxAttempts
           /\ AfterFailure(r, a).attempt = r.attempt
  <1>1. a >= MaxAttempts \/ a < MaxAttempts
      BY AttemptsAssumption
  <1>2. CASE a >= MaxAttempts
      BY <1>2 DEF AfterFailure, Unlocked, Rows, Statuses, Workers
  <1>3. CASE ~ (a >= MaxAttempts)
      BY <1>1, <1>3 DEF AfterFailure, Unlocked, Rows, Statuses, Workers
  <1> QED
      BY <1>2, <1>3

\* What completeBackgroundJob makes of a row.
LEMMA SucceededRow ==
    ASSUME NEW r \in Rows
    PROVE  /\ [Unlocked(r) EXCEPT !.status = "succeeded"] \in Rows
           /\ [Unlocked(r) EXCEPT !.status = "succeeded"].status = "succeeded"
           /\ [Unlocked(r) EXCEPT !.status = "succeeded"].attempt = r.attempt
    BY DEF Unlocked, Rows, Statuses, Workers

\* What a claim makes of a row.
LEMMA ClaimedRow ==
    ASSUME TypeOK, NEW p \in Processes, NEW j \in Jobs, tick[p].attempt < MaxAttempts
    PROVE  /\ Claimed(p, j) \in Rows
           /\ Claimed(p, j).status = "running"
           /\ Claimed(p, j).attempt = tick[p].attempt + 1
           /\ Claimed(p, j).lockedAt = claims[j] + 1
           /\ Claimed(p, j).lockedBy = WorkerId[p]
  <1>1. tick[p].attempt + 1 \in 0 .. MaxAttempts /\ claims[j] + 1 \in Nat /\ row[j] \in Rows
      BY AttemptsAssumption DEF TypeOK, Ticks
  <1> QED
      BY <1>1 DEF Claimed, Rows, Statuses, Workers
-----------------------------------------------------------------------------
(* Every action keeps the invariant.                                       *)

\* Jobs that are not the one at hand keep their rows.
OtherRows(j) == \A i \in Jobs : i # j => row'[i] = row[i]

\* Ticks of other processes are not touched.
OtherTicks(p) == \A q \in Processes : q # p => tick'[q] = tick[q]

\* A tick that has ended knows nothing.
LEMMA IdleTick == Idle \in Ticks
    BY DEF Idle, Ticks, Stages

\* Ending a tick forgets what it knew.
LEMMA EndTickKeeps ==
    ASSUME Inv, NEW p \in Processes, EndTick(p), crashes' \in 0 .. MaxCrashes,
           UNCHANGED <<row, claims, lapsed>>
    PROVE  Inv'
<1> USE DEF Inv
<1>1. tick'[p] = Idle /\ OtherTicks(p) /\ tick' \in [Processes -> Ticks]
    BY IdleTick DEF EndTick, OtherTicks, TypeOK
<1>2. tick'[p].stage = "idle" /\ tick'[p].stale = {}
    BY <1>1 DEF Idle
<1>3. \A q \in Working' : q \in Working /\ q # p /\ tick'[q] = tick[q]
    BY <1>1, <1>2 DEF Working, OtherTicks
<1>4. TypeOK'
    BY <1>1 DEF TypeOK
<1>5. IRow'
    BY DEF IRow
<1>6. ITick'
    BY <1>1, <1>2, <1>3 DEF ITick, OtherTicks
<1>7. IStale'
    BY <1>1, <1>2 DEF IStale, OtherTicks
<1>8. IOwner'
    BY <1>3 DEF IOwner, Owns
<1>9. IHeld' /\ IUnique'
    BY <1>3 DEF IHeld, IUnique
<1> QED
    BY <1>4, <1>5, <1>6, <1>7, <1>8, <1>9

\* Going on to another stage of the same work, with an attempt read from the row.
LEMMA WorkOnKeeps ==
    ASSUME Inv, NEW p \in Working, NEW t \in Ticks, tick' = [tick EXCEPT ![p] = t],
           t.stage \in {"completing", "failing", "failed"},
           t.stale = tick[p].stale, t.job = tick[p].job, t.claim = tick[p].claim,
           t.attempt <= claims[t.job],
           t.stage = "failed" => t.attempt = row[t.job].attempt,
           UNCHANGED <<row, crashes, claims, lapsed>>
    PROVE  Inv'
<1> USE DEF Inv
<1>1. p \in Processes /\ tick'[p] = t /\ OtherTicks(p) /\ tick' \in [Processes -> Ticks]
    BY DEF OtherTicks, TypeOK, Working
<1>2. Working' = Working
    BY <1>1 DEF Working, OtherTicks
<1>3. TypeOK'
    BY <1>1 DEF TypeOK
<1>4. IRow'
    BY DEF IRow
<1>5. ITick'
    BY <1>1, <1>2 DEF ITick, OtherTicks, Working
<1>6. IStale'
    BY <1>1 DEF IStale, OtherTicks
<1>7. IOwner'
    BY <1>1, <1>2 DEF IOwner, OtherTicks, Owns
<1>8. IHeld' /\ IUnique'
    BY <1>1, <1>2 DEF IHeld, IUnique, OtherTicks
<1> QED
    BY <1>3, <1>4, <1>5, <1>6, <1>7, <1>8

\* A row changes without being locked or unlocked: enqueued, due, aged.
LEMMA RowOnlyKeeps ==
    ASSUME Inv, NEW j \in Jobs, NEW r \in Rows, row' = [row EXCEPT ![j] = r],
           r.status = row[j].status \/ (row[j].status = "absent" /\ r.status = "queued"),
           r.attempt = row[j].attempt, r.lockedBy = row[j].lockedBy,
           r.lockedAt = row[j].lockedAt, row[j].aged => r.aged,
           UNCHANGED <<tick, crashes, claims, lapsed>>
    PROVE  Inv'
<1> USE DEF Inv
<1>1. row'[j] = r /\ OtherRows(j) /\ row' \in [Jobs -> Rows]
    BY DEF OtherRows, TypeOK
<1>2. Working' = Working
    BY DEF Working
<1>3. TypeOK'
    BY <1>1 DEF TypeOK
<1>4. IRow'
    BY <1>1 DEF IRow, OtherRows
<1>5. ITick'
    BY <1>2 DEF ITick
<1>6. IStale'
    BY <1>1 DEF IStale, OtherRows, TypeOK, Ticks, Stale
<1>7. IOwner'
    BY <1>1, <1>2 DEF IOwner, OtherRows, Owns, ITick, Working
<1>8. IHeld' /\ IUnique'
    BY <1>1, <1>2 DEF IHeld, IUnique, OtherRows, ITick, Working
<1> QED
    BY <1>3, <1>4, <1>5, <1>6, <1>7, <1>8

\* Enqueuing a job and the passing of time.
LEMMA QueueKeeps ==
    ASSUME Inv, NEW j \in Jobs, Enqueue(j) \/ BecomeDue(j) \/ LeaseAges(j)
    PROVE  Inv'
<1> USE DEF Inv
<1>1. row[j] \in Rows
    BY DEF TypeOK
<1>2. CASE Enqueue(j)
  <2>1. PICK due \in BOOLEAN :
            row' = [row EXCEPT ![j] = [row[j] EXCEPT !.status = "queued", !.due = due]]
      BY <1>2 DEF Enqueue, TypeOK
  <2> DEFINE r == [row[j] EXCEPT !.status = "queued", !.due = due]
  <2>2. /\ r \in Rows /\ r.status = "queued" /\ r.attempt = row[j].attempt
        /\ row[j].aged => r.aged
        /\ r.lockedBy = row[j].lockedBy /\ r.lockedAt = row[j].lockedAt
      BY <1>1 DEF Rows, Statuses
  <2>3. row' = [row EXCEPT ![j] = r]
      BY <2>1
  <2> HIDE DEF r
  <2>4. row[j].status = "absent" /\ UNCHANGED <<tick, crashes, claims, lapsed>>
      BY <1>2 DEF Enqueue
  <2> QED
      BY <2>2, <2>3, <2>4, RowOnlyKeeps
<1>3. CASE BecomeDue(j)
  <2> DEFINE r == [row[j] EXCEPT !.due = TRUE]
  <2>1. row' = [row EXCEPT ![j] = r]
      BY <1>3 DEF BecomeDue, TypeOK
  <2>2. /\ r \in Rows /\ r.status = row[j].status /\ r.attempt = row[j].attempt
        /\ r.aged = row[j].aged /\ r.lockedBy = row[j].lockedBy /\ r.lockedAt = row[j].lockedAt
      BY <1>1 DEF Rows, Statuses
  <2> HIDE DEF r
  <2> QED
      BY <1>3, <2>1, <2>2, RowOnlyKeeps DEF BecomeDue
<1>4. CASE LeaseAges(j)
  <2> DEFINE r == [row[j] EXCEPT !.aged = TRUE]
  <2>1. row' = [row EXCEPT ![j] = r]
      BY <1>4 DEF LeaseAges, TypeOK
  <2>2. /\ r \in Rows /\ r.status = row[j].status /\ r.attempt = row[j].attempt
        /\ r.aged /\ r.lockedBy = row[j].lockedBy /\ r.lockedAt = row[j].lockedAt
      BY <1>1 DEF Rows, Statuses
  <2> HIDE DEF r
  <2> QED
      BY <1>4, <2>1, <2>2, RowOnlyKeeps DEF LeaseAges
<1> QED
    BY <1>2, <1>3, <1>4

\* What is selected for recovery is there and aged.
LEMMA ReadStaleKeeps ==
    ASSUME Inv, NEW p \in Processes, ReadStale(p)
    PROVE  Inv'
<1> USE DEF Inv
<1> DEFINE S == {[job |-> j, attempt |-> row[j].attempt, lockedAt |-> row[j].lockedAt] :
                     j \in {i \in Jobs : row[i].status = "running" /\ row[i].aged}}
           t == [tick[p] EXCEPT !.stage = "recovering", !.stale = S]
<1>1. \A s \in S : /\ s \in Stale /\ row[s.job].aged /\ s.attempt = row[s.job].attempt
                   /\ s.attempt <= claims[s.job] /\ s.lockedAt <= claims[s.job]
    BY DEF Stale, TypeOK, Rows, IRow
<1>2. t \in Ticks /\ t.stage = "recovering" /\ t.stale = S
  <2> HIDE DEF S
  <2> QED
      BY <1>1 DEF TypeOK, Ticks, Stages
<1>3. tick' = [tick EXCEPT ![p] = t] /\ tick[p].stage = "idle"
    BY DEF ReadStale, TypeOK
<1> HIDE DEF t, S
<1>4. tick'[p] = t /\ OtherTicks(p) /\ tick' \in [Processes -> Ticks]
    BY <1>2, <1>3 DEF OtherTicks, TypeOK
<1>5. UNCHANGED <<row, crashes, claims, lapsed>>
    BY DEF ReadStale
<1>6. \A q \in Working' : q \in Working /\ tick'[q] = tick[q]
    BY <1>2, <1>4 DEF Working, OtherTicks
<1>7. TypeOK' /\ IRow'
    BY <1>4, <1>5 DEF TypeOK, IRow
<1>8. ITick'
    BY <1>1, <1>2, <1>4, <1>5, <1>6 DEF ITick, OtherTicks
<1>9. IStale'
    BY <1>1, <1>2, <1>4, <1>5 DEF IStale, OtherTicks
<1>10. IOwner' /\ IHeld' /\ IUnique'
    BY <1>5, <1>6 DEF IOwner, IHeld, IUnique, Owns
<1> QED
    BY <1>7, <1>8, <1>9, <1>10

\* A candidate was a queued job.
LEMMA SelectCandidateKeeps ==
    ASSUME Inv, NEW p \in Processes, SelectCandidate(p)
    PROVE  Inv'
<1> USE DEF Inv
<1>1. UNCHANGED <<row, crashes, claims, lapsed>> /\ tick[p].stage = "recovering"
    BY DEF SelectCandidate
<1>2. CASE EndTick(p)
    BY <1>1, <1>2, EndTickKeeps DEF TypeOK
<1>3. ASSUME NEW j \in DueJobs,
             tick' = [tick EXCEPT ![p].stage = "claiming", ![p].job = j,
                                  ![p].attempt = row[j].attempt]
      PROVE  Inv'
  <2> DEFINE t == [tick[p] EXCEPT !.stage = "claiming", !.job = j, !.attempt = row[j].attempt]
  <2>1. j \in Jobs /\ row[j] \in Rows /\ tick[p] \in Ticks
      BY DEF DueJobs, TypeOK
  <2>2. /\ t \in Ticks /\ t.stage = "claiming" /\ t.job = j /\ t.stale = tick[p].stale
        /\ t.attempt = row[j].attempt
    <3>1. row[j].attempt \in Nat
        BY <2>1, AttemptsAssumption DEF Rows
    <3> QED
        BY <2>1, <3>1 DEF Ticks, Stages
  <2>3. tick' = [tick EXCEPT ![p] = t]
      BY <1>3 DEF TypeOK
  <2> HIDE DEF t
  <2>4. tick'[p] = t /\ OtherTicks(p) /\ tick' \in [Processes -> Ticks]
      BY <2>2, <2>3 DEF OtherTicks, TypeOK
  <2>5. \A q \in Working' : q \in Working /\ tick'[q] = tick[q]
      BY <2>2, <2>4 DEF Working, OtherTicks
  <2>6. TypeOK' /\ IRow'
      BY <1>1, <2>4 DEF TypeOK, IRow
  <2>7. row[j].attempt < MaxAttempts /\ row[j].attempt <= claims[j]
      BY <2>1 DEF DueJobs, IRow
  <2>8. ITick'
      BY <1>1, <2>1, <2>2, <2>4, <2>5, <2>7 DEF ITick, OtherTicks
  <2>9. IStale'
      BY <1>1, <2>2, <2>4 DEF IStale, OtherTicks
  <2>10. IOwner' /\ IHeld' /\ IUnique'
      BY <1>1, <2>5 DEF IOwner, IHeld, IUnique, Owns
  <2> QED
      BY <2>6, <2>8, <2>9, <2>10
<1> QED
    BY <1>2, <1>3 DEF SelectCandidate

\* The handler touches no row of the queue.
LEMMA HandleKeeps ==
    ASSUME Inv, NEW p \in Processes, Handle(p)
    PROVE  Inv'
<1> USE DEF Inv
<1>1. PICK s \in {"completing", "failing"} : tick' = [tick EXCEPT ![p].stage = s]
    BY DEF Handle, Goto
<1> DEFINE t == [tick[p] EXCEPT !.stage = s]
<1>2. tick[p] \in Ticks /\ p \in Working
    BY DEF Handle, Working, TypeOK
<1>3. /\ t \in Ticks /\ t.stage = s /\ t.stale = tick[p].stale /\ t.job = tick[p].job
      /\ t.claim = tick[p].claim /\ t.attempt = tick[p].attempt
    BY <1>2 DEF Ticks, Stages
<1>4. tick' = [tick EXCEPT ![p] = t]
    BY <1>1 DEF TypeOK
<1> HIDE DEF t
<1>5. t.attempt <= claims[t.job]
    BY <1>2, <1>3 DEF ITick, Working
<1> QED
    BY <1>2, <1>3, <1>4, <1>5, WorkOnKeeps DEF Handle

\* The attempt to be failed is read from the row.
LEMMA ReadFailedKeeps ==
    ASSUME Inv, NEW p \in Processes, ReadFailed(p)
    PROVE  Inv'
<1> USE DEF Inv
<1>1. /\ UNCHANGED <<row, crashes, claims, lapsed>>
      /\ p \in Working /\ tick[p] \in Ticks /\ tick[p].job \in Jobs
    BY DEF ReadFailed, Working, TypeOK, ITick
<1>2. CASE EndTick(p)
    BY <1>1, <1>2, EndTickKeeps DEF TypeOK
<1>3. CASE tick' = [tick EXCEPT ![p].stage = "failed", ![p].attempt = row[tick[p].job].attempt]
  <2> DEFINE t == [tick[p] EXCEPT !.stage = "failed", !.attempt = row[tick[p].job].attempt]
  <2>1. row[tick[p].job] \in Rows
      BY <1>1 DEF TypeOK
  <2>2. /\ t \in Ticks /\ t.stage = "failed" /\ t.stale = tick[p].stale /\ t.job = tick[p].job
        /\ t.claim = tick[p].claim /\ t.attempt = row[tick[p].job].attempt
    <3>1. row[tick[p].job].attempt \in Nat
        BY <2>1, AttemptsAssumption DEF Rows
    <3> QED
        BY <1>1, <3>1 DEF Ticks, Stages
  <2>3. tick' = [tick EXCEPT ![p] = t]
      BY <1>3 DEF TypeOK
  <2> HIDE DEF t
  <2>4. t.attempt <= claims[t.job]
      BY <1>1, <2>2 DEF IRow
  <2> QED
      BY <1>1, <2>2, <2>3, <2>4, WorkOnKeeps
<1> QED
    BY <1>2, <1>3 DEF ReadFailed

\* A tick that is cut short.
LEMMA CrashKeeps ==
    ASSUME Inv, NEW p \in Processes, Crash(p)
    PROVE  Inv'
<1>1. crashes' \in 0 .. MaxCrashes
    BY AttemptsAssumption DEF Crash, Inv, TypeOK
<1> QED
    BY <1>1, EndTickKeeps DEF Crash

\* Recovery takes away an aged claim, or finds that it is gone.
LEMMA RecoverRowKeeps ==
    ASSUME Inv, NEW p \in Processes, RecoverRow(p)
    PROVE  Inv'
<1> USE DEF Inv
<1>1. PICK s \in tick[p].stale :
          /\ IF row[s.job].status = "running" /\ row[s.job].lockedAt = s.lockedAt
             THEN /\ row' = [row EXCEPT ![s.job] = AfterFailure(row[s.job], s.attempt)]
                  /\ lapsed' = lapsed \cup {<<s.job, s.lockedAt>>}
             ELSE UNCHANGED <<row, lapsed>>
          /\ tick' = [tick EXCEPT ![p].stale = @ \ {s}]
    BY DEF RecoverRow
<1>2. tick[p] \in Ticks /\ tick[p].stage = "recovering" /\ UNCHANGED <<crashes, claims>>
    BY DEF RecoverRow, TypeOK
<1>3. s \in Stale /\ s.job \in Jobs /\ s.attempt \in Nat /\ s.lockedAt \in Nat
    BY <1>1, <1>2 DEF Ticks, Stale
<1>4. s.attempt <= claims[s.job] /\ s.lockedAt <= claims[s.job]
    BY <1>1 DEF ITick
<1> DEFINE t == [tick[p] EXCEPT !.stale = @ \ {s}]
           r == AfterFailure(row[s.job], s.attempt)
<1>5. t \in Ticks /\ t.stage = "recovering" /\ t.stale = tick[p].stale \ {s}
    BY <1>2 DEF Ticks
<1>6. tick' = [tick EXCEPT ![p] = t]
    BY <1>1 DEF TypeOK
<1> HIDE DEF t
<1>7. tick'[p] = t /\ OtherTicks(p) /\ tick' \in [Processes -> Ticks]
    BY <1>5, <1>6 DEF OtherTicks, TypeOK
<1>8. \A q \in Working' : q \in Working /\ tick'[q] = tick[q]
    BY <1>5, <1>7 DEF Working, OtherTicks
<1>9. \A q \in Processes : tick'[q].stale \subseteq tick[q].stale
    BY <1>5, <1>7 DEF OtherTicks
<1>10. ITick'
  <2>1. \A q \in Processes : tick'[q].stage = tick[q].stage
      BY <1>2, <1>5, <1>7 DEF OtherTicks
  <2>2. \A q \in Processes : tick[q].stage # "recovering" => tick'[q] = tick[q]
      BY <1>2, <1>7 DEF OtherTicks
  <2> QED
      BY <1>2, <1>8, <1>9, <2>1, <2>2 DEF ITick
<1>11. IUnique'
    BY <1>8 DEF IUnique
<1>12. CASE row[s.job].status = "running" /\ row[s.job].lockedAt = s.lockedAt
  <2>1. row[s.job] \in Rows
      BY <1>3 DEF TypeOK
  <2>2. /\ r \in Rows /\ r.status \in {"queued", "dead"} /\ r.attempt = row[s.job].attempt
        /\ r.status = "dead" => s.attempt >= MaxAttempts
        /\ r.status = "queued" => s.attempt < MaxAttempts
      BY <1>3, <2>1, AfterFailureRow
  <2>3. row' = [row EXCEPT ![s.job] = r] /\ lapsed' = lapsed \cup {<<s.job, s.lockedAt>>}
      BY <1>1, <1>12
  <2> HIDE DEF r
  <2>4. row'[s.job] = r /\ OtherRows(s.job) /\ row' \in [Jobs -> Rows]
      BY <1>3, <2>2, <2>3 DEF OtherRows, TypeOK
  <2>5. TypeOK'
      BY <1>2, <1>3, <1>7, <2>3, <2>4 DEF TypeOK
  <2>6. claims[s.job] \in Nat /\ MaxAttempts \in Nat
      BY <1>3, AttemptsAssumption DEF TypeOK
  <2>7. IRow'
      BY <1>1, <1>2, <1>3, <1>4, <1>12, <2>2, <2>4, <2>6 DEF IRow, IStale, OtherRows
  <2>8. IStale'
      BY <1>9, <2>2, <2>4 DEF IStale, OtherRows, TypeOK, Ticks, Stale
  <2>9. IOwner'
      BY <1>8, <2>2, <2>4 DEF IOwner, Owns, OtherRows, ITick, Working
  <2>10. IHeld'
    <3> SUFFICES ASSUME NEW q \in Working', ~ <<tick'[q].job, tick'[q].claim>> \in lapsed'
                 PROVE  /\ tick'[q].claim = claims'[tick'[q].job]
                        /\ row'[tick'[q].job].status \in {"running", "succeeded"}
        BY DEF IHeld
    <3>1. /\ q \in Working /\ tick'[q] = tick[q]
          /\ tick[q].claim = claims[tick[q].job]
          /\ row[tick[q].job].status \in {"running", "succeeded"}
        BY <1>8, <2>3 DEF IHeld
    <3>2. tick[q].job # s.job
        BY <1>12, <1>3, <2>3, <3>1 DEF IRow
    <3> QED
        BY <1>2, <2>4, <3>1, <3>2 DEF OtherRows, ITick, Working
  <2> QED
      BY <1>10, <1>11, <2>5, <2>7, <2>8, <2>9, <2>10
<1>13. CASE ~ (row[s.job].status = "running" /\ row[s.job].lockedAt = s.lockedAt)
  <2>1. UNCHANGED <<row, lapsed>>
      BY <1>1, <1>13
  <2>2. TypeOK' /\ IRow'
      BY <1>2, <1>7, <2>1 DEF TypeOK, IRow
  <2>3. IStale'
      BY <1>9, <2>1 DEF IStale
  <2>4. IOwner' /\ IHeld'
      BY <1>2, <1>8, <2>1 DEF IOwner, IHeld, Owns
  <2> QED
      BY <1>10, <1>11, <2>2, <2>3, <2>4
<1> QED
    BY <1>12, <1>13

\* A claim is the job's last one.
LEMMA ClaimKeeps ==
    ASSUME Inv, NEW p \in Processes, Claim(p)
    PROVE  Inv'
<1> USE DEF Inv
<1> DEFINE j == tick[p].job
           n == claims[j] + 1
           r == Claimed(p, j)
           t == [tick[p] EXCEPT !.stage = "handling", !.attempt = 0, !.claim = n]
<1>1. /\ tick[p] \in Ticks /\ tick[p].stage = "claiming" /\ j \in Jobs
      /\ tick[p].attempt <= claims[j] /\ tick[p].attempt < MaxAttempts
      /\ UNCHANGED <<crashes, lapsed>>
    BY DEF Claim, TypeOK, ITick
<1>2. claims[j] \in Nat /\ n \in Nat /\ n > claims[j]
    BY <1>1 DEF TypeOK
<1>3. CASE row[j].status # "queued"
    BY <1>1, <1>3, EndTickKeeps DEF Claim, TypeOK
<1>4. CASE row[j].status = "queued"
  <2>1. /\ row' = [row EXCEPT ![j] = r]
        /\ claims' = [claims EXCEPT ![j] = n]
        /\ tick' = [tick EXCEPT ![p] = t]
      BY <1>1, <1>4 DEF Claim, TypeOK
  <2>2. /\ r \in Rows /\ r.status = "running" /\ r.attempt = tick[p].attempt + 1
        /\ r.lockedAt = n /\ r.lockedBy = WorkerId[p]
      BY <1>1, ClaimedRow
  <2>3. /\ t \in Ticks /\ t.stage = "handling" /\ t.attempt = 0 /\ t.claim = n
        /\ t.job = j /\ t.stale = tick[p].stale
      BY <1>1, <1>2 DEF Ticks, Stages
  <2>4. tick[p].attempt \in Nat
      BY <1>1 DEF Ticks
  <2> HIDE DEF r, t, n
  <2>5. /\ row'[j] = r /\ OtherRows(j) /\ row' \in [Jobs -> Rows]
        /\ tick'[p] = t /\ OtherTicks(p) /\ tick' \in [Processes -> Ticks]
        /\ claims'[j] = n /\ claims' \in [Jobs -> Nat]
        /\ \A i \in Jobs : i # j => claims'[i] = claims[i]
      BY <1>1, <1>2, <2>1, <2>2, <2>3 DEF OtherRows, OtherTicks, TypeOK
  <2> HIDE DEF j
  <2>6. \A q \in Working' : q # p => q \in Working /\ tick'[q] = tick[q]
      BY <2>5 DEF Working, OtherTicks
  <2>7. p \notin Working /\ \A q \in Working : tick[q].job \in Jobs /\ tick[q].claim \in Nat
      BY <1>1 DEF Working, ITick, TypeOK, Ticks
  <2>8. \A i \in Jobs : claims[i] \in Nat /\ claims[i] <= claims'[i]
      BY <1>2, <2>5 DEF TypeOK
  <2>9. TypeOK'
      BY <1>1, <2>5 DEF TypeOK
  <2>10. IRow'
    <3>1. n = claims[j] + 1
        BY DEF n
    <3> QED
        BY <1>1, <1>2, <2>2, <2>4, <2>5, <3>1 DEF IRow, OtherRows
  <2>11. ITick'
    <3> SUFFICES ASSUME NEW q \in Processes
                 PROVE  /\ tick'[q].stage \in {"claiming", "handling", "completing", "failing",
                                               "failed"} =>
                               /\ tick'[q].job \in Jobs
                               /\ tick'[q].attempt <= claims'[tick'[q].job]
                        /\ tick'[q].stage = "claiming" => tick'[q].attempt < MaxAttempts
                        /\ \A s \in tick'[q].stale :
                               s.attempt <= claims'[s.job] /\ s.lockedAt <= claims'[s.job]
                        /\ q \in Working' => tick'[q].claim <= claims'[tick'[q].job]
        BY DEF ITick
    <3>1. tick[q] \in Ticks /\ \A s \in tick[q].stale : s \in Stale
        BY DEF TypeOK, Ticks
    <3>2. tick'[q].stale = tick[q].stale
        BY <2>3, <2>5 DEF OtherTicks
    <3>3. \A s \in tick'[q].stale :
              s.attempt <= claims'[s.job] /\ s.lockedAt <= claims'[s.job]
        BY <2>5, <2>8, <3>1, <3>2 DEF ITick, Stale
    <3>4. CASE q = p
        BY <1>1, <1>2, <2>3, <2>5, <3>3, <3>4
    <3>5. CASE q # p
        BY <2>5, <2>6, <2>7, <2>8, <3>1, <3>3, <3>5 DEF ITick, OtherTicks, Ticks
    <3> QED
        BY <3>4, <3>5
  <2>12. IStale'
    <3> SUFFICES ASSUME NEW q \in Processes, NEW s \in tick'[q].stale,
                        row'[s.job].status = "running", row'[s.job].lockedAt = s.lockedAt
                 PROVE  row'[s.job].aged /\ s.attempt = row'[s.job].attempt
        BY DEF IStale
    <3>1. s \in tick[q].stale /\ s \in Stale /\ s.lockedAt <= claims[s.job]
        BY <2>3, <2>5 DEF OtherTicks, TypeOK, Ticks, ITick
    <3>2. s.job # j
        BY <1>2, <2>2, <2>5, <3>1 DEF Stale
    <3> QED
        BY <2>5, <3>1, <3>2 DEF OtherRows, IStale, Stale
  <2>13. IOwner'
    <3> SUFFICES ASSUME NEW q \in Working', Owns(q)'
                 PROVE  /\ row'[tick'[q].job].lockedAt = tick'[q].claim
                        /\ tick'[q].stage = "failed" => tick'[q].attempt = row'[tick'[q].job].attempt
        BY DEF IOwner
    <3>1. CASE q = p
        BY <2>2, <2>3, <2>5, <3>1
    <3>2. CASE q # p
      <4>1. q \in Working /\ tick'[q] = tick[q] /\ q \in Processes
          BY <2>6, <3>2 DEF Working
      <4>2. tick[q].job # j
          BY <2>2, <2>5, <3>2, <4>1, WorkerAssumption DEF Owns
      <4> QED
          BY <2>5, <2>7, <4>1, <4>2 DEF IOwner, Owns, OtherRows
    <3> QED
        BY <3>1, <3>2
  <2>14. IHeld'
    <3> SUFFICES ASSUME NEW q \in Working', ~ <<tick'[q].job, tick'[q].claim>> \in lapsed'
                 PROVE  /\ tick'[q].claim = claims'[tick'[q].job]
                        /\ row'[tick'[q].job].status \in {"running", "succeeded"}
        BY DEF IHeld
    <3>1. CASE q = p
        BY <2>2, <2>3, <2>5, <3>1
    <3>2. CASE q # p
      <4>1. q \in Working /\ tick'[q] = tick[q]
          BY <2>6, <3>2
      <4>2. tick[q].job # j
          BY <1>1, <1>4, <4>1 DEF IHeld, j
      <4> QED
          BY <1>1, <2>5, <2>7, <4>1, <4>2 DEF IHeld, OtherRows
    <3> QED
        BY <3>1, <3>2
  <2>15. IUnique'
    <3>1. \A q \in Working : tick[q].claim <= claims[tick[q].job]
        BY DEF ITick, Working
    <3>2. \A q \in Working : tick[q].job = j => tick[q].claim # n
        BY <1>2, <2>7, <3>1
    <3> QED
        BY <2>3, <2>5, <2>6, <3>2 DEF IUnique
  <2> QED
      BY <2>9, <2>10, <2>11, <2>12, <2>13, <2>14, <2>15
<1> QED
    BY <1>3, <1>4

\* A worker that owns the row holds the job's last claim, and no other does.
LEMMA OwnerHolds ==
    ASSUME Inv, NEW p \in Working, Owns(p)
    PROVE  /\ tick[p].claim = claims[tick[p].job]
           /\ \A q \in Working : q # p /\ tick[q].job = tick[p].job =>
                  <<tick[q].job, tick[q].claim>> \in lapsed
<1>1. tick[p].job \in Jobs
    BY DEF Inv, ITick, Working
<1>2. tick[p].claim = claims[tick[p].job]
    BY <1>1 DEF Inv, IOwner, IRow, Owns
<1> QED
    BY <1>2 DEF Inv, IHeld, IUnique

\* The worker's own outcome unlocks the row: what CompleteKeeps and FailKeeps share.
LEMMA OwnRowKeeps ==
    ASSUME Inv, NEW p \in Working, Owns(p), NEW r \in Rows,
           row' = [row EXCEPT ![tick[p].job] = r], r.attempt = row[tick[p].job].attempt,
           r.status \in {"queued", "dead", "succeeded"},
           r.status = "dead" => claims[tick[p].job] >= MaxAttempts,
           r.status = "queued" => r.attempt < MaxAttempts,
           NEW t \in Ticks, tick' = [tick EXCEPT ![p] = t], t.stale \subseteq tick[p].stale,
           \/ t.stage = "idle"
           \/ /\ r.status = "succeeded"
              /\ t.stage = "failing" /\ t.job = tick[p].job /\ t.claim = tick[p].claim
              /\ t.attempt = tick[p].attempt,
           UNCHANGED <<crashes, claims, lapsed>>
    PROVE  Inv'
<1> DEFINE j == tick[p].job
<1>1. p \in Processes /\ tick[p] \in Ticks /\ j \in Jobs
    BY DEF Inv, TypeOK, ITick, Working
<1>2. /\ row'[j] = r /\ OtherRows(j) /\ row' \in [Jobs -> Rows]
      /\ tick'[p] = t /\ OtherTicks(p) /\ tick' \in [Processes -> Ticks]
    BY <1>1 DEF OtherRows, OtherTicks, Inv, TypeOK
<1>3. \A q \in Working' : q \in Working /\ tick'[q].job = tick[q].job /\ tick'[q].claim = tick[q].claim
    BY <1>2 DEF Working, OtherTicks
<1>4. \A q \in Working' : q = p => r.status = "succeeded"
    BY <1>2 DEF Working
<1>5. TypeOK'
    BY <1>2 DEF Inv, TypeOK
<1>6. IRow'
    BY <1>1, <1>2 DEF Inv, IRow, OtherRows
<1>7. ITick'
    BY <1>1, <1>2, <1>3 DEF Inv, ITick, OtherTicks, Working
<1>8. IStale'
    BY <1>2 DEF Inv, IStale, OtherRows, OtherTicks, TypeOK, Ticks, Stale
<1>9. IOwner'
    BY <1>1, <1>2, <1>3 DEF Inv, IOwner, Owns, OtherRows, ITick, Working
<1>10. IHeld'
  <2> SUFFICES ASSUME NEW q \in Working', ~ <<tick'[q].job, tick'[q].claim>> \in lapsed'
               PROVE  /\ tick'[q].claim = claims'[tick'[q].job]
                      /\ row'[tick'[q].job].status \in {"running", "succeeded"}
      BY DEF IHeld
  <2>1. q \in Working /\ tick[q].job \in Jobs
      BY <1>3 DEF Inv, ITick, Working
  <2>2. CASE tick[q].job = j
    <3>1. q = p
        BY <1>3, <2>1, <2>2, OwnerHolds
    <3> QED
        BY <1>2, <1>3, <1>4, <2>2, <3>1, OwnerHolds
  <2>3. CASE tick[q].job # j
      BY <1>2, <1>3, <2>1, <2>3 DEF Inv, IHeld, OtherRows
  <2> QED
      BY <2>2, <2>3
<1>11. IUnique'
    BY <1>3 DEF Inv, IUnique
<1> QED
    BY <1>5, <1>6, <1>7, <1>8, <1>9, <1>10, <1>11 DEF Inv

\* Completing a job that is one's own, or is not any more.
LEMMA CompleteKeeps ==
    ASSUME Inv, NEW p \in Processes, Complete(p)
    PROVE  Inv'
<1> DEFINE j == tick[p].job
           r == [Unlocked(row[j]) EXCEPT !.status = "succeeded"]
           t == [tick[p] EXCEPT !.stage = "failing"]
<1>1. p \in Working /\ tick[p] \in Ticks /\ j \in Jobs /\ row[j] \in Rows
    BY DEF Inv, TypeOK, ITick, Complete, Working
<1>2. /\ t \in Ticks /\ t.stage = "failing" /\ t.stale = tick[p].stale /\ t.job = j
      /\ t.claim = tick[p].claim /\ t.attempt = tick[p].attempt
    BY <1>1 DEF Ticks, Stages
<1>3. Goto(p, "failing") => tick' = [tick EXCEPT ![p] = t]
    BY DEF Goto, Inv, TypeOK
<1>4. r \in Rows /\ r.status = "succeeded" /\ r.attempt = row[j].attempt
    BY <1>1, SucceededRow
<1>5. UNCHANGED <<crashes, claims, lapsed>>
    BY DEF Complete
<1>6. Idle.stage = "idle" /\ Idle.stale = {}
    BY DEF Idle
<1>7. CASE Owns(p) /\ row' = [row EXCEPT ![j] = r] /\ EndTick(p)
  <2> HIDE DEF r, t
  <2> QED
      BY <1>1, <1>4, <1>5, <1>6, <1>7, IdleTick, OwnRowKeeps DEF EndTick
<1>8. CASE Owns(p) /\ row' = [row EXCEPT ![j] = r] /\ Goto(p, "failing")
  <2> HIDE DEF r, t
  <2> QED
      BY <1>1, <1>2, <1>3, <1>4, <1>5, <1>8, OwnRowKeeps
<1>9. CASE EndTick(p) /\ UNCHANGED row
    BY <1>1, <1>5, <1>9, EndTickKeeps DEF Inv, TypeOK
<1>10. CASE Goto(p, "failing") /\ UNCHANGED row
  <2>1. t.attempt <= claims[t.job]
      BY <1>1, <1>2 DEF Inv, ITick, Working
  <2> HIDE DEF r, t
  <2> QED
      BY <1>1, <1>2, <1>3, <1>5, <1>10, <2>1, WorkOnKeeps
<1> QED
    BY <1>7, <1>8, <1>9, <1>10 DEF Complete

\* Failing a job that is one's own, or is not any more.
LEMMA FailKeeps ==
    ASSUME Inv, NEW p \in Processes, Fail(p)
    PROVE  Inv'
<1> DEFINE j == tick[p].job
           r == AfterFailure(row[j], tick[p].attempt)
<1>1. /\ p \in Working /\ tick[p] \in Ticks /\ j \in Jobs /\ row[j] \in Rows
      /\ tick[p].attempt \in Nat /\ tick[p].attempt <= claims[j] /\ claims[j] \in Nat
    BY DEF Inv, TypeOK, ITick, Fail, Working, Ticks
<1>2. UNCHANGED <<crashes, claims, lapsed>> /\ EndTick(p)
    BY DEF Fail
<1>3. CASE Owns(p)
  <2>1. row' = [row EXCEPT ![j] = r]
      BY <1>3 DEF Fail
  <2>2. /\ r \in Rows /\ r.status \in {"queued", "dead"} /\ r.attempt = row[j].attempt
        /\ r.status = "dead" => tick[p].attempt >= MaxAttempts
        /\ r.status = "queued" => tick[p].attempt < MaxAttempts
      BY <1>1, AfterFailureRow
  <2> HIDE DEF r
  <2>3. r.status = "dead" => claims[j] >= MaxAttempts
      BY <1>1, <2>2, AttemptsAssumption
  <2>4. r.status = "queued" => r.attempt < MaxAttempts
      BY <1>1, <1>3, <2>2 DEF Inv, IOwner, Fail
  <2>5. Idle.stage = "idle" /\ Idle.stale = {}
      BY DEF Idle
  <2> QED
      BY <1>1, <1>2, <1>3, <2>1, <2>2, <2>3, <2>4, <2>5, IdleTick, OwnRowKeeps DEF EndTick
<1>4. CASE ~ Owns(p)
  <2>1. UNCHANGED row
      BY <1>4 DEF Fail
  <2> QED
      BY <1>1, <1>2, <2>1, EndTickKeeps DEF Inv, TypeOK
<1> QED
    BY <1>3, <1>4

\* The invariant holds initially.
LEMMA InitInv == Init => Inv
<1> SUFFICES ASSUME Init PROVE Inv
    OBVIOUS
<1>1. NoRow \in Rows /\ NoRow.attempt = 0 /\ NoRow.status = "absent"
    BY AttemptsAssumption DEF NoRow, Rows, Statuses, Workers
<1>2. Idle.stage = "idle" /\ Idle.stale = {}
    BY DEF Idle
<1>3. Working = {}
    BY <1>2 DEF Init, Working
<1>4. TypeOK
    BY <1>1, IdleTick, AttemptsAssumption DEF Init, TypeOK
<1>5. IRow /\ ITick /\ IStale
    BY <1>1, <1>2, <1>3, AttemptsAssumption DEF Init, IRow, ITick, IStale
<1>6. IOwner /\ IHeld /\ IUnique
    BY <1>3 DEF IOwner, IHeld, IUnique
<1> QED
    BY <1>4, <1>5, <1>6 DEF Inv

\* Every step keeps it.
LEMMA Invariance == Spec => []Inv
<1>1. Inv /\ [Next]_vars => Inv'
  <2> SUFFICES ASSUME Inv, [Next]_vars PROVE Inv'
      OBVIOUS
  <2>1. CASE UNCHANGED vars
    <3>1. Working' = Working
        BY <2>1 DEF vars, Working
    <3> QED
        BY <2>1, <3>1 DEF vars, Inv, TypeOK, IRow, ITick, IStale, IOwner, IHeld, IUnique, Owns
  <2>2. ASSUME NEW p \in Processes, Step(p) PROVE Inv'
      BY <2>2, ReadStaleKeeps, RecoverRowKeeps, SelectCandidateKeeps, ClaimKeeps, HandleKeeps,
         CompleteKeeps, ReadFailedKeeps, FailKeeps DEF Step
  <2> QED
      BY <2>1, <2>2, CrashKeeps, QueueKeeps DEF Next
<1> QED
    BY InitInv, <1>1, PTL DEF Spec

-----------------------------------------------------------------------------
\* Every variable keeps its type, and no attempt counter exceeds maxAttempts
\* (claimNextBackgroundJob, failBackgroundJob, recoverExpiredBackgroundJobLeases).
THEOREM TypeCorrect == Spec => []TypeOK
<1>1. Inv => TypeOK
    BY DEF Inv
<1> QED
    BY Invariance, <1>1, PTL

\* However many API processes poll (backgroundJobRepository.ts, claim and
\* recovery), two of them work on one job only after the earlier one's lease
\* has lapsed.
THEOREM NoDoubleRunHolds == Spec => []NoDoubleRun
<1>1. Inv => NoDoubleRun
  <2> SUFFICES ASSUME Inv, NEW p \in Working, NEW q \in Working,
                      tick[p].job = tick[q].job, tick[p].claim <= tick[q].claim, p # q
               PROVE  <<tick[p].job, tick[p].claim>> \in lapsed
      BY DEF NoDoubleRun
  <2>1. /\ tick[p].job \in Jobs /\ tick[q].claim <= claims[tick[q].job]
        /\ tick[p].claim \in Nat /\ tick[q].claim \in Nat
      BY DEF Inv, TypeOK, Ticks, ITick, Working
  <2>2. claims[tick[p].job] \in Nat
      BY <2>1 DEF Inv, TypeOK
  <2>3. tick[p].claim # tick[q].claim
      BY DEF Inv, IUnique
  <2>4. tick[p].claim # claims[tick[p].job]
      BY <2>1, <2>2, <2>3
  <2> QED
      BY <2>4 DEF Inv, IHeld
<1> QED
    BY Invariance, <1>1, PTL

\* No job is dead before it was claimed maxAttempts times
\* (nextBackgroundJobFailureState, called by workers and by recovery).
THEOREM NoEarlyDeathHolds == Spec => []NoEarlyDeath
<1>1. Inv => NoEarlyDeath
    BY DEF Inv, IRow, NoEarlyDeath
<1> QED
    BY Invariance, <1>1, PTL

\* A job that has succeeded or is dead is never touched again: every UPDATE of
\* the queue filters by status.
THEOREM FinalStaysHolds == Spec => FinalStays
<1>1. Inv /\ [Next]_vars =>
          [\A j \in Jobs : row[j].status \in {"succeeded", "dead"} => row'[j] = row[j]]_row
  <2> SUFFICES ASSUME Inv, [Next]_vars, NEW j \in Jobs, row[j].status \in {"succeeded", "dead"}
               PROVE  row'[j] = row[j]
      OBVIOUS
  <2> USE DEF Inv, TypeOK
  <2>1. CASE UNCHANGED vars
      BY <2>1 DEF vars
  <2>2. ASSUME NEW i \in Jobs, Enqueue(i) \/ BecomeDue(i) \/ LeaseAges(i) PROVE row'[j] = row[j]
      BY <2>2 DEF Enqueue, BecomeDue, LeaseAges
  <2>3. ASSUME NEW p \in Processes, RecoverRow(p) PROVE row'[j] = row[j]
      BY <2>3 DEF RecoverRow
  <2>4. ASSUME NEW p \in Processes, Claim(p) PROVE row'[j] = row[j]
      BY <2>4 DEF Claim
  <2>5. ASSUME NEW p \in Processes, Complete(p) PROVE row'[j] = row[j]
      BY <2>5 DEF Complete, Owns
  <2>6. ASSUME NEW p \in Processes, Fail(p) PROVE row'[j] = row[j]
      BY <2>6 DEF Fail, Owns
  <2>7. ASSUME NEW p \in Processes,
               ReadStale(p) \/ SelectCandidate(p) \/ Handle(p) \/ ReadFailed(p) \/ Crash(p)
        PROVE  row'[j] = row[j]
      BY <2>7 DEF ReadStale, SelectCandidate, Handle, ReadFailed, Crash
  <2> QED
      BY <2>1, <2>2, <2>3, <2>4, <2>5, <2>6, <2>7 DEF Next, Step
<1> QED
    BY Invariance, <1>1, PTL DEF Spec, FinalStays

\* Only its own worker, or the age of its lease, ends a claim; a late answer of
\* an earlier claim does not, nor a recovery that has read one.
THEOREM LeaseRespectedHolds == Spec => LeaseRespected
<1> DEFINE Ended(j) == /\ row[j].status = "running"
                       /\ <<row'[j].status, row'[j].lockedAt>> # <<row[j].status, row[j].lockedAt>>
           Allowed(j) == \/ row[j].aged
                         \/ \E p \in Working : tick[p].job = j /\ tick[p].claim = row[j].lockedAt
<1>1. Inv /\ [Next]_vars =>
          [\A j \in Jobs :
               row[j].status = "running" /\ <<row'[j].status, row'[j].lockedAt>>
                                                # <<row[j].status, row[j].lockedAt>>
                   => \/ row[j].aged
                      \/ \E p \in Working : tick[p].job = j /\ tick[p].claim = row[j].lockedAt]_row
  <2> SUFFICES ASSUME Inv, [Next]_vars, NEW j \in Jobs, Ended(j) PROVE Allowed(j)
      OBVIOUS
  <2> USE DEF Inv, TypeOK
  <2>1. CASE UNCHANGED vars
      BY <2>1 DEF vars
  <2>2. ASSUME NEW i \in Jobs, Enqueue(i) \/ BecomeDue(i) \/ LeaseAges(i) PROVE Allowed(j)
    <3>1. row'[j].status = row[j].status /\ row'[j].lockedAt = row[j].lockedAt
        BY <2>2 DEF Enqueue, BecomeDue, LeaseAges, Rows
    <3> QED
        BY <3>1
  <2>3. ASSUME NEW p \in Processes, RecoverRow(p) PROVE Allowed(j)
      BY <2>3 DEF RecoverRow, IStale
  <2>4. ASSUME NEW p \in Processes, Claim(p) PROVE Allowed(j)
      BY <2>4 DEF Claim
  <2>5. ASSUME NEW p \in Processes, Complete(p) \/ Fail(p) PROVE Allowed(j)
    <3>1. p \in Working
        BY <2>5 DEF Complete, Fail, Working
    <3>2. Owns(p) /\ tick[p].job = j
        BY <2>5 DEF Complete, Fail
    <3> QED
        BY <3>1, <3>2 DEF IOwner
  <2>6. ASSUME NEW p \in Processes,
               ReadStale(p) \/ SelectCandidate(p) \/ Handle(p) \/ ReadFailed(p) \/ Crash(p)
        PROVE  Allowed(j)
      BY <2>6 DEF ReadStale, SelectCandidate, Handle, ReadFailed, Crash
  <2> QED
      BY <2>1, <2>2, <2>3, <2>4, <2>5, <2>6 DEF Next, Step
<1> QED
    BY Invariance, <1>1, PTL DEF Spec, LeaseRespected
=============================================================================

-------------------------- MODULE PlanWrites_proofs --------------------------
(***************************************************************************)
(* Theorems about the write path, for any number of requests in flight,    *)
(* any requests clients may send, any tasks, keys and runs.                *)
(*                                                                         *)
(* The argument has four layers.  Types (IType) come first: what a         *)
(* transaction appends to the audit log is an event because the lemmas on  *)
(* commands say that stored plans are plans and inverses are commands.     *)
(* Then the lock (ILock): the requests in a transaction are exactly the    *)
(* holders, and there is at most one.  From these it follows that what a   *)
(* transaction has checked or read is still true when it commits           *)
(* (IFresh), and from that the properties of the audit log, of the rows    *)
(* that remember keys (IKeys) and of the marks on runs (IRuns).            *)
(***************************************************************************)
EXTENDS PlanWrites, TLAPS

-----------------------------------------------------------------------------
(* Commands                                                                *)

\* The progress that is stored is a percentage.
LEMMA StoredProgressType ==
    ASSUME NEW row \in TaskRow, NEW c \in Commands
    PROVE  StoredProgress(row, c) \in 0..100
<1>1. \A x \in Int : Clamp(x) \in 0..100
    BY DEF Clamp
<1>2. row.progress \in 0..100 /\ row.status \in Statuses
    BY DEF TaskRow
<1>3. \A st \in Statuses : DerivedProgress(st, row.progress) \in 0..100
    BY <1>2 DEF Statuses, DerivedProgress, AtLeast
<1>4. CASE c.op = "progress"
    BY <1>1, <1>4 DEF Commands, StoredProgress
<1>5. CASE c.op = "status"
    BY <1>3, <1>5 DEF Commands, StoredProgress
<1>6. CASE c.op \notin {"progress", "status"}
    BY <1>2, <1>6 DEF StoredProgress
<1> QED BY <1>4, <1>5, <1>6

\* Storing a command turns a plan into a plan.
LEMMA PersistType ==
    ASSUME NEW p \in Plans, NEW c \in Commands
    PROVE  Persist(p, c) \in Plans
<1>1. c.task \in Tasks
    BY DEF Commands
<1> DEFINE row == p[c.task]
<1>2. row \in TaskRow
    BY <1>1 DEF Plans
<1>3. StoredProgress(row, c) \in 0..100
    BY <1>2, StoredProgressType
<1>4. ASSUME NEW g \in 0..100 PROVE Effect(row, c, g) \in TaskRow
    <2>1. row \in TaskRow /\ g \in 0..100 /\ MaxUnits \in Nat
        BY <1>2, UnitsAssumption
    <2>2. CASE c.op = "status"
        <3>1. c.status \in Statuses
            BY <2>2 DEF Commands
        <3> QED BY <2>1, <2>2, <3>1 DEF Effect, TaskRow
    <2>3. CASE c.op = "progress"
        BY <2>1, <2>3 DEF Effect, TaskRow
    <2>4. CASE c.op = "assign"
        <3>1. c.units \in 1..MaxUnits
            BY <2>4 DEF Commands
        <3> QED BY <2>1, <2>4, <3>1 DEF Effect, TaskRow
    <2>5. CASE c.op = "unassign"
        BY <2>1, <2>5 DEF Effect, TaskRow
    <2>6. CASE c.op = "archive"
        BY <2>1, <2>6 DEF Effect, TaskRow
    <2> QED BY <2>2, <2>3, <2>4, <2>5, <2>6 DEF Commands
<1>5. Effect(row, c, StoredProgress(row, c)) \in TaskRow
    BY <1>3, <1>4
<1> QED BY <1>1, <1>5 DEF Persist, Plans

\* The inverse of a reversible command is a command.
LEMMA InverseType ==
    ASSUME NEW p \in Plans, NEW c \in Commands
    PROVE  Inverse(c, p) \in Commands
<1>1. c.task \in Tasks /\ p[c.task] \in TaskRow
    BY DEF Commands, Plans
<1>2. CASE c.op = "status"
    BY <1>1, <1>2 DEF Inverse, Commands, TaskRow
<1>3. CASE c.op = "progress"
    BY <1>1, <1>3 DEF Inverse, Commands, TaskRow
<1>4. CASE c.op \in {"assign", "unassign"} /\ p[c.task].units = 0
    BY <1>1, <1>4 DEF Inverse, Commands, TaskRow
<1>5. CASE c.op \in {"assign", "unassign"} /\ p[c.task].units # 0
    BY <1>1, <1>5, UnitsAssumption DEF Inverse, Commands, TaskRow
<1>6. CASE c.op = "archive"
    BY <1>6 DEF Inverse
<1> QED BY <1>2, <1>3, <1>4, <1>5, <1>6 DEF Commands

\* So is every member of a batch of compensating commands.
LEMMA CompensationsType ==
    ASSUME NEW p \in Plans, NEW cmds \in Seq(Commands)
    PROVE  Compensations(cmds, p) \in Seq(Commands)
<1>1. CASE \E i \in DOMAIN cmds : ~Reversible(cmds[i], p)
    BY <1>1 DEF Compensations
<1>2. CASE ~ \E i \in DOMAIN cmds : ~Reversible(cmds[i], p)
    <2>1. Compensations(cmds, p) = [i \in 1..Len(cmds) |-> Inverse(cmds[Len(cmds) + 1 - i], p)]
        BY <1>2 DEF Compensations
    <2>2. \A i \in 1..Len(cmds) : Inverse(cmds[Len(cmds) + 1 - i], p) \in Commands
        <3> TAKE i \in 1..Len(cmds)
        <3>1. Len(cmds) + 1 - i \in 1..Len(cmds)
            OBVIOUS
        <3>2. cmds[Len(cmds) + 1 - i] \in Commands
            BY <3>1
        <3> QED BY <3>2, InverseType
    <2>3. Compensations(cmds, p) \in [1..Len(cmds) -> Commands]
        BY <2>1, <2>2
    <2> QED BY <2>3
<1> QED BY <1>1, <1>2

-----------------------------------------------------------------------------
(* Types                                                                   *)

\* Proposals never enter a transaction, and rejections never get as far as a
\* plan version: the kind of a request decides how far it gets.
IPhase ==
    \A s \in Slots :
        /\ pc[s] \in {"locked", "writing", "written"} => env[s].kind \notin ProposeKinds
        /\ pc[s] = "written" => env[s].kind # "reject" /\ tx[s].version # 0
        /\ pc[s] = "proposing" => env[s].kind \in ProposeKinds

\* What a request that reads the rows under the lock decides has a type.
LEMMA VerdictType ==
    ASSUME TypeOK, IPhase, NEW s \in Slots, pc[s] = "locked"
    PROVE  Verdict(env[s]) \in Outcomes \cup {"accept", "replay"}
<1> DEFINE e == env[s]
<1>1. e \in Envelopes /\ e.kind \in (PlanningKinds \cup WorkKinds) \ ProposeKinds
    BY DEF TypeOK, IPhase, Envelopes
<1>2. IdempotencyVerdict(e) \in {"new", "replay", "key_conflict"}
    BY DEF IdempotencyVerdict
<1>3. CASE e.kind = "commands"
    BY <1>2, <1>3 DEF Verdict, CommandsVerdict, Outcomes
<1>4. CASE e.kind = "revert"
    BY <1>2, <1>4 DEF Verdict, RevertVerdict, Outcomes
<1>5. CASE e.kind = "apply"
    BY <1>5 DEF Verdict, ApplyVerdict, ScenarioApplyVerdict, SolverApplyVerdict, Outcomes
<1>6. CASE e.kind = "reject"
    BY <1>6 DEF Verdict, RejectVerdict, Outcomes
<1>7. CASE e.kind = "transition"
    BY <1>7 DEF Verdict, TransitionVerdict, Outcomes
<1>8. CASE e.kind = "archive"
    BY <1>8 DEF Verdict, ArchiveVerdict, Outcomes
<1> QED BY <1>1, <1>3, <1>4, <1>5, <1>6, <1>7, <1>8 DEF PlanningKinds, WorkKinds, ProposeKinds

\* The commands that an accepted request applies are commands.  A revert is
\* accepted only for an event that exists.
LEMMA CommandsOfType ==
    ASSUME TypeOK, NEW s \in Slots, pc[s] = "locked", Verdict(env[s]) = "accept"
    PROVE  CommandsOf(env[s]) \in Seq(Commands)
<1> DEFINE e == env[s]
<1>1. e \in Envelopes
    BY DEF TypeOK
<1>2. CASE e.kind = "revert"
    <2>1. RevertVerdict(e) = "accept"
        BY <1>2 DEF Verdict
    <2>2. e.target \in DOMAIN audit
        BY <2>1 DEF RevertVerdict, IdempotencyVerdict
    <2>3. audit[e.target] \in Event
        BY <2>2 DEF TypeOK
    <2> QED BY <1>2, <2>3 DEF CommandsOf, Event
<1>3. CASE e.kind = "apply"
    <2>1. e.run \in Runs
        BY <1>1, <1>3 DEF Envelopes, WellFormed
    <2>2. runs[e.run] \in RunRow
        BY <2>1 DEF TypeOK
    <2> QED BY <1>3, <2>2 DEF CommandsOf, RunRow
<1>4. CASE e.kind \notin {"revert", "apply"}
    BY <1>1, <1>4 DEF CommandsOf, Envelopes
<1> QED BY <1>2, <1>3, <1>4

\* A commit leaves a well-formed audit event and run table.
LEMMA CommitType ==
    ASSUME TypeOK, NEW s \in Slots, pc[s] = "written"
    PROVE  /\ CommitEvent(s) \in Event
           /\ MarkApplied(env[s]) \in [Runs -> RunRow]
           /\ RememberKey(s) \subseteq [key: Keys, env: Envelopes, version: Nat]
<1> DEFINE e == env[s]
<1>1. e \in Envelopes /\ tx[s] \in Tx
    BY DEF TypeOK
<1>2. UndoOf(e, tx[s].cmds) \in Seq(Commands)
    <2>1. tx[s].cmds \in Seq(Commands) /\ plan \in Plans
        BY <1>1 DEF Tx, TypeOK
    <2>2. Compensations(tx[s].cmds, plan) \in Seq(Commands)
        BY <2>1, CompensationsType
    <2> QED BY <2>2 DEF UndoOf
<1>3. CommitEvent(s) \in Event
    BY <1>1, <1>2 DEF CommitEvent, Event, Tx
<1>4. MarkApplied(e) \in [Runs -> RunRow]
    <2>1. runs \in [Runs -> RunRow]
        BY DEF TypeOK
    <2>2. CASE e.kind = "apply"
        <3>1. e.run \in Runs
            BY <1>1, <2>2 DEF Envelopes, WellFormed
        <3>2. [runs[e.run] EXCEPT !.applied = TRUE] \in RunRow
            BY <2>1, <3>1 DEF RunRow
        <3> QED BY <2>1, <3>1, <3>2 DEF MarkApplied
    <2>3. CASE e.kind # "apply"
        BY <2>1, <2>3 DEF MarkApplied
    <2> QED BY <2>2, <2>3
<1>5. RememberKey(s) \subseteq [key: Keys, env: Envelopes, version: Nat]
    <2>1. e.key \in Keys \/ ~Keyed(e)
        BY <1>1 DEF Envelopes, Keyed
    <2>2. tx[s].version \in Nat
        BY <1>1 DEF Tx
    <2> QED BY <1>1, <2>1, <2>2 DEF RememberKey, TypeOK
<1> QED BY <1>3, <1>4, <1>5

IType == TypeOK /\ IPhase

\* Initially the rows are well typed and no request holds anything.
LEMMA InitType == Init => IType
<1> SUFFICES ASSUME Init PROVE IType
    OBVIOUS
<1>1. NoTx \in Tx
    BY InitialPlanAssumption DEF NoTx, Tx
<1>2. NoRunRow \in RunRow
    BY DEF NoRunRow, RunRow
<1>3. TypeOK
    BY <1>1, <1>2, InitialPlanAssumption DEF Init, TypeOK, Answer, Outcomes
<1>4. IPhase
    BY DEF Init, IPhase
<1> QED BY <1>3, <1>4 DEF IType

\* Every action stores rows of the right type.
LEMMA NextType == IType /\ [Next]_vars => IType'
<1> SUFFICES ASSUME IType, [Next]_vars PROVE IType'
    OBVIOUS
<1> USE DEF IType
<1>1. ASSUME NEW s \in Slots, Send(s) PROVE IType'
    <2>1. env' \in [Slots -> Envelopes \cup {NoEnvelope}] /\ env'[s] \in Envelopes
        <3>1. PICK t \in Templates, cv \in 1..planVersion, target \in 0..Len(audit) :
                env' = [env EXCEPT ![s] =
                    [kind |-> t.kind, actor |-> t.actor, key |-> t.key,
                     cmds |-> t.cmds, run |-> t.run, cv |-> cv, target |-> target]]
            BY <1>1 DEF Send
        <3>2. t \in Template /\ WellFormed(t)
            BY TemplatesAssumption
        <3>3. cv \in Nat /\ target \in Nat
            BY DEF TypeOK
        <3>4. [kind |-> t.kind, actor |-> t.actor, key |-> t.key, cmds |-> t.cmds,
               run |-> t.run, cv |-> cv, target |-> target] \in Envelopes
            BY <3>2, <3>3 DEF Template, Envelopes, WellFormed
        <3> QED BY <3>1, <3>4 DEF TypeOK
    <2>2. TypeOK'
        BY <1>1, <2>1 DEF Send, TypeOK, rows
    <2>3. IPhase'
        BY <1>1 DEF Send, TypeOK, IPhase
    <2> QED BY <2>2, <2>3
<1>2. ASSUME NEW s \in Slots, Acquire(s) PROVE IType'
    BY <1>2 DEF Acquire, TypeOK, IPhase, rows
<1>3. ASSUME NEW s \in Slots, Replay(s) PROVE IType'
    <2>1. answer' \in [Slots -> Answer]
        BY <1>3 DEF Replay, EndTransaction, TypeOK, Answer, Outcomes
    <2> QED BY <1>3, <2>1 DEF Replay, EndTransaction, TypeOK, IPhase, rows
<1>4. ASSUME NEW s \in Slots, Refuse(s) PROVE IType'
    <2> DEFINE verdict == Verdict(env[s])
    <2>1. verdict \in Outcomes
        BY <1>4, VerdictType DEF Refuse
    <2>2. answer' \in [Slots -> Answer]
        BY <1>4, <2>1 DEF Refuse, EndTransaction, TypeOK, Answer
    <2>3. RefusalEvent(env[s], verdict) \in Event
        BY <1>4 DEF Refuse, RefusalEvent, Event, TypeOK
    <2>4. audit' \in Seq(Event)
        BY <1>4, <2>3 DEF Refuse, TypeOK
    <2> QED BY <1>4, <2>2, <2>4 DEF Refuse, EndTransaction, TypeOK, IPhase
<1>5. ASSUME NEW s \in Slots, Accept(s) PROVE IType'
    <2>1. CommandsOf(env[s]) \in Seq(Commands)
        BY <1>5, CommandsOfType DEF Accept
    <2>2. tx' \in [Slots -> Tx]
        BY <1>5, <2>1 DEF Accept, TypeOK, Tx
    <2> QED BY <1>5, <2>2 DEF Accept, TypeOK, IPhase, rows
<1>6. ASSUME NEW s \in Slots, WriteNext(s) PROVE IType'
    <2>1. tx[s] \in Tx
        BY DEF TypeOK
    <2>2. tx[s].cmds[tx[s].next] \in Commands
        BY <1>6, <2>1 DEF WriteNext, Tx
    <2>3. Persist(tx[s].draft, tx[s].cmds[tx[s].next]) \in Plans
        BY <2>1, <2>2, PersistType DEF Tx
    <2>4. tx'[s] = [tx[s] EXCEPT !.draft = Persist(tx[s].draft, tx[s].cmds[tx[s].next]),
                                 !.next = tx[s].next + 1]
        BY <1>6 DEF WriteNext, TypeOK
    <2>5. tx'[s] \in Tx
        <3>1. tx[s].next + 1 \in Nat \ {0}
            BY <2>1 DEF Tx
        <3> QED BY <2>1, <2>3, <2>4, <3>1 DEF Tx
    <2>6. tx' \in [Slots -> Tx]
        BY <1>6, <2>5 DEF WriteNext, TypeOK
    <2> QED BY <1>6, <2>6 DEF WriteNext, TypeOK, IPhase, rows
<1>7. ASSUME NEW s \in Slots, Increment(s) PROVE IType'
    <2>1. tx' \in [Slots -> Tx] /\ tx'[s].version # 0
        <3>1. planVersion + 1 \in Nat \ {0} /\ tx[s] \in Tx
            BY DEF TypeOK
        <3>2. [tx[s] EXCEPT !.version = planVersion + 1] \in Tx
            BY <3>1 DEF Tx
        <3>3. tx'[s] = [tx[s] EXCEPT !.version = planVersion + 1]
            BY <1>7 DEF Increment, TypeOK
        <3> QED BY <1>7, <3>1, <3>2, <3>3 DEF Increment, TypeOK, Tx
    <2> QED BY <1>7, <2>1 DEF Increment, TypeOK, IPhase, rows
<1>8. ASSUME NEW s \in Slots, Commit(s) PROVE IType'
    <2>1. tx[s] \in Tx
        BY DEF TypeOK
    <2>2. answer' \in [Slots -> Answer]
        BY <1>8, <2>1 DEF Commit, EndTransaction, TypeOK, Answer, Outcomes, Tx
    <2>3. planVersion' \in Nat \ {0}
        BY <1>8, <2>1 DEF Commit, IPhase, Tx
    <2>4. audit' \in Seq(Event) /\ history' \in Seq(Plans) /\ plan' \in Plans
        BY <1>8, <2>1, CommitType DEF Commit, TypeOK, Tx
    <2>5. runs' \in [Runs -> RunRow] /\ idem' \subseteq [key: Keys, env: Envelopes, version: Nat]
        BY <1>8, CommitType DEF Commit
    <2> QED BY <1>8, <2>2, <2>3, <2>4, <2>5 DEF Commit, EndTransaction, TypeOK, IPhase
<1>9. ASSUME NEW s \in Slots, CommitRejection(s) PROVE IType'
    <2>1. env[s] \in Envelopes /\ env[s].run \in Runs
        BY <1>9 DEF CommitRejection, TypeOK, Envelopes, WellFormed
    <2>2. runs' \in [Runs -> RunRow]
        <3> DEFINE row == runs[env[s].run]
        <3>1. row \in RunRow
            BY <2>1 DEF TypeOK
        <3>2. [row EXCEPT !.rejected = row.rejected \/ row.there] \in RunRow
            BY <3>1 DEF RunRow
        <3>3. runs' = [runs EXCEPT ![env[s].run] = [row EXCEPT !.rejected = row.rejected \/ row.there]]
            BY <1>9 DEF CommitRejection
        <3> QED BY <2>1, <3>2, <3>3 DEF TypeOK
    <2>3. audit' \in Seq(Event)
        <3>1. [env |-> env[s], status |-> "succeeded", version |-> 0,
               cmds |-> << >>, undo |-> << >>] \in Event
            BY <2>1 DEF Event
        <3> QED BY <1>9, <3>1 DEF CommitRejection, TypeOK
    <2>4. answer' \in [Slots -> Answer]
        BY <1>9 DEF CommitRejection, EndTransaction, TypeOK, Answer, Outcomes
    <2> QED BY <1>9, <2>2, <2>3, <2>4 DEF CommitRejection, EndTransaction, TypeOK, IPhase
<1>10. ASSUME NEW s \in Slots, Respond(s) PROVE IType'
    BY <1>10 DEF Respond, TypeOK, IPhase, rows
<1>11. ASSUME NEW s \in Slots, Crash(s) PROVE IType'
    <2>1. answer' \in [Slots -> Answer]
        BY <1>11 DEF Crash, TypeOK, Answer, Outcomes
    <2> QED BY <1>11, <2>1 DEF Crash, TypeOK, IPhase, rows
<1>12. ASSUME NEW s \in Slots, ReadForRun(s) PROVE IType'
    <2>1. answer' \in [Slots -> Answer]
        <3>1. [outcome |-> "conflict", version |-> planVersion] \in Answer
            BY DEF TypeOK, Answer, Outcomes
        <3> QED BY <1>12, <3>1 DEF ReadForRun, TypeOK
    <2> QED BY <1>12, <2>1 DEF ReadForRun, TypeOK, IPhase, rows
<1>13. ASSUME NEW s \in Slots, InsertRun(s) PROVE IType'
    <2>1. env[s] \in Envelopes
        BY <1>13 DEF InsertRun, TypeOK
    <2>2. runs' \in [Runs -> RunRow]
        <3>1. PICK r \in Runs :
                runs' = [runs EXCEPT ![r] =
                    [there |-> TRUE, solver |-> env[s].kind = "propose_solver",
                     version |-> env[s].cv, cmds |-> env[s].cmds,
                     applied |-> FALSE, rejected |-> FALSE, expired |-> FALSE]]
            BY <1>13 DEF InsertRun, FreshRuns
        <3> QED BY <2>1, <3>1 DEF TypeOK, Envelopes, RunRow
    <2>3. audit' \in Seq(Event)
        <3>1. [env |-> env[s], status |-> "succeeded", version |-> 0,
               cmds |-> << >>, undo |-> << >>] \in Event
            BY <2>1 DEF Event
        <3> QED BY <1>13, <3>1 DEF InsertRun, TypeOK
    <2>4. answer' \in [Slots -> Answer]
        BY <1>13, <2>1 DEF InsertRun, EndTransaction, TypeOK, Answer, Outcomes, Envelopes
    <2> QED BY <1>13, <2>2, <2>3, <2>4 DEF InsertRun, EndTransaction, TypeOK, IPhase
<1>14. ASSUME NEW r \in Runs, Expire(r) PROVE IType'
    <2>1. runs' \in [Runs -> RunRow]
        BY <1>14 DEF Expire, TypeOK, RunRow
    <2> QED BY <1>14, <2>1 DEF Expire, TypeOK, IPhase
<1>15. ASSUME NEW S \in SUBSET Runs, Purge(S) PROVE IType'
    <2>1. runs' \in [Runs -> RunRow]
        <3>1. \A r \in Runs : [runs[r] EXCEPT !.there = FALSE] \in RunRow /\ runs[r] \in RunRow
            BY DEF TypeOK, RunRow
        <3> QED BY <1>15, <3>1 DEF Purge
    <2> QED BY <1>15, <2>1 DEF Purge, TypeOK, IPhase
<1>16. CASE UNCHANGED vars
    BY <1>16 DEF vars, TypeOK, IPhase
<1> QED
    BY <1>1, <1>2, <1>3, <1>4, <1>5, <1>6, <1>7, <1>8, <1>9, <1>10, <1>11, <1>12, <1>13,
       <1>14, <1>15, <1>16 DEF Next, Step

\* TypeOK is preserved only together with IPhase: the commit of a slot in
\* phase "written" stores tx[s].version, which must not be 0.
LEMMA TypeInvariant == Spec => []IType
<1> QED BY InitType, NextType, PTL DEF Spec

\* Every variable has its type, whatever clients send and whenever processes
\* die: the rows the routes store are rows the routes can read.
THEOREM TypeCorrect == Spec => []TypeOK
<1>1. IType => TypeOK
    BY DEF IType
<1> QED BY <1>1, TypeInvariant, PTL

-----------------------------------------------------------------------------
(* The lock                                                                *)

\* The open transactions are the holders of the tenant lock.
ILock ==
    /\ \A s \in Slots : pc[s] \in {"locked", "writing", "written"} <=> s \in lock
    /\ \A s1, s2 \in lock : s1 = s2

\* The lock is taken before anything is read and given back when the
\* transaction ends, by COMMIT, by an early return or by a crash: two requests
\* of a tenant are never between their first read and their commit together.
LEMMA NextLock == IType /\ ILock /\ [Next]_vars => ILock'
<1> SUFFICES ASSUME IType, ILock, [Next]_vars PROVE ILock'
    OBVIOUS
<1>0. pc \in [Slots -> {"idle", "waiting", "locked", "writing", "written",
                          "proposing", "committed", "done"}] /\ lock \subseteq Slots
    BY DEF IType, TypeOK
<1> USE <1>0 DEF ILock
<1>1. ASSUME NEW s \in Slots, Send(s) PROVE ILock'
    BY <1>1 DEF Send
<1>2. ASSUME NEW s \in Slots, Acquire(s) PROVE ILock'
    BY <1>2 DEF Acquire
<1>3. ASSUME NEW s \in Slots, Replay(s) PROVE ILock'
    BY <1>3 DEF Replay, EndTransaction
<1>4. ASSUME NEW s \in Slots, Refuse(s) PROVE ILock'
    BY <1>4 DEF Refuse, EndTransaction
<1>5. ASSUME NEW s \in Slots, Accept(s) PROVE ILock'
    BY <1>5 DEF Accept
<1>6. ASSUME NEW s \in Slots, WriteNext(s) PROVE ILock'
    BY <1>6 DEF WriteNext
<1>7. ASSUME NEW s \in Slots, Increment(s) PROVE ILock'
    BY <1>7 DEF Increment
<1>8. ASSUME NEW s \in Slots, Commit(s) PROVE ILock'
    BY <1>8 DEF Commit, EndTransaction
<1>9. ASSUME NEW s \in Slots, CommitRejection(s) PROVE ILock'
    BY <1>9 DEF CommitRejection, EndTransaction
<1>10. ASSUME NEW s \in Slots, Respond(s) PROVE ILock'
    BY <1>10 DEF Respond
<1>11. ASSUME NEW s \in Slots, Crash(s) PROVE ILock'
    BY <1>11 DEF Crash
<1>12. ASSUME NEW s \in Slots, ReadForRun(s) PROVE ILock'
    BY <1>12 DEF ReadForRun
<1>13. ASSUME NEW s \in Slots, InsertRun(s) PROVE ILock'
    BY <1>13 DEF InsertRun, EndTransaction
<1>14. ASSUME NEW r \in Runs, Expire(r) PROVE ILock'
    BY <1>14 DEF Expire
<1>15. ASSUME NEW S \in SUBSET Runs, Purge(S) PROVE ILock'
    BY <1>15 DEF Purge
<1>16. CASE UNCHANGED vars
    BY <1>16 DEF vars
<1> QED
    BY <1>1, <1>2, <1>3, <1>4, <1>5, <1>6, <1>7, <1>8, <1>9, <1>10, <1>11, <1>12, <1>13,
       <1>14, <1>15, <1>16 DEF Next, Step

\* So the lock stays exclusive.
LEMMA LockInvariant == Spec => []ILock
<1>1. Init => ILock
    BY DEF Init, ILock
<1> QED BY <1>1, TypeInvariant, NextLock, PTL DEF Spec

-----------------------------------------------------------------------------
(* What a transaction has checked stays true until it commits              *)

\* The version a transaction has read and incremented is the current one, and
\* an accepted planning route's client has seen the current one.
IFresh ==
    \A s \in Slots :
        /\ pc[s] = "written" => tx[s].version = planVersion + 1
        /\ pc[s] \in {"writing", "written"} /\ env[s].kind \in {"commands", "revert", "apply"}
            => env[s].cv = planVersion

\* Accept compares the client's version; the commit of another transaction
\* cannot come in between because that one would hold the lock.
LEMMA NextFresh == IType /\ ILock /\ IFresh /\ [Next]_vars => IFresh'
<1> SUFFICES ASSUME IType, ILock, IFresh, [Next]_vars PROVE IFresh'
    OBVIOUS
<1>0. /\ pc \in [Slots -> {"idle", "waiting", "locked", "writing", "written",
                             "proposing", "committed", "done"}]
      /\ tx \in [Slots -> Tx]
      /\ env \in [Slots -> Envelopes \cup {NoEnvelope}]
      /\ planVersion \in Nat
    BY DEF IType, TypeOK
<1> USE <1>0 DEF IFresh
<1>1. ASSUME NEW s \in Slots, Send(s) PROVE IFresh'
    BY <1>1 DEF Send, rows
<1>2. ASSUME NEW s \in Slots, Acquire(s) PROVE IFresh'
    BY <1>2 DEF Acquire, rows
<1>3. ASSUME NEW s \in Slots, Replay(s) PROVE IFresh'
    BY <1>3 DEF Replay, EndTransaction, rows
<1>4. ASSUME NEW s \in Slots, Refuse(s) PROVE IFresh'
    BY <1>4 DEF Refuse, EndTransaction
<1>5. ASSUME NEW s \in Slots, Accept(s) PROVE IFresh'
    <2>1. env[s].kind = "commands" => env[s].cv = planVersion
        BY <1>5 DEF Accept, Verdict, CommandsVerdict, IdempotencyVerdict
    <2>2. env[s].kind = "revert" => env[s].cv = planVersion
        BY <1>5 DEF Accept, Verdict, RevertVerdict, IdempotencyVerdict
    <2>3. env[s].kind = "apply" => env[s].cv = planVersion
        BY <1>5 DEF Accept, Verdict, ApplyVerdict, ScenarioApplyVerdict, SolverApplyVerdict
    <2> QED BY <1>5, <2>1, <2>2, <2>3 DEF Accept, rows
<1>6. ASSUME NEW s \in Slots, WriteNext(s) PROVE IFresh'
    BY <1>6 DEF WriteNext, rows, Tx
<1>7. ASSUME NEW s \in Slots, Increment(s) PROVE IFresh'
    BY <1>7 DEF Increment, rows, Tx
<1>8. ASSUME NEW s \in Slots, Commit(s) PROVE IFresh'
    <2>1. \A s2 \in Slots \ {s} : pc[s2] \notin {"locked", "writing", "written"}
        BY <1>8 DEF Commit, ILock
    <2>2. \A s2 \in Slots : pc'[s2] \notin {"locked", "writing", "written"}
        BY <1>8, <2>1 DEF Commit, EndTransaction
    <2> QED BY <2>2
<1>9. ASSUME NEW s \in Slots, CommitRejection(s) PROVE IFresh'
    BY <1>9 DEF CommitRejection, EndTransaction
<1>10. ASSUME NEW s \in Slots, Respond(s) PROVE IFresh'
    BY <1>10 DEF Respond, rows
<1>11. ASSUME NEW s \in Slots, Crash(s) PROVE IFresh'
    BY <1>11 DEF Crash, rows
<1>12. ASSUME NEW s \in Slots, ReadForRun(s) PROVE IFresh'
    BY <1>12 DEF ReadForRun, rows
<1>13. ASSUME NEW s \in Slots, InsertRun(s) PROVE IFresh'
    BY <1>13 DEF InsertRun, EndTransaction
<1>14. ASSUME NEW r \in Runs, Expire(r) PROVE IFresh'
    BY <1>14 DEF Expire
<1>15. ASSUME NEW S \in SUBSET Runs, Purge(S) PROVE IFresh'
    BY <1>15 DEF Purge
<1>16. CASE UNCHANGED vars
    BY <1>16 DEF vars
<1> QED
    BY <1>1, <1>2, <1>3, <1>4, <1>5, <1>6, <1>7, <1>8, <1>9, <1>10, <1>11, <1>12, <1>13,
       <1>14, <1>15, <1>16 DEF Next, Step

\* So what a transaction has read is still the newest when it commits.
LEMMA FreshInvariant == Spec => []IFresh
<1>1. Init => IFresh
    BY DEF Init, IFresh
<1> QED BY <1>1, TypeInvariant, LockInvariant, NextFresh, PTL DEF Spec

-----------------------------------------------------------------------------
(* The audit log                                                           *)

\* A step that is not a commit logs nothing or an event without a version.
LoggedOnly ==
    /\ planVersion' = planVersion
    /\ \/ audit' = audit
       \/ \E event \in Event : event.version = 0 /\ audit' = Append(audit, event)

\* A commit logs the version it stores, the one after the version that its
\* client had seen.
LoggedCommit ==
    /\ planVersion' = planVersion + 1
    /\ \E event \in Event :
        /\ event.version = planVersion + 1
        /\ event.env.kind \in PlanningKinds => event.env.cv = planVersion
        /\ audit' = Append(audit, event)

\* There is no third way to change the audit log or the version.
LEMMA AuditStep ==
    ASSUME IType, IFresh, [Next]_vars
    PROVE  LoggedOnly \/ LoggedCommit
<1>1. ASSUME NEW s \in Slots, Refuse(s) PROVE LoggedOnly
    <2>1. RefusalEvent(env[s], Verdict(env[s])) \in Event
        BY <1>1 DEF Refuse, RefusalEvent, Event, IType, TypeOK
    <2>2. RefusalEvent(env[s], Verdict(env[s])).version = 0
        BY DEF RefusalEvent
    <2> QED BY <1>1, <2>1, <2>2 DEF Refuse, LoggedOnly
<1>2. ASSUME NEW s \in Slots, Commit(s) PROVE LoggedCommit
    <2>1. /\ CommitEvent(s) \in Event
          /\ CommitEvent(s).version = tx[s].version
          /\ CommitEvent(s).env = env[s]
        BY <1>2, CommitType DEF Commit, IType, CommitEvent
    <2>2. tx[s].version = planVersion + 1
        BY <1>2 DEF Commit, IFresh
    <2>3. env[s].kind \in PlanningKinds => env[s].cv = planVersion
        BY <1>2 DEF Commit, IFresh, IType, IPhase, PlanningKinds
    <2> QED BY <1>2, <2>1, <2>2, <2>3 DEF Commit, LoggedCommit
<1>3. ASSUME NEW s \in Slots, CommitRejection(s) \/ InsertRun(s) PROVE LoggedOnly
    <2> DEFINE event == [env |-> env[s], status |-> "succeeded", version |-> 0,
                         cmds |-> << >>, undo |-> << >>]
    <2>1. event \in Event /\ event.version = 0
        BY <1>3 DEF CommitRejection, InsertRun, Event, IType, TypeOK
    <2>2. audit' = Append(audit, event) /\ planVersion' = planVersion
        BY <1>3 DEF CommitRejection, InsertRun
    <2> QED BY <2>1, <2>2 DEF LoggedOnly
<1>4. ASSUME NEW s \in Slots,
             \/ Send(s) \/ Crash(s) \/ Acquire(s) \/ Replay(s) \/ Accept(s)
             \/ WriteNext(s) \/ Increment(s) \/ Respond(s) \/ ReadForRun(s)
      PROVE  LoggedOnly
    BY <1>4 DEF Send, Crash, Acquire, Replay, Accept, WriteNext, Increment, Respond,
                ReadForRun, rows, LoggedOnly
<1>5. ASSUME NEW r \in Runs, Expire(r) PROVE LoggedOnly
    BY <1>5 DEF Expire, LoggedOnly
<1>6. ASSUME NEW S \in SUBSET Runs, Purge(S) PROVE LoggedOnly
    BY <1>6 DEF Purge, LoggedOnly
<1>7. CASE UNCHANGED vars
    BY <1>7 DEF vars, LoggedOnly
<1> QED BY <1>1, <1>2, <1>3, <1>4, <1>5, <1>6, <1>7 DEF Next, Step

\* Whatever requests interleave or die, the commits carry the versions
\* 2, 3, ..., planVersion in the order of the audit log.
THEOREM OneCommitPerVersionHolds == Spec => []OneCommitPerVersion
<1>1. Init => OneCommitPerVersion
    BY DEF Init, OneCommitPerVersion, Commits, Committed
<1>2. IType /\ IFresh /\ OneCommitPerVersion /\ [Next]_vars => OneCommitPerVersion'
    <2> SUFFICES ASSUME IType, IFresh, OneCommitPerVersion, [Next]_vars
                 PROVE  OneCommitPerVersion'
        OBVIOUS
    <2>1. audit \in Seq(Event) /\ planVersion \in Nat \ {0}
        BY DEF IType, TypeOK
    <2>2. CASE audit' = audit /\ planVersion' = planVersion
        BY <2>2 DEF OneCommitPerVersion, Commits, Committed
    <2>3. CASE LoggedOnly /\ audit' # audit
        <3>1. PICK event \in Event : event.version = 0 /\ audit' = Append(audit, event)
            BY <2>3 DEF LoggedOnly
        <3>2. planVersion' = planVersion
            BY <2>3 DEF LoggedOnly
        <3>3. /\ Len(audit') = Len(audit) + 1
              /\ \A i \in 1..Len(audit) : audit'[i] = audit[i]
              /\ audit'[Len(audit) + 1] = event
              /\ DOMAIN audit' = 1..Len(audit) + 1 /\ DOMAIN audit = 1..Len(audit)
            BY <2>1, <3>1
        <3> QED BY <2>1, <3>1, <3>2, <3>3 DEF OneCommitPerVersion, Commits, Committed
    <2>4. CASE LoggedCommit
        <3>1. PICK event \in Event : event.version = planVersion + 1 /\ audit' = Append(audit, event)
            BY <2>4 DEF LoggedCommit
        <3>2. planVersion' = planVersion + 1
            BY <2>4 DEF LoggedCommit
        <3>3. /\ Len(audit') = Len(audit) + 1
              /\ \A i \in 1..Len(audit) : audit'[i] = audit[i]
              /\ audit'[Len(audit) + 1] = event
              /\ DOMAIN audit' = 1..Len(audit) + 1 /\ DOMAIN audit = 1..Len(audit)
            BY <2>1, <3>1
        <3>4. \A i \in DOMAIN audit' : audit'[i].version \in 0..planVersion' \ {1}
            BY <2>1, <3>1, <3>2, <3>3 DEF OneCommitPerVersion
        <3>5. \A v \in 2..planVersion' : \E i \in DOMAIN audit' : audit'[i].version = v
            <4> TAKE v \in 2..planVersion'
            <4>1. CASE v = planVersion + 1
                BY <3>1, <3>3, <4>1
            <4>2. CASE v # planVersion + 1
                <5>1. v \in 2..planVersion
                    BY <2>1, <3>2, <4>2
                <5> QED BY <3>3, <5>1 DEF OneCommitPerVersion
            <4> QED BY <4>1, <4>2
        <3>6. ASSUME NEW i \in Commits', NEW j \in Commits', i < j
              PROVE  audit'[i].version < audit'[j].version
            <4>1. i \in DOMAIN audit /\ i \in Commits
                BY <3>3, <3>6 DEF Commits, Committed
            <4>2. audit'[i] = audit[i] /\ audit[i].version \in 0..planVersion
                BY <3>3, <4>1 DEF OneCommitPerVersion
            <4>3. CASE j = Len(audit) + 1
                BY <2>1, <3>1, <3>3, <4>2, <4>3
            <4>4. CASE j # Len(audit) + 1
                <5>1. j \in Commits /\ audit'[j] = audit[j]
                    BY <3>3, <4>4 DEF Commits, Committed
                <5> QED BY <3>6, <4>1, <4>2, <5>1 DEF OneCommitPerVersion
            <4> QED BY <4>3, <4>4
        <3> QED BY <3>4, <3>5, <3>6 DEF OneCommitPerVersion
    <2> QED BY <2>2, <2>3, <2>4, AuditStep DEF LoggedOnly
<1> QED BY <1>1, <1>2, TypeInvariant, FreshInvariant, PTL DEF Spec

\* No planning route commits on a version its client had not seen: there is
\* no silent last-write-wins.
THEOREM NoStaleWriteHolds == Spec => []NoStaleWrite
<1>1. Init => NoStaleWrite
    BY DEF Init, NoStaleWrite, Commits
<1>2. IType /\ IFresh /\ NoStaleWrite /\ [Next]_vars => NoStaleWrite'
    <2> SUFFICES ASSUME IType, IFresh, NoStaleWrite, [Next]_vars,
                        NEW i \in Commits', audit'[i].env.kind \in PlanningKinds
                 PROVE  audit'[i].version = audit'[i].env.cv + 1
        BY DEF NoStaleWrite
    <2>1. audit \in Seq(Event) /\ planVersion \in Nat
        BY DEF IType, TypeOK
    <2>2. CASE i \in DOMAIN audit /\ audit'[i] = audit[i]
        BY <2>2 DEF NoStaleWrite, Commits, Committed
    <2>3. CASE ~(i \in DOMAIN audit /\ audit'[i] = audit[i])
        <3>1. audit' # audit
            BY <2>3 DEF Commits
        <3>2. PICK event \in Event :
                /\ audit' = Append(audit, event)
                /\ \/ event.version = 0
                   \/ /\ event.version = planVersion + 1
                      /\ event.env.kind \in PlanningKinds => event.env.cv = planVersion
            BY <3>1, AuditStep DEF LoggedOnly, LoggedCommit
        <3>3. audit'[i] = event
            BY <2>1, <2>3, <3>2 DEF Commits
        <3> QED BY <2>1, <3>2, <3>3 DEF Commits, Committed
    <2> QED BY <2>2, <2>3
<1> QED BY <1>1, <1>2, TypeInvariant, FreshInvariant, PTL DEF Spec

-----------------------------------------------------------------------------
(* Idempotency keys                                                        *)

\* A key has one row; a request that got past the check of its key still finds
\* no row of it when it commits; what has committed under a key has a row; and
\* nobody is told anything before the transaction ends.
IKeys ==
    /\ \A a, b \in idem : a.key = b.key => a = b
    /\ \A row \in idem : row.key = row.env.key
    /\ \A i \in Commits : Keyed(audit[i].env) => \E row \in idem : row.key = audit[i].env.key
    /\ \A s \in Slots :
        /\ pc[s] \in {"writing", "written"} /\ Keyed(env[s])
            => \A row \in idem : row.key # env[s].key
        /\ pc[s] \notin {"committed", "done"} => answer[s].outcome = "none"

\* The idempotency check of an accepted request found no row of its key: only
\* the routes that check keys are sent any.
LEMMA AcceptedKeyIsNew ==
    ASSUME IType, NEW s \in Slots, pc[s] = "locked", Verdict(env[s]) = "accept", Keyed(env[s])
    PROVE  \A row \in idem : row.key # env[s].key
<1>1. env[s].kind \in {"commands", "revert"}
    BY DEF IType, TypeOK, Envelopes, WellFormed, Keyed
<1>2. IdempotencyVerdict(env[s]) = "new"
    BY <1>1 DEF Verdict, CommandsVerdict, RevertVerdict, IdempotencyVerdict
<1> QED BY <1>2 DEF IdempotencyVerdict

\* A replay finds its own request under its key, not merely the key.
LEMMA ReplayedKeyIsOwn ==
    ASSUME IType, NEW s \in Slots, pc[s] = "locked", Verdict(env[s]) = "replay"
    PROVE  \E row \in idem : row.key = env[s].key /\ row.env = env[s]
<1>1. env[s] \in Envelopes /\ env[s].kind \in (PlanningKinds \cup WorkKinds) \ ProposeKinds
    BY DEF IType, TypeOK, IPhase, Envelopes
<1>2. env[s].kind \in {"commands", "revert"}
    BY <1>1 DEF Verdict, ApplyVerdict, ScenarioApplyVerdict, SolverApplyVerdict, RejectVerdict,
                TransitionVerdict, ArchiveVerdict, PlanningKinds, WorkKinds, ProposeKinds
<1>3. IdempotencyVerdict(env[s]) = "replay"
    BY <1>2 DEF Verdict, CommandsVerdict, RevertVerdict
<1> QED BY <1>3 DEF IdempotencyVerdict

\* The commits of the audit log are the same before and after the step.
SameCommits ==
    /\ Commits' = Commits
    /\ \A i \in Commits : audit'[i] = audit[i]
    /\ \A i \in DOMAIN audit : i \in DOMAIN audit' /\ audit'[i] = audit[i]

\* An event without a version is no commit.
LEMMA UnversionedEvent ==
    ASSUME audit \in Seq(Event),
           \/ audit' = audit
           \/ \E event \in Event : event.version = 0 /\ audit' = Append(audit, event)
    PROVE  SameCommits
<1>1. CASE audit' = audit
    BY <1>1 DEF SameCommits, Commits, Committed
<1>2. CASE \E event \in Event : event.version = 0 /\ audit' = Append(audit, event)
    <2>1. PICK event \in Event : event.version = 0 /\ audit' = Append(audit, event)
        BY <1>2
    <2>2. /\ DOMAIN audit' = 1..(Len(audit) + 1) /\ DOMAIN audit = 1..Len(audit)
          /\ Len(audit) \in Nat
          /\ \A i \in DOMAIN audit : i \in DOMAIN audit' /\ audit'[i] = audit[i]
          /\ audit'[Len(audit) + 1] = event
        BY <2>1
    <2>3. \A i \in DOMAIN audit' : i \in DOMAIN audit \/ i = Len(audit) + 1
        BY <2>2
    <2> QED BY <2>1, <2>2, <2>3 DEF SameCommits, Commits, Committed
<1> QED BY <1>1, <1>2

IKeyed == IKeys /\ IdempotentWrites

\* Whatever a request does, the rows of the keys, the commits in the audit log
\* and what clients were told stay in step.
LEMMA NextKeys == IType /\ ILock /\ IKeyed /\ [Next]_vars => IKeyed'
<1> SUFFICES ASSUME IType, ILock, IKeyed, [Next]_vars PROVE IKeyed'
    OBVIOUS
<1>0. /\ audit \in Seq(Event)
      /\ pc \in [Slots -> {"idle", "waiting", "locked", "writing", "written",
                             "proposing", "committed", "done"}]
      /\ env \in [Slots -> Envelopes \cup {NoEnvelope}]
      /\ answer \in [Slots -> Answer]
    BY DEF IType, TypeOK
<1> USE DEF IKeyed
<1>1. ASSUME NEW s \in Slots, Send(s) PROVE IKeyed'
    <2>1. UNCHANGED <<audit, idem, answer>> /\ answer[s].outcome = "none"
        BY <1>1 DEF Send, rows, IKeys
    <2>2. \A s2 \in Slots \ {s} : env'[s2] = env[s2]
        BY <1>1, <1>0 DEF Send
    <2>3. IKeys'
        BY <1>0, <1>1, <2>1, <2>2 DEF Send, IKeys, Commits, Committed
    <2>4. IdempotentWrites'
        BY <2>1, <2>2 DEF IdempotentWrites, Commits, Committed
    <2> QED BY <2>3, <2>4
<1>2. ASSUME NEW s \in Slots, Acquire(s) PROVE IKeyed'
    BY <1>0, <1>2 DEF Acquire, rows, IKeys, IdempotentWrites, Commits, Committed
<1>3. ASSUME NEW s \in Slots, Replay(s) PROVE IKeyed'
    <2>1. PICK row \in idem : row.key = env[s].key /\ EndTransaction(s, "replay", row.version)
        BY <1>3 DEF Replay
    <2>2. row.env = env[s]
        BY <1>3, <2>1, ReplayedKeyIsOwn DEF Replay, IKeys
    <2>3. UNCHANGED <<audit, idem, env>>
        BY <1>3 DEF Replay, rows
    <2>4. IKeys'
        BY <1>0, <2>1, <2>3 DEF EndTransaction, IKeys, Commits, Committed
    <2>5. IdempotentWrites'
        BY <1>0, <2>1, <2>2, <2>3 DEF EndTransaction, IdempotentWrites, Commits, Committed
    <2> QED BY <2>4, <2>5
<1>4. ASSUME NEW s \in Slots, Refuse(s) PROVE IKeyed'
    <2> DEFINE verdict == Verdict(env[s])
    <2>1. verdict \notin {"ok", "replay"}
        <3>1. env[s] \in Envelopes /\ env[s].kind \in (PlanningKinds \cup WorkKinds) \ ProposeKinds
            BY <1>4 DEF Refuse, IType, TypeOK, IPhase, Envelopes
        <3>2. verdict # "ok"
            BY <3>1 DEF Verdict, CommandsVerdict, RevertVerdict, IdempotencyVerdict,
                ApplyVerdict, ScenarioApplyVerdict, SolverApplyVerdict, RejectVerdict,
                TransitionVerdict, ArchiveVerdict, PlanningKinds, WorkKinds, ProposeKinds
        <3> QED BY <1>4, <3>2 DEF Refuse
    <2>2. UNCHANGED <<idem, env>>
        BY <1>4 DEF Refuse
    <2>3. EndTransaction(s, verdict, planVersion)
        BY <1>4 DEF Refuse
    <2>4. audit' = audit \/ \E event \in Event : event.version = 0 /\ audit' = Append(audit, event)
        <3>1. RefusalEvent(env[s], verdict) \in Event /\ RefusalEvent(env[s], verdict).version = 0
            BY <1>4 DEF Refuse, RefusalEvent, Event, IType, TypeOK
        <3> QED BY <1>4, <3>1 DEF Refuse
    <2>5. SameCommits
        BY <1>0, <2>4, UnversionedEvent
    <2>6. IKeys'
        BY <1>0, <2>2, <2>3, <2>5 DEF EndTransaction, IKeys, SameCommits
    <2>7. IdempotentWrites'
        BY <1>0, <2>1, <2>2, <2>3, <2>5 DEF EndTransaction, IdempotentWrites, SameCommits
    <2> QED BY <2>6, <2>7
<1>5. ASSUME NEW s \in Slots, Accept(s) PROVE IKeyed'
    <2>1. Keyed(env[s]) => \A row \in idem : row.key # env[s].key
        BY <1>5, AcceptedKeyIsNew DEF Accept
    <2>2. UNCHANGED <<audit, idem, env, answer>>
        BY <1>5 DEF Accept, rows
    <2> QED BY <1>0, <1>5, <2>1, <2>2 DEF Accept, IKeys, IdempotentWrites, Commits, Committed
<1>6. ASSUME NEW s \in Slots, WriteNext(s) PROVE IKeyed'
    BY <1>0, <1>6 DEF WriteNext, rows, IKeys, IdempotentWrites, Commits, Committed
<1>7. ASSUME NEW s \in Slots, Increment(s) PROVE IKeyed'
    BY <1>0, <1>7 DEF Increment, rows, IKeys, IdempotentWrites, Commits, Committed
<1>8. ASSUME NEW s \in Slots, Commit(s) PROVE IKeyed'
    <2> DEFINE n == Len(audit) + 1
               new == [key |-> env[s].key, env |-> env[s], version |-> tx[s].version]
    <2>1. /\ audit' = Append(audit, CommitEvent(s)) /\ CommitEvent(s) \in Event
          /\ CommitEvent(s).env = env[s] /\ CommitEvent(s).version = tx[s].version
        BY <1>8, CommitType DEF Commit, IType, CommitEvent
    <2>2. /\ DOMAIN audit' = 1..n /\ DOMAIN audit = 1..Len(audit) /\ n \in DOMAIN audit'
          /\ \A i \in DOMAIN audit : i \in DOMAIN audit' /\ audit'[i] = audit[i] /\ i # n
          /\ \A i \in DOMAIN audit' : i \in DOMAIN audit \/ i = n
          /\ audit'[n] = CommitEvent(s)
        BY <1>0, <2>1
    <2>3. \A i \in Commits' : i \in Commits \/ i = n
        BY <2>2 DEF Commits, Committed
    <2>4. idem' = IF Keyed(env[s]) THEN idem \cup {new} ELSE idem
        BY <1>8 DEF Commit, RememberKey, IKeys
    <2>5. EndTransaction(s, "ok", tx[s].version) /\ UNCHANGED env
        BY <1>8 DEF Commit
    <2>6. Keyed(env[s]) => \A row \in idem : row.key # env[s].key
        BY <1>8 DEF Commit, IKeys
    <2>7. \A s2 \in Slots \ {s} : pc'[s2] \notin {"writing", "written"}
        BY <1>0, <1>8, <2>5 DEF Commit, ILock, EndTransaction
    <2>8. IKeys'
        <3>1. \A a, b \in idem' : a.key = b.key => a = b
            BY <2>4, <2>6 DEF IKeys
        <3>2. \A row \in idem' : row.key = row.env.key
            BY <2>4 DEF IKeys
        <3>3. ASSUME NEW i \in Commits', Keyed(audit'[i].env)
              PROVE  \E row \in idem' : row.key = audit'[i].env.key
            <4>1. CASE i \in Commits
                <5>1. audit'[i] = audit[i]
                    BY <2>2, <4>1 DEF Commits
                <5> QED BY <2>4, <3>3, <4>1, <5>1 DEF IKeys
            <4>2. CASE i = n
                <5>1. audit'[i].env = env[s]
                    BY <2>1, <2>2, <4>2
                <5>2. new \in idem' /\ new.key = env[s].key
                    BY <2>4, <3>3, <5>1
                <5> QED BY <5>1, <5>2
            <4> QED BY <2>3, <4>1, <4>2
        <3>4. \A s2 \in Slots : pc'[s2] \notin {"writing", "written"}
            BY <1>0, <2>5, <2>7 DEF EndTransaction
        <3>5. \A s2 \in Slots : pc'[s2] \notin {"committed", "done"} => answer'[s2].outcome = "none"
            BY <1>0, <2>5 DEF EndTransaction, IKeys
        <3> QED BY <3>1, <3>2, <3>3, <3>4, <3>5 DEF IKeys
    <2>9. IdempotentWrites'
        <3>1. ASSUME NEW i \in Commits', NEW j \in Commits',
                     Keyed(audit'[i].env), audit'[i].env.key = audit'[j].env.key
              PROVE  i = j
            <4>1. Keyed(audit'[j].env)
                BY <3>1 DEF Keyed
            <4>2. \A k \in Commits : audit'[k] = audit[k]
                BY <2>2 DEF Commits
            <4>3. CASE i \in Commits /\ j \in Commits
                BY <3>1, <4>2, <4>3 DEF IdempotentWrites
            <4>4. CASE i = n /\ j \in Commits
                <5>1. audit[j].env.key = env[s].key /\ Keyed(env[s]) /\ Keyed(audit[j].env)
                    BY <2>1, <2>2, <3>1, <4>1, <4>2, <4>4
                <5> QED BY <2>6, <4>4, <5>1 DEF IKeys
            <4>5. CASE j = n /\ i \in Commits
                <5>1. audit[i].env.key = env[s].key /\ Keyed(env[s]) /\ Keyed(audit[i].env)
                    BY <2>1, <2>2, <3>1, <4>1, <4>2, <4>5
                <5> QED BY <2>6, <4>5, <5>1 DEF IKeys
            <4> QED BY <2>3, <4>3, <4>4, <4>5
        <3>2. ASSUME NEW row \in idem'
              PROVE  \E i \in DOMAIN audit' : audit'[i].env = row.env /\ audit'[i].version = row.version
            <4>1. CASE row \in idem
                BY <2>2, <4>1 DEF IdempotentWrites
            <4>2. CASE row = new
                BY <2>1, <2>2, <4>2
            <4> QED BY <2>4, <4>1, <4>2
        <3>3. ASSUME NEW s2 \in Slots, answer'[s2].outcome \in {"ok", "replay"}, Keyed(env'[s2])
              PROVE  \E row \in idem' : row.env = env'[s2] /\ row.version = answer'[s2].version
            <4>1. CASE s2 = s
                <5>1. answer'[s].version = tx[s].version
                    BY <1>0, <2>5 DEF EndTransaction
                <5>2. new \in idem' /\ new.env = env'[s2] /\ new.version = answer'[s2].version
                    BY <2>4, <2>5, <3>3, <4>1, <5>1
                <5> QED BY <5>2
            <4>2. CASE s2 # s
                <5>1. answer'[s2] = answer[s2] /\ env'[s2] = env[s2]
                    BY <1>0, <2>5, <4>2 DEF EndTransaction
                <5> QED BY <2>4, <3>3, <5>1 DEF IdempotentWrites
            <4> QED BY <4>1, <4>2
        <3> QED BY <3>1, <3>2, <3>3 DEF IdempotentWrites
    <2> QED BY <2>8, <2>9
<1>9. ASSUME NEW s \in Slots, CommitRejection(s) \/ InsertRun(s) PROVE IKeyed'
    <2>1. ~Keyed(env[s])
        BY <1>9 DEF CommitRejection, InsertRun, IType, TypeOK, IPhase, Envelopes, WellFormed,
                    Keyed, ProposeKinds
    <2>2. \E event \in Event : event.version = 0 /\ audit' = Append(audit, event)
        <3> DEFINE event == [env |-> env[s], status |-> "succeeded", version |-> 0,
                             cmds |-> << >>, undo |-> << >>]
        <3>1. event \in Event /\ audit' = Append(audit, event)
            BY <1>9 DEF CommitRejection, InsertRun, Event, IType, TypeOK
        <3> QED BY <3>1
    <2>3. SameCommits
        BY <1>0, <2>2, UnversionedEvent
    <2>4. /\ UNCHANGED <<idem, env>>
          /\ \E version \in Nat : EndTransaction(s, "ok", version)
        BY <1>9 DEF CommitRejection, InsertRun, IType, TypeOK, Envelopes
    <2>5. IKeys'
        BY <1>0, <2>3, <2>4 DEF EndTransaction, IKeys, SameCommits
    <2>6. IdempotentWrites'
        BY <1>0, <2>1, <2>3, <2>4 DEF EndTransaction, IdempotentWrites, SameCommits
    <2> QED BY <2>5, <2>6
<1>10. ASSUME NEW s \in Slots, Respond(s) PROVE IKeyed'
    BY <1>0, <1>10 DEF Respond, rows, IKeys, IdempotentWrites, Commits, Committed
<1>11. ASSUME NEW s \in Slots, Crash(s) PROVE IKeyed'
    BY <1>0, <1>11 DEF Crash, rows, IKeys, IdempotentWrites, Commits, Committed
<1>12. ASSUME NEW s \in Slots, ReadForRun(s) PROVE IKeyed'
    BY <1>0, <1>12 DEF ReadForRun, rows, IKeys, IdempotentWrites, Commits, Committed
<1>13. ASSUME NEW r \in Runs, Expire(r) PROVE IKeyed'
    BY <1>13 DEF Expire, IKeys, IdempotentWrites, Commits, Committed
<1>14. ASSUME NEW S \in SUBSET Runs, Purge(S) PROVE IKeyed'
    BY <1>14 DEF Purge, IKeys, IdempotentWrites, Commits, Committed
<1>15. CASE UNCHANGED vars
    BY <1>15 DEF vars, IKeys, IdempotentWrites, Commits, Committed
<1> QED
    BY <1>1, <1>2, <1>3, <1>4, <1>5, <1>6, <1>7, <1>8, <1>9, <1>10, <1>11, <1>12, <1>13,
       <1>14, <1>15 DEF Next, Step

\* A retry under a key never writes twice, even when the answer was lost and
\* the first request is still in flight, and it is told what that one did.
THEOREM IdempotentWritesHolds == Spec => []IdempotentWrites
<1>1. Init => IKeyed
    BY DEF Init, IKeyed, IKeys, IdempotentWrites, Commits
<1>2. IKeyed => IdempotentWrites
    BY DEF IKeyed
<1> QED BY <1>1, <1>2, TypeInvariant, LockInvariant, NextKeys, PTL DEF Spec

-----------------------------------------------------------------------------
(* Staged runs                                                             *)

\* An id that no proposal has used names nothing.  What a request has checked
\* of its run still holds when it commits, except that the run may have been
\* purged or have expired: those jobs do not take the lock.
IRuns ==
    /\ \A r \in Runs : runs[r].version = 0 =>
        /\ ~runs[r].there /\ ~runs[r].applied /\ ~runs[r].rejected
        /\ \A i \in DOMAIN audit : ~AppliesRun(audit[i], r)
    /\ \A s \in Slots :
        /\ pc[s] # "idle" => env[s].cv # 0
        /\ pc[s] \in {"writing", "written"} /\ env[s].kind \in {"apply", "reject"}
            => ~runs[env[s].run].applied
        /\ pc[s] \in {"writing", "written"} /\ env[s].kind = "apply" =>
            /\ ~runs[env[s].run].rejected
            /\ runs[env[s].run].version = planVersion
            /\ runs[env[s].run].cmds = tx[s].cmds

IRunLifecycle == IRuns /\ RunLifecycle

\* Accepting an apply or a rejection means to have found the run in the state
\* that the request needs.
LEMMA AcceptedRun ==
    ASSUME IType, NEW s \in Slots, pc[s] = "locked", Verdict(env[s]) = "accept"
    PROVE  /\ env[s].kind \in {"apply", "reject"} => ~runs[env[s].run].applied
           /\ env[s].kind = "apply" => /\ ~runs[env[s].run].rejected
                                       /\ runs[env[s].run].version = planVersion
                                       /\ runs[env[s].run].cmds = CommandsOf(env[s])
<1>1. CASE env[s].kind = "apply"
    BY <1>1 DEF Verdict, ApplyVerdict, ScenarioApplyVerdict, SolverApplyVerdict, CommandsOf
<1>2. CASE env[s].kind = "reject"
    BY <1>2 DEF Verdict, RejectVerdict
<1> QED BY <1>1, <1>2

\* A step that adds no commit and touches no run keeps the audit part.
LEMMA SameRuns ==
    ASSUME SameCommits, runs' = runs, IRunLifecycle
    PROVE  /\ RunLifecycle'
           /\ \A r \in Runs : runs'[r].version = 0 =>
                /\ ~runs'[r].there /\ ~runs'[r].applied /\ ~runs'[r].rejected
                /\ \A i \in DOMAIN audit' : ~AppliesRun(audit'[i], r)
<1>1. \A r \in Runs, i \in DOMAIN audit' :
        AppliesRun(audit'[i], r) => i \in DOMAIN audit /\ audit'[i] = audit[i]
    BY DEF SameCommits, Commits, AppliesRun, Committed
<1>2. RunLifecycle'
    BY <1>1 DEF SameCommits, IRunLifecycle, RunLifecycle, AppliesRun, Committed
<1> QED BY <1>1, <1>2 DEF IRunLifecycle, IRuns

\* Applying, rejecting, proposing, expiring and purging keep the runs and the
\* audit log in step.
LEMMA NextRuns ==
    IType /\ ILock /\ IFresh /\ OneCommitPerVersion /\ IRunLifecycle /\ [Next]_vars => IRunLifecycle'
<1> SUFFICES ASSUME IType, ILock, IFresh, OneCommitPerVersion, IRunLifecycle, [Next]_vars
             PROVE  IRunLifecycle'
    OBVIOUS
<1>0. /\ audit \in Seq(Event)
      /\ pc \in [Slots -> {"idle", "waiting", "locked", "writing", "written",
                             "proposing", "committed", "done"}]
      /\ env \in [Slots -> Envelopes \cup {NoEnvelope}]
      /\ tx \in [Slots -> Tx]
      /\ runs \in [Runs -> RunRow]
      /\ planVersion \in Nat \ {0}
      /\ \A s \in Slots : pc[s] # "idle" => env[s] \in Envelopes
      /\ \A s \in Slots : env[s] \in Envelopes /\ env[s].kind \in {"apply", "reject"}
                            => env[s].run \in Runs
    BY DEF IType, TypeOK, Envelopes, WellFormed
<1>s. audit' = audit => SameCommits
    BY <1>0, UnversionedEvent
<1>1. ASSUME NEW s \in Slots, Send(s) PROVE IRunLifecycle'
    <2>1. UNCHANGED <<audit, runs, planVersion, tx>>
        BY <1>1 DEF Send, rows
    <2>2. env'[s].cv # 0
        BY <1>0, <1>1 DEF Send
    <2>3. \A s2 \in Slots \ {s} : env'[s2] = env[s2] /\ pc'[s2] = pc[s2]
        BY <1>0, <1>1 DEF Send
    <2>4. pc'[s] = "waiting"
        BY <1>0, <1>1 DEF Send
    <2> QED BY <1>s, <2>1, <2>2, <2>3, <2>4, SameRuns DEF IRunLifecycle, IRuns
<1>2. ASSUME NEW s \in Slots,
             \/ Acquire(s) \/ Respond(s) \/ Crash(s) \/ ReadForRun(s) \/ Replay(s)
      PROVE  IRunLifecycle'
    <2>1. UNCHANGED <<audit, runs, planVersion, tx, env>>
        BY <1>2 DEF Acquire, Respond, Crash, ReadForRun, Replay, rows
    <2>2. \A s2 \in Slots : pc'[s2] = pc[s2] \/ (pc[s2] # "idle" /\ pc'[s2] \notin {"writing", "written"})
        BY <1>0, <1>2 DEF Acquire, Respond, Crash, ReadForRun, Replay, EndTransaction
    <2> QED BY <1>s, <2>1, <2>2, SameRuns DEF IRunLifecycle, IRuns
<1>3. ASSUME NEW s \in Slots, Refuse(s) PROVE IRunLifecycle'
    <2>1. audit' = audit \/ \E event \in Event : event.version = 0 /\ audit' = Append(audit, event)
        <3>1. /\ RefusalEvent(env[s], Verdict(env[s])) \in Event
              /\ RefusalEvent(env[s], Verdict(env[s])).version = 0
            BY <1>3 DEF Refuse, RefusalEvent, Event, IType, TypeOK
        <3> QED BY <1>3, <3>1 DEF Refuse
    <2>2. SameCommits
        BY <1>0, <2>1, UnversionedEvent
    <2>3. UNCHANGED <<runs, planVersion, tx, env>>
        BY <1>3 DEF Refuse
    <2>4. \A s2 \in Slots : pc'[s2] = pc[s2] \/ (pc[s2] # "idle" /\ pc'[s2] \notin {"writing", "written"})
        BY <1>0, <1>3 DEF Refuse, EndTransaction
    <2> QED BY <2>2, <2>3, <2>4, SameRuns DEF IRunLifecycle, IRuns
<1>4. ASSUME NEW s \in Slots, Accept(s) PROVE IRunLifecycle'
    <2>1. UNCHANGED <<audit, runs, planVersion, env>>
        BY <1>4 DEF Accept, rows
    <2>2. tx'[s].cmds = CommandsOf(env[s]) /\ \A s2 \in Slots \ {s} : tx'[s2] = tx[s2]
        BY <1>0, <1>4 DEF Accept
    <2>3. pc[s] = "locked" /\ \A s2 \in Slots \ {s} : pc'[s2] = pc[s2]
        BY <1>0, <1>4 DEF Accept
    <2>4. /\ env[s].kind \in {"apply", "reject"} => ~runs[env[s].run].applied
          /\ env[s].kind = "apply" => /\ ~runs[env[s].run].rejected
                                      /\ runs[env[s].run].version = planVersion
                                      /\ runs[env[s].run].cmds = CommandsOf(env[s])
        BY <1>4, AcceptedRun DEF Accept
    <2> QED BY <1>s, <2>1, <2>2, <2>3, <2>4, SameRuns DEF IRunLifecycle, IRuns
<1>5. ASSUME NEW s \in Slots, WriteNext(s) \/ Increment(s) PROVE IRunLifecycle'
    <2>1. UNCHANGED <<audit, runs, planVersion, env>>
        BY <1>5 DEF WriteNext, Increment, rows
    <2>2. \A s2 \in Slots : tx'[s2].cmds = tx[s2].cmds
        <3>1. CASE WriteNext(s)
            BY <1>0, <3>1 DEF WriteNext, Tx
        <3>2. CASE Increment(s)
            BY <1>0, <3>2 DEF Increment, Tx
        <3> QED BY <1>5, <3>1, <3>2
    <2>3. \A s2 \in Slots : pc'[s2] = pc[s2] \/ (pc[s2] = "writing" /\ pc'[s2] = "written")
        BY <1>0, <1>5 DEF WriteNext, Increment
    <2> QED BY <1>s, <2>1, <2>2, <2>3, SameRuns DEF IRunLifecycle, IRuns
<1>6. ASSUME NEW s \in Slots, Commit(s) PROVE IRunLifecycle'
    <2> DEFINE n == Len(audit) + 1
               q == env[s].run
    <2>1. /\ audit' = Append(audit, CommitEvent(s)) /\ CommitEvent(s) \in Event
          /\ CommitEvent(s).env = env[s] /\ CommitEvent(s).version = tx[s].version
          /\ CommitEvent(s).cmds = tx[s].cmds
        BY <1>6, CommitType DEF Commit, IType, CommitEvent
    <2>2. /\ n \in DOMAIN audit'
          /\ \A i \in DOMAIN audit : i \in DOMAIN audit' /\ audit'[i] = audit[i] /\ i # n
          /\ \A i \in DOMAIN audit' : i \in DOMAIN audit \/ i = n
          /\ audit'[n] = CommitEvent(s)
        BY <1>0, <2>1
    <2>3. tx[s].version = planVersion + 1 /\ env[s] \in Envelopes
        BY <1>0, <1>6 DEF Commit, IFresh
    <2>4. \A s2 \in Slots : pc'[s2] \notin {"writing", "written"}
        BY <1>0, <1>6 DEF Commit, ILock, EndTransaction
    <2>5. \A s2 \in Slots : pc'[s2] # "idle" => env'[s2].cv # 0
        BY <1>0, <1>6 DEF Commit, EndTransaction, IRunLifecycle, IRuns
    <2>6. CASE env[s].kind # "apply"
        <3>1. runs' = runs
            BY <1>6, <2>6 DEF Commit, MarkApplied
        <3>2. \A r \in Runs : ~AppliesRun(audit'[n], r)
            BY <2>1, <2>2, <2>6 DEF AppliesRun
        <3>3. \A r \in Runs, i \in DOMAIN audit' :
                AppliesRun(audit'[i], r) => i \in DOMAIN audit /\ audit'[i] = audit[i]
            BY <2>2, <3>2
        <3>4. RunLifecycle'
            BY <2>2, <3>1, <3>3 DEF IRunLifecycle, RunLifecycle
        <3> QED BY <2>4, <2>5, <3>1, <3>3, <3>4 DEF IRunLifecycle, IRuns
    <2>7. CASE env[s].kind = "apply"
        <3>1. q \in Runs /\ ~runs[q].applied /\ ~runs[q].rejected /\ runs[q].version = planVersion
              /\ runs[q].cmds = tx[s].cmds
            BY <1>0, <1>6, <2>3, <2>7 DEF Commit, IRunLifecycle, IRuns
        <3>2. \A i \in DOMAIN audit : ~AppliesRun(audit[i], q)
            BY <1>0, <3>1 DEF IRunLifecycle, RunLifecycle, OneCommitPerVersion
        <3>3. \A r \in Runs : AppliesRun(audit'[n], r) <=> r = q
            BY <1>0, <2>1, <2>2, <2>3, <2>7 DEF AppliesRun, Committed
        <3>4. /\ \A r \in Runs \ {q} : runs'[r] = runs[r]
              /\ runs'[q] = [runs[q] EXCEPT !.applied = runs[q].there]
            <4>1. CASE runs[q].there
                BY <1>0, <1>6, <2>7, <3>1, <4>1 DEF Commit, MarkApplied, RunRow
            <4>2. CASE ~runs[q].there
                <5>1. runs' = runs /\ runs[q] \in RunRow
                    BY <1>0, <1>6, <2>7, <3>1, <4>2 DEF Commit, MarkApplied
                <5>2. runs[q].applied = FALSE /\ runs[q].there = FALSE
                    BY <3>1, <4>2, <5>1 DEF RunRow
                <5> QED BY <5>1, <5>2 DEF RunRow
            <4> QED BY <4>1, <4>2
        <3>5. /\ runs'[q].applied = runs[q].there /\ runs'[q].there = runs[q].there
              /\ ~runs'[q].rejected /\ runs'[q].version = planVersion /\ runs'[q].cmds = tx[s].cmds
            BY <1>0, <3>1, <3>4 DEF RunRow
        <3>6. audit'[n].version = planVersion + 1 /\ audit'[n].cmds = tx[s].cmds
            BY <2>1, <2>2, <2>3
        <3>7. \A r \in Runs, i \in DOMAIN audit' :
                AppliesRun(audit'[i], r) <=> \/ i = n /\ r = q
                                             \/ i \in DOMAIN audit /\ AppliesRun(audit[i], r) /\ r # q
            BY <2>2, <3>2, <3>3
        <3>8. RunLifecycle'
            <4> SUFFICES ASSUME NEW r \in Runs
                 PROVE /\ ~(runs'[r].applied /\ runs'[r].rejected)
                       /\ \A i, j \in DOMAIN audit' :
                            AppliesRun(audit'[i], r) /\ AppliesRun(audit'[j], r) => i = j
                       /\ \A i \in DOMAIN audit' : AppliesRun(audit'[i], r) =>
                            /\ audit'[i].version = runs'[r].version + 1
                            /\ audit'[i].cmds = runs'[r].cmds
                            /\ runs'[r].applied \/ ~runs'[r].there
                       /\ runs'[r].applied => \E i \in DOMAIN audit' : AppliesRun(audit'[i], r)
                BY DEF RunLifecycle
            <4>1. CASE r = q
                BY <2>2, <3>5, <3>6, <3>7, <4>1
            <4>2. CASE r # q
                BY <2>2, <3>4, <3>7, <4>2 DEF IRunLifecycle, RunLifecycle
            <4> QED BY <4>1, <4>2
        <3>9. ASSUME NEW r \in Runs, runs'[r].version = 0
              PROVE /\ ~runs'[r].there /\ ~runs'[r].applied /\ ~runs'[r].rejected
                    /\ \A i \in DOMAIN audit' : ~AppliesRun(audit'[i], r)
            <4>1. r # q
                BY <1>0, <3>5, <3>9
            <4> QED BY <3>4, <3>7, <3>9, <4>1 DEF IRunLifecycle, IRuns
        <3> QED BY <2>4, <2>5, <3>8, <3>9 DEF IRunLifecycle, IRuns
    <2> QED BY <2>6, <2>7
<1>7. ASSUME NEW s \in Slots, CommitRejection(s) \/ InsertRun(s) PROVE SameCommits
    <2> DEFINE event == [env |-> env[s], status |-> "succeeded", version |-> 0,
                         cmds |-> << >>, undo |-> << >>]
    <2>1. event \in Event /\ event.version = 0 /\ audit' = Append(audit, event)
        BY <1>7 DEF CommitRejection, InsertRun, Event, IType, TypeOK
    <2> QED BY <1>0, <2>1, UnversionedEvent
<1>7a. SameCommits => \A r \in Runs, i \in DOMAIN audit' :
        AppliesRun(audit'[i], r) => i \in DOMAIN audit /\ audit'[i] = audit[i]
    BY DEF SameCommits, Commits, AppliesRun, Committed
<1>8. ASSUME NEW s \in Slots, CommitRejection(s) PROVE IRunLifecycle'
    <2> DEFINE q == env[s].run
    <2>1. q \in Runs /\ ~runs[q].applied
        BY <1>0, <1>8 DEF CommitRejection, IRunLifecycle, IRuns
    <2>2. /\ \A r \in Runs \ {q} : runs'[r] = runs[r]
          /\ \A r \in Runs : /\ runs'[r].there = runs[r].there
                             /\ runs'[r].applied = runs[r].applied
                             /\ runs'[r].version = runs[r].version
                             /\ runs'[r].cmds = runs[r].cmds
                             /\ ~runs[r].rejected /\ ~runs[r].there => ~runs'[r].rejected
        BY <1>0, <1>8, <2>1 DEF CommitRejection, RunRow
    <2>3. \A s2 \in Slots : pc'[s2] \notin {"writing", "written"}
        BY <1>0, <1>8 DEF CommitRejection, ILock, EndTransaction
    <2>4. \A s2 \in Slots : pc'[s2] # "idle" => env'[s2].cv # 0
        BY <1>0, <1>8 DEF CommitRejection, EndTransaction, IRunLifecycle, IRuns
    <2>5. SameCommits
        BY <1>7, <1>8
    <2>6. RunLifecycle'
        BY <1>7a, <2>1, <2>2, <2>5 DEF SameCommits, IRunLifecycle, RunLifecycle
    <2> QED BY <1>7a, <2>2, <2>3, <2>4, <2>5, <2>6 DEF IRunLifecycle, IRuns
<1>9. ASSUME NEW s \in Slots, InsertRun(s) PROVE IRunLifecycle'
    <2>1. PICK q \in FreshRuns :
            runs' = [runs EXCEPT ![q] =
                      [there |-> TRUE, solver |-> env[s].kind = "propose_solver",
                       version |-> env[s].cv, cmds |-> env[s].cmds,
                       applied |-> FALSE, rejected |-> FALSE, expired |-> FALSE]]
        BY <1>9 DEF InsertRun
    <2>2. q \in Runs /\ runs[q].version = 0 /\ env[s].cv # 0
        BY <1>9 DEF FreshRuns, InsertRun, IRunLifecycle, IRuns
    <2>3. /\ \A r \in Runs \ {q} : runs'[r] = runs[r]
          /\ runs'[q].version # 0 /\ ~runs'[q].applied /\ ~runs'[q].rejected
        BY <1>0, <2>1, <2>2
    <2>4. UNCHANGED <<planVersion, tx, env>>
        BY <1>9 DEF InsertRun
    <2>5. \A s2 \in Slots : pc'[s2] = pc[s2] \/ (pc[s2] # "idle" /\ pc'[s2] \notin {"writing", "written"})
        BY <1>0, <1>9 DEF InsertRun, EndTransaction
    <2>6. \A i \in DOMAIN audit' : ~AppliesRun(audit'[i], q)
        BY <1>7, <1>7a, <1>9, <2>2 DEF IRunLifecycle, IRuns
    <2>7. SameCommits
        BY <1>7, <1>9
    <2>8. RunLifecycle'
        <3> SUFFICES ASSUME NEW r \in Runs
             PROVE /\ ~(runs'[r].applied /\ runs'[r].rejected)
                   /\ \A i, j \in DOMAIN audit' :
                        AppliesRun(audit'[i], r) /\ AppliesRun(audit'[j], r) => i = j
                   /\ \A i \in DOMAIN audit' : AppliesRun(audit'[i], r) =>
                        /\ audit'[i].version = runs'[r].version + 1
                        /\ audit'[i].cmds = runs'[r].cmds
                        /\ runs'[r].applied \/ ~runs'[r].there
                   /\ runs'[r].applied => \E i \in DOMAIN audit' : AppliesRun(audit'[i], r)
            BY DEF RunLifecycle
        <3>1. CASE r = q
            BY <2>3, <2>6, <3>1
        <3>2. CASE r # q
            BY <1>7a, <2>3, <2>7, <3>2 DEF SameCommits, IRunLifecycle, RunLifecycle
        <3> QED BY <3>1, <3>2
    <2>9. ASSUME NEW s2 \in Slots, pc'[s2] \in {"writing", "written"}, env'[s2].kind \in {"apply", "reject"}
          PROVE  pc[s2] = pc'[s2] /\ (env[s2].kind = "apply" => runs'[env[s2].run] = runs[env[s2].run])
                 /\ ~runs'[env[s2].run].applied
        <3>1. pc[s2] = pc'[s2] /\ env[s2] = env'[s2] /\ env[s2].run \in Runs
            BY <1>0, <2>4, <2>5, <2>9
        <3>2. env[s2].kind = "apply" => env[s2].run # q
            BY <1>0, <2>2, <2>9, <3>1 DEF IRunLifecycle, IRuns
        <3> QED BY <2>3, <2>9, <3>1, <3>2 DEF IRunLifecycle, IRuns
    <2>10. \A r \in Runs : runs'[r].version = 0 => r # q
        BY <2>3
    <2> QED BY <1>7a, <2>3, <2>4, <2>5, <2>7, <2>8, <2>9, <2>10 DEF IRunLifecycle, IRuns
<1>10. ASSUME UNCHANGED <<audit, planVersion, pc, env, tx>>,
              \A r \in Runs : /\ runs'[r].applied = runs[r].applied
                              /\ runs'[r].rejected = runs[r].rejected
                              /\ runs'[r].version = runs[r].version
                              /\ runs'[r].cmds = runs[r].cmds
                              /\ runs'[r].there => runs[r].there
       PROVE  IRunLifecycle'
    <2>1. RunLifecycle'
        BY <1>10 DEF IRunLifecycle, RunLifecycle
    <2>2. \A s \in Slots : pc[s] \in {"writing", "written"} /\ env[s].kind \in {"apply", "reject"}
            => env[s].run \in Runs
        BY <1>0
    <2> QED BY <1>10, <2>1, <2>2 DEF IRunLifecycle, IRuns
<1>11. ASSUME NEW r \in Runs, Expire(r) PROVE IRunLifecycle'
    <2>1. \A r2 \in Runs : /\ runs'[r2].applied = runs[r2].applied
                           /\ runs'[r2].rejected = runs[r2].rejected
                           /\ runs'[r2].version = runs[r2].version
                           /\ runs'[r2].cmds = runs[r2].cmds
                           /\ runs'[r2].there => runs[r2].there
        BY <1>0, <1>11 DEF Expire, RunRow
    <2> QED BY <1>10, <1>11, <2>1 DEF Expire
<1>12. ASSUME NEW S \in SUBSET Runs, Purge(S) PROVE IRunLifecycle'
    <2>1. \A r2 \in Runs : /\ runs'[r2].applied = runs[r2].applied
                           /\ runs'[r2].rejected = runs[r2].rejected
                           /\ runs'[r2].version = runs[r2].version
                           /\ runs'[r2].cmds = runs[r2].cmds
                           /\ runs'[r2].there => runs[r2].there
        BY <1>0, <1>12 DEF Purge, RunRow
    <2> QED BY <1>10, <1>12, <2>1 DEF Purge
<1>13. CASE UNCHANGED vars
    BY <1>10, <1>13 DEF vars
<1> QED
    BY <1>1, <1>2, <1>3, <1>4, <1>5, <1>6, <1>8, <1>9, <1>11, <1>12, <1>13 DEF Next, Step

\* A staged run is applied at most once, right after the version it was
\* proposed for and with exactly its commands, and never applied and rejected,
\* although it can expire or be purged in the middle of its own application.
THEOREM RunLifecycleHolds == Spec => []RunLifecycle
<1>1. Init => IRunLifecycle
    BY DEF Init, IRunLifecycle, IRuns, RunLifecycle, NoRunRow
<1>2. IRunLifecycle => RunLifecycle
    BY DEF IRunLifecycle
<1> QED BY <1>1, <1>2, TypeInvariant, LockInvariant, FreshInvariant, OneCommitPerVersionHolds,
           NextRuns, PTL DEF Spec
=============================================================================

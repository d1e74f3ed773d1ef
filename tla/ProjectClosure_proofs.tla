------------------------ MODULE ProjectClosure_proofs ------------------------
(***************************************************************************)
(* Proofs about ProjectClosure, for any set of requests.                   *)
(*                                                                         *)
(* The properties are not inductive by themselves: that only one request   *)
(* closes a project follows from the row lock that a closing transaction   *)
(* holds from its UPDATE to its COMMIT (IRow), that only one late write    *)
(* commits from the tenant lock that a plan write holds from its first     *)
(* read to its COMMIT (IPlan), and both from what each stage of a handler  *)
(* knows about its request (IStage).                                       *)
(***************************************************************************)
EXTENDS ProjectClosure, TLAPS

\* The stages of the three handlers.
TransitionStages == {"updating", "updated"}
CloseStages == {"snapshotting", "reading", "closing", "closed_row"}
PlanStages == {"locked", "writing", "written"}

\* Each stage belongs to one handler, and past the first check of the closure
\* route a closable status has been read.
IStage ==
    \A s \in Slots :
        /\ pc[s] \in TransitionStages => kind[s] \in Transitions
        /\ pc[s] \in CloseStages => kind[s] = "close" /\ seen[s].status \in Closable
        /\ pc[s] \in PlanStages => kind[s] \in Writers

\* A transaction between its UPDATE of the project row and its end holds the
\* row lock alone, so the status it has checked is still the committed one; and
\* one about to close has found no closure snapshot.
IRow ==
    \A s \in Slots :
        /\ pc[s] \in {"updated", "closed_row"} => rowLock = {s}
        /\ pc[s] = "updated" => status \in From[kind[s]]
        /\ pc[s] = "closed_row" => status \in Closable /\ closure = NoClosure

\* A plan write holds the tenant lock alone, and once a late write has been
\* committed no further one is on its way.
IPlan ==
    /\ \A s \in Slots : pc[s] \in PlanStages => planLock = {s}
    /\ status = "closed" /\ lateWrites # 0 =>
        \A s \in Slots : pc[s] \in {"writing", "written"} => kind[s] = "archive"

\* Whoever was told of a closure was told of one that is stored.
IAnswer ==
    /\ status = "closed" => closure # NoClosure
    /\ \A s \in Slots : answer[s] = "existing" => closure # NoClosure
    /\ \A s \in Closers : closure # NoClosure
    /\ \A r, s \in Closers : r = s

Inv == TypeOK /\ IStage /\ IRow /\ IPlan /\ IAnswer /\ OneLateWrite

-----------------------------------------------------------------------------
\* The invariant holds initially.
LEMMA InitInv == Init => Inv
<1> SUFFICES ASSUME Init PROVE Inv
    OBVIOUS
<1>1. TypeOK
    BY DEF Init, TypeOK, Statuses, Seen, Outcomes
<1>2. IStage /\ IRow /\ IPlan /\ IAnswer /\ OneLateWrite
    BY DEF Init, IStage, IRow, IPlan, IAnswer, OneLateWrite, Closers, TransitionStages,
           CloseStages, PlanStages
<1> QED
    BY <1>1, <1>2 DEF Inv

\* Every step keeps the types.  The closure that a transaction stores is well
\* formed because it has read a closable status.
LEMMA NextType == Inv /\ [Next]_vars => TypeOK'
<1> SUFFICES ASSUME Inv, [Next]_vars PROVE TypeOK'
    OBVIOUS
<1> USE DEF Inv, TypeOK, Seen, Outcomes, Goto, End, locks
<1>1. CASE UNCHANGED vars
    BY <1>1 DEF vars
<1>2. ASSUME NEW s \in Slots,
             Send(s) \/ LockPlan(s) \/ ReadPlan(s) \/ ReadBack(s) \/ CommitPlan(s) \/ Crash(s)
      PROVE  TypeOK'
  <2>1. CASE Send(s)
      BY <2>1 DEF Send
  <2>2. CASE LockPlan(s)
      BY <2>2 DEF LockPlan
  <2>3. CASE ReadPlan(s)
    <3>1. seen' \in [Slots -> Seen]
        BY <2>3 DEF ReadPlan
    <3>2. answer' \in [Slots -> Outcomes] /\ rowLock' \subseteq Slots /\ planLock' \subseteq Slots
        BY <2>3 DEF ReadPlan
    <3> QED
        BY <2>3, <3>1, <3>2 DEF ReadPlan
  <2>4. CASE ReadBack(s)
    <3>1. seen' \in [Slots -> Seen]
        BY <2>4 DEF ReadBack
    <3>2. answer' \in [Slots -> Outcomes] /\ rowLock' \subseteq Slots /\ planLock' \subseteq Slots
        BY <2>4 DEF ReadBack
    <3> QED
        BY <2>4, <3>1, <3>2 DEF ReadBack
  <2>5. CASE CommitPlan(s)
      BY <2>5 DEF CommitPlan
  <2>6. CASE Crash(s)
      BY <2>6 DEF Crash
  <2> QED
      BY <1>2, <2>1, <2>2, <2>3, <2>4, <2>5, <2>6
<1>3. ASSUME NEW s \in Slots, CheckTransition(s) \/ UpdateStatus(s) \/ CommitTransition(s)
      PROVE  TypeOK'
  <2>1. CASE CheckTransition(s)
      BY <2>1 DEF CheckTransition
  <2>2. CASE UpdateStatus(s)
      BY <2>2 DEF UpdateStatus
  <2>3. CASE CommitTransition(s)
    <3>1. kind[s] \in Transitions
        BY <2>3 DEF CommitTransition, IStage, TransitionStages
    <3>2. Target[kind[s]] \in Statuses
        BY <3>1 DEF Target, Transitions, Statuses
    <3> QED
        BY <2>3, <3>2 DEF CommitTransition
  <2> QED
      BY <1>3, <2>1, <2>2, <2>3
<1>4. ASSUME NEW s \in Slots,
             FindProject(s) \/ SelectProject(s) \/ SelectVersion(s) \/ SelectTasks(s) \/ RecheckStatus(s) \/ CloseRow(s)
      PROVE  TypeOK'
  <2>1. CASE FindProject(s)
      BY <2>1 DEF FindProject, Statuses, Closable
  <2>2. CASE SelectProject(s)
      BY <2>2 DEF SelectProject, Statuses, Closable
  <2>3. CASE SelectVersion(s)
      BY <2>3 DEF SelectVersion, Statuses, Closable
  <2>4. CASE SelectTasks(s)
      BY <2>4 DEF SelectTasks, Statuses, Closable
  <2>5. CASE RecheckStatus(s)
      BY <2>5 DEF RecheckStatus, NotClosable, Statuses, Closable
  <2>6. CASE CloseRow(s)
      BY <2>6 DEF CloseRow, NotClosable, Statuses, Closable
  <2> QED
      BY <1>4, <2>1, <2>2, <2>3, <2>4, <2>5, <2>6
<1>5. ASSUME NEW s \in Slots, CommitClose(s) PROVE TypeOK'
  <2>1. seen[s].status \in Closable
      BY <1>5 DEF CommitClose, IStage, CloseStages
  <2>2. closure' \in Closures
      BY <1>5, <2>1 DEF CommitClose, Closures
  <2> QED
      BY <1>5, <2>2 DEF CommitClose, Statuses
<1> QED
    BY <1>1, <1>2, <1>3, <1>4, <1>5 DEF Next

\* Every step keeps what the stages know.
LEMMA NextStage == Inv /\ [Next]_vars => IStage'
<1> SUFFICES ASSUME Inv, [Next]_vars PROVE IStage'
    OBVIOUS
<1> USE DEF Inv, TypeOK, Seen, IStage, TransitionStages, CloseStages, PlanStages, Goto, End, locks
<1>1. CASE UNCHANGED vars
    BY <1>1 DEF vars
<1>2. ASSUME NEW s \in Slots,
             Send(s) \/ LockPlan(s) \/ ReadPlan(s) \/ ReadBack(s) \/ CommitPlan(s) \/ Crash(s)
      PROVE  IStage'
  <2>1. CASE Send(s)
      BY <2>1 DEF Send
  <2>2. CASE LockPlan(s)
      BY <2>2 DEF LockPlan
  <2>3. CASE ReadPlan(s)
      BY <2>3 DEF ReadPlan
  <2>4. CASE ReadBack(s)
      BY <2>4 DEF ReadBack
  <2>5. CASE CommitPlan(s)
      BY <2>5 DEF CommitPlan
  <2>6. CASE Crash(s)
      BY <2>6 DEF Crash
  <2> QED
      BY <1>2, <2>1, <2>2, <2>3, <2>4, <2>5, <2>6
<1>3. ASSUME NEW s \in Slots,
             CheckTransition(s) \/ UpdateStatus(s) \/ CommitTransition(s)
      PROVE  IStage'
  <2>1. CASE CheckTransition(s)
      BY <2>1 DEF CheckTransition
  <2>2. CASE UpdateStatus(s)
      BY <2>2 DEF UpdateStatus
  <2>3. CASE CommitTransition(s)
      BY <2>3 DEF CommitTransition
  <2> QED
      BY <1>3, <2>1, <2>2, <2>3
<1>4. ASSUME NEW s \in Slots,
             FindProject(s) \/ SelectProject(s) \/ SelectVersion(s) \/ SelectTasks(s)
      PROVE  IStage'
  <2>1. CASE FindProject(s)
      BY <2>1 DEF FindProject
  <2>2. CASE SelectProject(s)
      BY <2>2 DEF SelectProject
  <2>3. CASE SelectVersion(s)
      BY <2>3 DEF SelectVersion
  <2>4. CASE SelectTasks(s)
      BY <2>4 DEF SelectTasks
  <2> QED
      BY <1>4, <2>1, <2>2, <2>3, <2>4
<1>5. ASSUME NEW s \in Slots,
             RecheckStatus(s) \/ CloseRow(s) \/ CommitClose(s)
      PROVE  IStage'
  <2>1. CASE RecheckStatus(s)
      BY <2>1 DEF RecheckStatus, NotClosable
  <2>2. CASE CloseRow(s)
      BY <2>2 DEF CloseRow, NotClosable
  <2>3. CASE CommitClose(s)
      BY <2>3 DEF CommitClose
  <2> QED
      BY <1>5, <2>1, <2>2, <2>3
<1> QED
    BY <1>1, <1>2, <1>3, <1>4, <1>5 DEF Next

\* Every step keeps the row lock exclusive.
LEMMA NextRow == Inv /\ [Next]_vars => IRow'
<1> SUFFICES ASSUME Inv, [Next]_vars PROVE IRow'
    OBVIOUS
<1> USE DEF Inv, TypeOK, IRow, Goto, End, locks
<1>1. CASE UNCHANGED vars
    BY <1>1 DEF vars
<1>2. ASSUME NEW s \in Slots,
             Send(s) \/ LockPlan(s) \/ ReadPlan(s) \/ ReadBack(s) \/ CommitPlan(s) \/ Crash(s)
      PROVE  IRow'
  <2>1. CASE Send(s)
      BY <2>1 DEF Send
  <2>2. CASE LockPlan(s)
      BY <2>2 DEF LockPlan
  <2>3. CASE ReadPlan(s)
      BY <2>3 DEF ReadPlan
  <2>4. CASE ReadBack(s)
      BY <2>4 DEF ReadBack
  <2>5. CASE CommitPlan(s)
      BY <2>5 DEF CommitPlan
  <2>6. CASE Crash(s)
      BY <2>6 DEF Crash
  <2> QED
      BY <1>2, <2>1, <2>2, <2>3, <2>4, <2>5, <2>6
<1>3. ASSUME NEW s \in Slots,
             CheckTransition(s) \/ UpdateStatus(s) \/ CommitTransition(s)
      PROVE  IRow'
  <2>1. CASE CheckTransition(s)
      BY <2>1 DEF CheckTransition
  <2>2. CASE UpdateStatus(s)
      BY <2>2 DEF UpdateStatus
  <2>3. CASE CommitTransition(s)
      BY <2>3 DEF CommitTransition
  <2> QED
      BY <1>3, <2>1, <2>2, <2>3
<1>4. ASSUME NEW s \in Slots,
             FindProject(s) \/ SelectProject(s) \/ SelectVersion(s) \/ SelectTasks(s)
      PROVE  IRow'
  <2>1. CASE FindProject(s)
      BY <2>1 DEF FindProject
  <2>2. CASE SelectProject(s)
      BY <2>2 DEF SelectProject
  <2>3. CASE SelectVersion(s)
      BY <2>3 DEF SelectVersion
  <2>4. CASE SelectTasks(s)
      BY <2>4 DEF SelectTasks
  <2> QED
      BY <1>4, <2>1, <2>2, <2>3, <2>4
<1>5. ASSUME NEW s \in Slots,
             RecheckStatus(s) \/ CloseRow(s) \/ CommitClose(s)
      PROVE  IRow'
  <2>1. CASE RecheckStatus(s)
      BY <2>1 DEF RecheckStatus, NotClosable
  <2>2. CASE CloseRow(s)
      BY <2>2 DEF CloseRow, NotClosable
  <2>3. CASE CommitClose(s)
      BY <2>3 DEF CommitClose
  <2> QED
      BY <1>5, <2>1, <2>2, <2>3
<1> QED
    BY <1>1, <1>2, <1>3, <1>4, <1>5 DEF Next

\* Every step keeps the tenant lock exclusive and the late writes at one.
LEMMA NextPlan == Inv /\ [Next]_vars => IPlan' /\ OneLateWrite'
<1> SUFFICES ASSUME Inv, [Next]_vars PROVE IPlan' /\ OneLateWrite'
    OBVIOUS
<1> USE DEF Inv, TypeOK, IPlan, OneLateWrite, PlanStages, Goto, End, locks
<1>1. CASE UNCHANGED vars
    BY <1>1 DEF vars
<1>2. ASSUME NEW s \in Slots,
             Send(s) \/ LockPlan(s) \/ ReadPlan(s) \/ ReadBack(s) \/ Crash(s)
      PROVE  IPlan' /\ OneLateWrite'
  <2>1. CASE Send(s)
      BY <2>1 DEF Send
  <2>2. CASE LockPlan(s)
      BY <2>2 DEF LockPlan
  <2>3. CASE ReadPlan(s)
      BY <2>3 DEF ReadPlan
  <2>4. CASE ReadBack(s)
      BY <2>4 DEF ReadBack
  <2>5. CASE Crash(s)
      BY <2>5 DEF Crash
  <2> QED
      BY <1>2, <2>1, <2>2, <2>3, <2>4, <2>5
<1>3. ASSUME NEW s \in Slots, CommitPlan(s) PROVE IPlan' /\ OneLateWrite'
    BY <1>3 DEF CommitPlan
<1>4. ASSUME NEW s \in Slots,
             CheckTransition(s) \/ UpdateStatus(s) \/ CommitTransition(s)
      PROVE  IPlan' /\ OneLateWrite'
  <2>1. CASE CheckTransition(s)
      BY <2>1 DEF CheckTransition, IStage, TransitionStages, Target, Transitions
  <2>2. CASE UpdateStatus(s)
      BY <2>2 DEF UpdateStatus, IStage, TransitionStages, Target, Transitions
  <2>3. CASE CommitTransition(s)
      BY <2>3 DEF CommitTransition, IStage, TransitionStages, Target, Transitions
  <2> QED
      BY <1>4, <2>1, <2>2, <2>3
<1>5. ASSUME NEW s \in Slots,
             FindProject(s) \/ SelectProject(s) \/ SelectVersion(s) \/ SelectTasks(s)
      PROVE  IPlan' /\ OneLateWrite'
  <2>1. CASE FindProject(s)
      BY <2>1 DEF FindProject
  <2>2. CASE SelectProject(s)
      BY <2>2 DEF SelectProject
  <2>3. CASE SelectVersion(s)
      BY <2>3 DEF SelectVersion
  <2>4. CASE SelectTasks(s)
      BY <2>4 DEF SelectTasks
  <2> QED
      BY <1>5, <2>1, <2>2, <2>3, <2>4
<1>6. ASSUME NEW s \in Slots,
             RecheckStatus(s) \/ CloseRow(s) \/ CommitClose(s)
      PROVE  IPlan' /\ OneLateWrite'
  <2>1. CASE RecheckStatus(s)
      BY <2>1 DEF RecheckStatus, NotClosable
  <2>2. CASE CloseRow(s)
      BY <2>2 DEF CloseRow, NotClosable
  <2>3. CASE CommitClose(s)
      BY <2>3 DEF CommitClose
  <2> QED
      BY <1>6, <2>1, <2>2, <2>3
<1> QED
    BY <1>1, <1>2, <1>3, <1>4, <1>5, <1>6 DEF Next

\* Every step keeps the answers true.
LEMMA NextAnswer == Inv /\ [Next]_vars => IAnswer'
<1> SUFFICES ASSUME Inv, [Next]_vars PROVE IAnswer'
    OBVIOUS
<1> USE DEF Inv, TypeOK, IAnswer, Closers, Goto, End, locks
<1>1. CASE UNCHANGED vars
    BY <1>1 DEF vars
<1>2. ASSUME NEW s \in Slots,
             Send(s) \/ LockPlan(s) \/ ReadPlan(s) \/ ReadBack(s) \/ CommitPlan(s) \/ Crash(s)
      PROVE  IAnswer'
  <2>1. CASE Send(s)
      BY <2>1 DEF Send, IStage, PlanStages, Writers
  <2>2. CASE LockPlan(s)
      BY <2>2 DEF LockPlan, IStage, PlanStages, Writers
  <2>3. CASE ReadPlan(s)
      BY <2>3 DEF ReadPlan, IStage, PlanStages, Writers
  <2>4. CASE ReadBack(s)
      BY <2>4 DEF ReadBack, IStage, PlanStages, Writers
  <2>5. CASE CommitPlan(s)
      BY <2>5 DEF CommitPlan, IStage, PlanStages, Writers
  <2>6. CASE Crash(s)
      BY <2>6 DEF Crash, IStage, PlanStages, Writers
  <2> QED
      BY <1>2, <2>1, <2>2, <2>3, <2>4, <2>5, <2>6
<1>3. ASSUME NEW s \in Slots,
             CheckTransition(s) \/ UpdateStatus(s) \/ CommitTransition(s)
      PROVE  IAnswer'
  <2>1. CASE CheckTransition(s)
      BY <2>1 DEF CheckTransition, IStage, TransitionStages, Transitions, Target
  <2>2. CASE UpdateStatus(s)
      BY <2>2 DEF UpdateStatus, IStage, TransitionStages, Transitions, Target
  <2>3. CASE CommitTransition(s)
      BY <2>3 DEF CommitTransition, IStage, TransitionStages, Transitions, Target
  <2> QED
      BY <1>3, <2>1, <2>2, <2>3
<1>4. ASSUME NEW s \in Slots,
             FindProject(s) \/ SelectProject(s) \/ SelectVersion(s) \/ SelectTasks(s)
      PROVE  IAnswer'
  <2>1. CASE FindProject(s)
      BY <2>1 DEF FindProject
  <2>2. CASE SelectProject(s)
      BY <2>2 DEF SelectProject
  <2>3. CASE SelectVersion(s)
      BY <2>3 DEF SelectVersion
  <2>4. CASE SelectTasks(s)
      BY <2>4 DEF SelectTasks
  <2> QED
      BY <1>4, <2>1, <2>2, <2>3, <2>4
<1>5. ASSUME NEW s \in Slots, RecheckStatus(s) \/ CloseRow(s) PROVE IAnswer'
    BY <1>5 DEF RecheckStatus, CloseRow, NotClosable
<1>6. ASSUME NEW s \in Slots, CommitClose(s) PROVE IAnswer'
  <2>1. seen[s].status \in Closable /\ closure = NoClosure
      BY <1>6 DEF CommitClose, IStage, CloseStages, IRow
  <2>2. closure' \in Closures
      BY <1>6, <2>1 DEF CommitClose, Closures, Seen
  <2>3. closure' # NoClosure
      BY <2>2, NoClosureAssumption DEF Closures
  <2>4. Closers' \subseteq {s}
      BY <1>6, <2>1 DEF CommitClose
  <2> QED
      BY <1>6, <2>3, <2>4 DEF CommitClose
<1> QED
    BY <1>1, <1>2, <1>3, <1>4, <1>5, <1>6 DEF Next

\* The invariant holds in every reachable state.
LEMMA Invariance == Spec => []Inv
<1>1. Inv /\ [Next]_vars => Inv'
    BY NextType, NextStage, NextRow, NextPlan, NextAnswer DEF Inv
<1> QED
    BY InitInv, <1>1, PTL DEF Spec

-----------------------------------------------------------------------------
\* Whatever requests race, rows, locks and stages keep their types: the row lock and
\* the tenant lock are only ever held by requests, and an answer is one of a route's.
THEOREM TypeCorrect == Spec => []TypeOK
<1>1. Inv => TypeOK
    BY DEF Inv
<1> QED
    BY Invariance, <1>1, PTL

\* For any requests that race on a project (retrospectiveRoutes.ts and
\* projectLifecycle.ts), at most one closes it, a closed project has its
\* snapshot, and whoever is told of a closure can read one.
THEOREM ClosedOnceHolds == Spec => []ClosedOnce
<1>1. Inv => ClosedOnce
    BY DEF Inv, IAnswer, ClosedOnce
<1> QED
    BY Invariance, <1>1, PTL

\* Closing does not take the tenant lock, yet at most one plan write commits
\* after it (planning routes and task transitions), however many are in flight.
THEOREM OneLateWriteHolds == Spec => []OneLateWrite
<1>1. Inv => OneLateWrite
    BY DEF Inv
<1> QED
    BY Invariance, <1>1, PTL

\* The check of the status and its change are two statements, and other requests
\* may come between; still the status only moves along the lifecycle.
THEOREM StatusMovesHolds == Spec => StatusMoves
<1>1. Inv /\ [Next]_vars => [(<<status, status'>> \in StatusEdges)]_status
  <2> SUFFICES ASSUME Inv, [Next]_vars PROVE [(<<status, status'>> \in StatusEdges)]_status
      OBVIOUS
  <2>1. CASE UNCHANGED vars
      BY <2>1 DEF vars
  <2>2. ASSUME NEW s \in Slots, CommitTransition(s) PROVE <<status, status'>> \in StatusEdges
    <3>1. kind[s] \in Transitions /\ status \in From[kind[s]]
        BY <2>2 DEF CommitTransition, Inv, IStage, TransitionStages, IRow
    <3> QED
        BY <2>2, <3>1 DEF CommitTransition, Transitions, From, Target, StatusEdges
  <2>3. ASSUME NEW s \in Slots, CommitClose(s) PROVE <<status, status'>> \in StatusEdges
      BY <2>3 DEF CommitClose, Inv, IRow, Closable, StatusEdges
  <2>4. ASSUME NEW s \in Slots,
               Send(s) \/ CheckTransition(s) \/ UpdateStatus(s) \/ FindProject(s)
                   \/ SelectProject(s) \/ SelectVersion(s) \/ SelectTasks(s)
                   \/ RecheckStatus(s) \/ CloseRow(s) \/ LockPlan(s) \/ ReadPlan(s)
                   \/ ReadBack(s) \/ CommitPlan(s) \/ Crash(s)
        PROVE  UNCHANGED status
      BY <2>4 DEF Send, CheckTransition, UpdateStatus, FindProject, SelectProject,
                  SelectVersion, SelectTasks, RecheckStatus, CloseRow, LockPlan, ReadPlan,
                  ReadBack, CommitPlan, Crash
  <2> QED
      BY <2>1, <2>2, <2>3, <2>4 DEF Next
<1> QED
    BY Invariance, <1>1, PTL DEF Spec, StatusMoves

\* No request changes a closure snapshot once it is stored, reopening and
\* closing again included.
THEOREM ClosureImmutableHolds == Spec => ClosureImmutable
<1>1. Inv /\ [Next]_vars => [closure = NoClosure]_closure
  <2> SUFFICES ASSUME Inv, [Next]_vars PROVE [closure = NoClosure]_closure
      OBVIOUS
  <2>1. CASE UNCHANGED vars
      BY <2>1 DEF vars
  <2>2. ASSUME NEW s \in Slots, CommitClose(s) PROVE closure = NoClosure
      BY <2>2 DEF CommitClose, Inv, IRow
  <2>3. ASSUME NEW s \in Slots,
               Send(s) \/ CheckTransition(s) \/ UpdateStatus(s) \/ CommitTransition(s)
                   \/ FindProject(s) \/ SelectProject(s) \/ SelectVersion(s) \/ SelectTasks(s)
                   \/ RecheckStatus(s) \/ CloseRow(s) \/ LockPlan(s) \/ ReadPlan(s)
                   \/ ReadBack(s) \/ CommitPlan(s) \/ Crash(s)
        PROVE  UNCHANGED closure
      BY <2>3 DEF Send, CheckTransition, UpdateStatus, CommitTransition, FindProject,
                  SelectProject, SelectVersion, SelectTasks, RecheckStatus, CloseRow,
                  LockPlan, ReadPlan, ReadBack, CommitPlan, Crash
  <2> QED
      BY <2>1, <2>2, <2>3 DEF Next
<1> QED
    BY Invariance, <1>1, PTL DEF Spec, ClosureImmutable
==============================================================================

------------------------ MODULE CallRecordings_proofs ------------------------
(***************************************************************************)
(* Proofs about CallSessions and CallRecordings, for any number of         *)
(* sessions, participants, requests, egresses and failures.                *)
(*                                                                         *)
(* The invariant has three layers: the sessions, whose rows' locks keep a  *)
(* handler's reads fresh; the rows, which belong to one request each until *)
(* they are committed; and the stops, which follow the end of a session.   *)
(***************************************************************************)
EXTENDS CallRecordings, TLAPS

-----------------------------------------------------------------------------
(* The sessions.                                                           *)

\* A session's row is locked by one handler at a time.
OneUpdate == \A r, q \in updating : r.seat[1] = q.seat[1] => r = q

SessionInv ==
    /\ SessionTypeOK
    /\ OneUpdate
    /\ RoomFollowsSession
    /\ ReadsStayFresh

\* What a session that has started can become.
SessionsGoOn ==
    \A s \in Sessions : /\ session[s] = "ended" => session'[s] = "ended"
                        /\ session'[s] = "ended" => session[s] \in {"active", "ended"}

LEMMA SeatType == \A t \in Seats : t[1] \in Sessions
BY SessionAssumption

LEMMA SessionInitInv == ASSUME SessionInit PROVE SessionInv
BY DEF SessionInit, SessionInv, SessionTypeOK, OneUpdate, RoomFollowsSession, ReadsStayFresh,
       Active, States

LEMMA StartSessionKeeps ==
    ASSUME SessionInv, NEW s \in Sessions, StartSession(s)
    PROVE  SessionInv' /\ SessionsGoOn
<1> USE DEF SessionInv, StartSession, SessionTypeOK, IsNext
<1>1. Active' = {s}
    BY DEF Active
<1>2. SessionTypeOK' /\ SessionsGoOn
    BY DEF SessionsGoOn
<1>3. OneUpdate'
    BY DEF OneUpdate
<1>4. RoomFollowsSession'
    BY <1>1 DEF RoomFollowsSession
<1>5. ReadsStayFresh'
    BY SeatType DEF ReadsStayFresh, Updates
<1> QED
    BY <1>2, <1>3, <1>4, <1>5

LEMMA EndSessionKeeps ==
    ASSUME SessionInv, NEW s \in Sessions, EndSession(s)
    PROVE  SessionInv' /\ SessionsGoOn
<1> USE DEF SessionInv, EndSession, SessionTypeOK
<1>1. Active' = {}
    BY DEF Active, RoomFollowsSession
<1>2. SessionTypeOK' /\ SessionsGoOn
    BY DEF SessionsGoOn
<1>3. OneUpdate'
    BY DEF OneUpdate
<1>4. RoomFollowsSession'
    BY <1>1 DEF RoomFollowsSession
<1>5. ReadsStayFresh'
    BY SeatType DEF ReadsStayFresh, Updates, SessionLocked
<1> QED
    BY <1>2, <1>3, <1>4, <1>5

LEMMA LockSessionKeeps ==
    ASSUME SessionInv, NEW seat \in Seats, NEW to \in States, LockSession(seat, to)
    PROVE  SessionInv' /\ SessionsGoOn
<1> USE DEF SessionInv, LockSession, SessionTypeOK
<1>1. SessionTypeOK' /\ SessionsGoOn
    BY DEF SessionsGoOn, Updates
<1>2. OneUpdate'
    BY DEF OneUpdate, SessionLocked
<1>3. RoomFollowsSession'
    BY DEF RoomFollowsSession, Active
<1>4. ReadsStayFresh'
    BY DEF ReadsStayFresh
<1> QED
    BY <1>1, <1>2, <1>3, <1>4

LEMMA CommitUpdateKeeps ==
    ASSUME SessionInv, NEW r \in updating, CommitUpdate(r)
    PROVE  SessionInv' /\ SessionsGoOn
<1> USE DEF SessionInv, CommitUpdate, SessionTypeOK
<1>1. SessionTypeOK' /\ SessionsGoOn
    BY DEF SessionsGoOn, Updates
<1>2. OneUpdate'
    BY DEF OneUpdate
<1>3. RoomFollowsSession'
    BY DEF RoomFollowsSession, Active
<1>4. ReadsStayFresh'
    BY DEF ReadsStayFresh, OneUpdate, Updates
<1> QED
    BY <1>1, <1>2, <1>3, <1>4

LEMMA RollBackUpdateKeeps ==
    ASSUME SessionInv, NEW r \in updating, RollBackUpdate(r)
    PROVE  SessionInv' /\ SessionsGoOn
BY DEF SessionInv, RollBackUpdate, SessionTypeOK, SessionsGoOn, OneUpdate, RoomFollowsSession, Active,
       ReadsStayFresh

LEMMA SessionUnchangedKeeps ==
    ASSUME SessionInv, UNCHANGED sessionVars
    PROVE  SessionInv' /\ SessionsGoOn
BY DEF SessionInv, sessionVars, SessionTypeOK, SessionsGoOn, OneUpdate, RoomFollowsSession, Active,
       ReadsStayFresh

LEMMA SessionStepKeeps ==
    ASSUME SessionInv, SessionStep
    PROVE  SessionInv' /\ SessionsGoOn
<1>1. CASE \E s \in Sessions : StartSession(s)
    BY <1>1, StartSessionKeeps
<1>2. CASE \E t \in Seats : IssueJoinToken(t) \/ UpdateParticipant(t)
    <2>1. \E t \in Seats : \E to \in States : LockSession(t, to)
        BY <1>2 DEF IssueJoinToken, UpdateParticipant, SessionInv, SessionTypeOK, States
    <2> QED
        BY <2>1, LockSessionKeeps
<1>3. CASE \E r \in updating : CommitUpdate(r) \/ RollBackUpdate(r)
    BY <1>3, CommitUpdateKeeps, RollBackUpdateKeeps
<1> QED
    BY <1>1, <1>2, <1>3 DEF SessionStep

-----------------------------------------------------------------------------
(* Types.                                                                  *)

\* What an egress that was handed out can become, and what failures add up to.
EgressesGoOn ==
    \A e \in Egresses : egress[e].state # "unused" =>
        /\ egress'[e].state # "unused"
        /\ egress'[e].session = egress[e].session
        /\ egress'[e].group = egress[e].group
        /\ egress'[e].state = "running" => Running(e)

LEMMA InitType == ASSUME Init PROVE TypeOK
<1>1. SessionTypeOK
    BY SessionInitInv DEF Init, SessionInv
<1>2. egress \in [Egresses -> Egress] /\ row \in [Egresses -> Rows] /\ attachments \in [Egresses -> Nat]
    BY DEF Init, Egress, Unused, EgressStates, Rows, NoRow
<1>3. start \in [Starters -> Starts]
    BY RecordingAssumption DEF Init, Starts, Stages, NewStart
<1>4. hook \in [Deliveries -> Egresses \cup {None}] /\ toStop \in [Handlers -> SUBSET Egresses]
    BY DEF Init
<1>5. faults \in 0 .. MaxFaults
    BY RecordingAssumption DEF Init
<1> QED
    BY <1>1, <1>2, <1>3, <1>4, <1>5 DEF Init, TypeOK

LEMMA FaultEffect ==
    ASSUME TypeOK, NEW es, es \subseteq Egresses, Fault(es) \/ NoFault
    PROVE  faults' \in 0 .. MaxFaults /\ faulted' \subseteq Egresses /\ faulted \subseteq faulted'
BY RecordingAssumption DEF TypeOK, Fault, NoFault

\* An egress that ends keeps its session and its group.
LEMMA EndsEffect ==
    ASSUME TypeOK, NEW e \in Egresses, Running(e), Ends(e)
    PROVE  /\ egress' \in [Egresses -> Egress]
           /\ egress'[e].state \in {"file", "empty"}
           /\ \A f \in Egresses : egress'[f].session = egress[f].session /\ egress'[f].group = egress[f].group
           /\ \A f \in Egresses : f # e => egress'[f] = egress[f]
<1>1. PICK outcome \in {"file", "empty"} : egress' = [egress EXCEPT ![e].state = outcome]
    BY DEF Ends
<1>2. egress[e] \in Egress
    BY DEF TypeOK
<1>3. [egress[e] EXCEPT !.state = outcome] \in Egress
    BY <1>2 DEF Egress, EgressStates
<1> QED
    BY <1>1, <1>2, <1>3 DEF TypeOK, Egress

\* A stop that succeeds ends the egress; one that fails on a running egress is a fault.
LEMMA StopEffect ==
    ASSUME TypeOK, NEW e \in Egresses, NEW ok \in BOOLEAN, StopEgress(e, ok)
    PROVE  /\ egress' \in [Egresses -> Egress]
           /\ faults' \in 0 .. MaxFaults /\ faulted' \subseteq Egresses /\ faulted \subseteq faulted'
           /\ EgressesGoOn
           /\ \A f \in Egresses : egress'[f].state = "running" => Running(f)
           /\ \A f \in Egresses : egress[f].state = "unused" => egress'[f] = egress[f]
           /\ egress'[e].state = "running" => e \in faulted'
<1>1. CASE Running(e) /\ ok
    <2>1. Ends(e) /\ NoFault
        BY <1>1 DEF StopEgress
    <2> QED
        BY <2>1, <1>1, EndsEffect DEF EgressesGoOn, NoFault, TypeOK, Running
<1>2. CASE Running(e) /\ ~ ok
    <2>1. UNCHANGED egress /\ Fault({e})
        BY <1>2 DEF StopEgress
    <2>2. faults' \in 0 .. MaxFaults /\ faulted' \subseteq Egresses /\ faulted \subseteq faulted'
        BY <2>1, FaultEffect
    <2>3. e \in faulted'
        BY <2>1 DEF Fault
    <2> QED
        BY <2>1, <2>2, <2>3 DEF EgressesGoOn, TypeOK, Running
<1>3. CASE ~ Running(e)
    BY <1>3 DEF StopEgress, EgressesGoOn, NoFault, TypeOK, Running
<1> QED
    BY <1>1, <1>2, <1>3

LEMMA NoTracks == 0 \in 0 .. MaxTracks
BY RecordingAssumption

\* A request's record changed in some fields is one again.
LEMMA StartTypes ==
    ASSUME TypeOK, NEW r \in Starters
    PROVE  /\ Finished(r) \in [Starters -> Starts]
           /\ Finished(r)[r] = [stage |-> "over", tracks |-> 0, started |-> {}, orphaned |-> {}]
           /\ \A q \in Starters : q # r => Finished(r)[q] = start[q]
<1>1. [NewStart EXCEPT !.stage = "over"] \in Starts
    BY NoTracks DEF NewStart, Starts, Stages
<1>2. [NewStart EXCEPT !.stage = "over"] = [stage |-> "over", tracks |-> 0, started |-> {}, orphaned |-> {}]
    BY DEF NewStart
<1> QED
    BY <1>1, <1>2 DEF TypeOK, Finished

LEMMA CleanTypes ==
    ASSUME TypeOK, NEW r \in Starters
    PROVE  /\ Clean(r) \in [Starters -> Starts]
           /\ Clean(r)[r] = [start[r] EXCEPT !.stage = "cleaning", !.tracks = 0]
           /\ \A q \in Starters : q # r => Clean(r)[q] = start[q]
<1>1. [start[r] EXCEPT !.stage = "cleaning", !.tracks = 0] \in Starts
    BY NoTracks DEF TypeOK, Starts, Stages
<1>2. Clean(r) = [start EXCEPT ![r] = [start[r] EXCEPT !.stage = "cleaning", !.tracks = 0]]
    BY DEF TypeOK, Clean, Starts
<1> QED
    BY <1>1, <1>2 DEF TypeOK

\* Every step keeps the sessions' invariant; most leave the sessions alone.
LEMMA SessionNext ==
    ASSUME SessionInv, [Next]_vars
    PROVE  SessionInv' /\ SessionsGoOn
<1>1. CASE SessionStep
    BY <1>1, SessionStepKeeps
<1>2. CASE \E s \in Sessions : EndCall(s)
    BY <1>2, EndSessionKeeps DEF EndCall
<1>3. CASE UNCHANGED sessionVars
    BY <1>3, SessionUnchangedKeeps
<1>4. CASE \E s \in Sessions : ListToStop(s)
    BY <1>4, SessionUnchangedKeeps DEF ListToStop, sessionVars
<1>5. CASE \E r \in Starters : StartStep(r) \/ CrashStart(r)
    BY <1>3, <1>5 DEF StartStep, Resolve, BeginStart, StartTrack, CommitStart, CleanTrack,
       RollBackStart, Compensate, CrashStart
<1>6. CASE \E h \in Handlers : StopNext(h) \/ CrashStop(h)
    BY <1>3, <1>6 DEF StopNext, CrashStop
<1>7. CASE \E e \in Egresses : EgressEnds(e) \/ RunJanitor(e) \/ StopTrack(e)
    BY <1>3, <1>7 DEF EgressEnds, RunJanitor, Reap, StopTrack
<1>8. CASE \E d \in Deliveries : ReadRow(d) \/ CloseRow(d) \/ RollBackHook(d)
    BY <1>3, <1>8 DEF ReadRow, CloseRow, RollBackHook
<1>9. CASE UNCHANGED vars
    BY <1>3, <1>9 DEF vars
<1> QED
    BY <1>1, <1>2, <1>4, <1>5, <1>6, <1>7, <1>8, <1>9 DEF Next

\* Of what a step changes, only these are more than a field set to a constant.
LEMMA RecordedType ==
    ASSUME TypeOK, NEW es, NEW c \in BOOLEAN
    PROVE  /\ Recorded(es, c) \in [Egresses -> Rows]
           /\ \A e \in Egresses :
                 /\ e \notin es => Recorded(es, c)[e] = row[e]
                 /\ e \in es => Recorded(es, c)[e] = [status |-> "recording", compensation |-> c]
BY DEF TypeOK, Recorded, NoRow, Rows

LEMMA HandOutType ==
    ASSUME TypeOK, NEW r \in Starters, NEW e \in Egresses, Fresh(e), Started(e, r)
    PROVE  /\ egress' \in [Egresses -> Egress]
           /\ egress[e] = Unused
           /\ egress'[e] = [state |-> "running", session |-> SessionOf[r], group |-> r]
           /\ \A f \in Egresses : f # e => egress'[f] = egress[f]
BY RecordingAssumption DEF TypeOK, Fresh, Started, Egress, EgressStates

LEMMA StartTrackType ==
    ASSUME TypeOK, NEW r \in Starters, StartTrack(r)
    PROVE  \E e \in Egresses :
               /\ egress[e] = Unused
               /\ egress' \in [Egresses -> Egress]
               /\ start' \in [Starters -> Starts]
               /\ faults' \in 0 .. MaxFaults /\ faulted' \subseteq Egresses /\ faulted \subseteq faulted'
               /\ \A f \in Egresses : f # e => egress'[f] = egress[f]
               /\ \A q \in Starters : q # r => start'[q] = start[q]
               /\ start'[r].stage \in {"starting", "cleaning"}
               /\ start'[r].orphaned = start[r].orphaned
               /\ \/ egress'[e] = Unused /\ start'[r].started = start[r].started
                  \/ /\ egress'[e] = [state |-> "running", session |-> SessionOf[r], group |-> r]
                     /\ \/ start'[r].started = start[r].started \cup {e}
                        \/ start'[r].started = start[r].started /\ e \in faulted'
<1>1. PICK e \in Egresses :
           /\ Fresh(e)
           /\ \/ /\ Started(e, r)
                 /\ start' = [start EXCEPT ![r].tracks = @ - 1, ![r].started = @ \cup {e}]
                 /\ NoFault
              \/ start' = Clean(r) /\ UNCHANGED egress /\ Fault({})
              \/ Started(e, r) /\ start' = Clean(r) /\ Fault({e})
              \/ Started(e, r) /\ start' = [Clean(r) EXCEPT ![r].started = @ \cup {e}] /\ Fault({})
    BY DEF StartTrack
<1>2. start[r] \in Starts /\ start[r].stage = "starting" /\ start[r].tracks > 0
    BY DEF StartTrack, TypeOK
<1>3. egress[e] = Unused
    BY <1>1 DEF Fresh
<1>4. CASE /\ Started(e, r)
           /\ start' = [start EXCEPT ![r].tracks = @ - 1, ![r].started = @ \cup {e}]
           /\ NoFault
    <2>1. start[r].tracks - 1 \in 0 .. MaxTracks
        BY <1>2, RecordingAssumption DEF Starts
    <2>2. [start[r] EXCEPT !.tracks = start[r].tracks - 1, !.started = @ \cup {e}] \in Starts
        <3> DEFINE n == start[r].tracks - 1
        <3> HIDE DEF n
        <3>1. n \in 0 .. MaxTracks
            BY <2>1 DEF n
        <3>2. [start[r] EXCEPT !.tracks = n, !.started = @ \cup {e}] \in Starts
            BY <1>2, <3>1 DEF Starts
        <3> QED
            BY <3>2 DEF n
    <2>3. start' = [start EXCEPT ![r] =
                       [start[r] EXCEPT !.tracks = start[r].tracks - 1, !.started = @ \cup {e}]]
        BY <1>4 DEF TypeOK, Starts
    <2>4. /\ start' \in [Starters -> Starts]
          /\ \A q \in Starters : q # r => start'[q] = start[q]
          /\ start'[r] = [start[r] EXCEPT !.tracks = start[r].tracks - 1, !.started = @ \cup {e}]
        BY <2>2, <2>3 DEF TypeOK
    <2>5. /\ start'[r].stage = "starting" /\ start'[r].orphaned = start[r].orphaned
          /\ start'[r].started = start[r].started \cup {e}
        BY <1>2, <2>4 DEF Starts
    <2> QED
        BY <1>1, <1>3, <1>4, <2>4, <2>5, HandOutType DEF NoFault, TypeOK
<1>5. /\ Clean(r)[r].stage = "cleaning" /\ Clean(r)[r].started = start[r].started
      /\ Clean(r)[r].orphaned = start[r].orphaned /\ Clean(r)[r] \in Starts
    BY <1>2, CleanTypes DEF Starts
<1>6. CASE start' = Clean(r) /\ UNCHANGED egress /\ Fault({})
    <2>1. faults' \in 0 .. MaxFaults /\ faulted' \subseteq Egresses /\ faulted \subseteq faulted'
        BY <1>6, FaultEffect
    <2>2. start' \in [Starters -> Starts] /\ \A q \in Starters : q # r => start'[q] = start[q]
        BY <1>6, CleanTypes
    <2>3. egress' \in [Egresses -> Egress] /\ egress'[e] = Unused /\ egress' = egress
        BY <1>3, <1>6 DEF TypeOK
    <2>4. /\ start'[r].stage = "cleaning" /\ start'[r].started = start[r].started
          /\ start'[r].orphaned = start[r].orphaned
        BY <1>5, <1>6
    <2> QED
        BY <1>3, <2>1, <2>2, <2>3, <2>4
<1>7. CASE Started(e, r) /\ start' = Clean(r) /\ Fault({e})
    <2>1. e \in faulted'
        BY <1>7 DEF Fault
    <2>2. faults' \in 0 .. MaxFaults /\ faulted' \subseteq Egresses /\ faulted \subseteq faulted'
        BY <1>7, FaultEffect
    <2>3. start' \in [Starters -> Starts] /\ \A q \in Starters : q # r => start'[q] = start[q]
        BY <1>7, CleanTypes
    <2>4. /\ egress' \in [Egresses -> Egress]
          /\ egress'[e] = [state |-> "running", session |-> SessionOf[r], group |-> r]
          /\ \A f \in Egresses : f # e => egress'[f] = egress[f]
        BY <1>1, <1>7, HandOutType
    <2>5. /\ start'[r].stage = "cleaning" /\ start'[r].started = start[r].started
          /\ start'[r].orphaned = start[r].orphaned
        BY <1>5, <1>7
    <2> QED
        BY <1>3, <2>1, <2>2, <2>3, <2>4, <2>5
<1>8. CASE Started(e, r) /\ start' = [Clean(r) EXCEPT ![r].started = @ \cup {e}] /\ Fault({})
    <2>1. [Clean(r)[r] EXCEPT !.started = @ \cup {e}] \in Starts
        BY <1>5 DEF Starts
    <2>2. start' = [Clean(r) EXCEPT ![r] = [Clean(r)[r] EXCEPT !.started = @ \cup {e}]]
        BY <1>8, CleanTypes DEF Starts
    <2>3. /\ start' \in [Starters -> Starts]
          /\ \A q \in Starters : q # r => start'[q] = start[q]
          /\ start'[r] = [Clean(r)[r] EXCEPT !.started = @ \cup {e}]
        BY <2>1, <2>2, CleanTypes
    <2>4. /\ start'[r].stage = "cleaning" /\ start'[r].orphaned = start[r].orphaned
          /\ start'[r].started = start[r].started \cup {e}
        BY <1>5, <2>3 DEF Starts
    <2> QED
        BY <1>1, <1>3, <1>8, <2>3, <2>4, FaultEffect, HandOutType
<1> QED
    BY <1>1, <1>4, <1>6, <1>7, <1>8

-----------------------------------------------------------------------------
(* The invariant.                                                          *)

Owned(r) == start[r].started \cup start[r].orphaned

InTransaction(r) == start[r].stage \in {"starting", "cleaning"}

RecordedRows == {e \in Egresses : row[e].status = "recording" /\ ~ row[e].compensation}

\* A row is of an egress that was handed out, for a session.
EgressReady ==
    \A e \in Egresses :
        /\ egress[e].state # "unused" => egress[e].session \in Sessions
        /\ row[e].status # "absent" => egress[e].state # "unused"

\* What a request owns was started for its session and its group, and has no row yet.
OwnedReady ==
    \A r \in Starters : \A e \in Owned(r) :
        /\ egress[e].state # "unused"
        /\ egress[e].session = SessionOf[r]
        /\ egress[e].group = r
        /\ row[e].status = "absent"

\* What a request owns in which stage; an orphan that runs is one whose stop failed.
StagesReady ==
    \A r \in Starters :
        /\ ~ InTransaction(r) => start[r].started = {}
        /\ start[r].stage \in {"new", "resolved", "starting"} => start[r].orphaned = {}
        /\ start[r].started \cap start[r].orphaned = {}
        /\ \A e \in start[r].orphaned : Running(e) => e \in faulted

\* A webhook is about an egress that has ended, and a row that is there.
HooksReady ==
    \A d \in Deliveries : hook[d] # None =>
        row[hook[d]].status # "absent" /\ ~ Running(hook[d])

RowsInv ==
    /\ EgressReady
    /\ OwnedReady
    /\ StagesReady
    /\ HooksReady
    /\ AttachedOnce
    /\ NoEgressForgotten

\* The lock: one request of a session at a time, and no recording beside it.
StartsExclude ==
    \A r, q \in Starters :
        InTransaction(r) /\ InTransaction(q) /\ SessionOf[r] = SessionOf[q] => r = q

NothingRecordedYet ==
    \A r \in Starters : InTransaction(r) =>
        \A e \in RecordedRows : egress[e].session # SessionOf[r]

GroupInv ==
    /\ StartsExclude
    /\ NothingRecordedYet
    /\ OneGroupRecords

\* A session that is being closed has ended, and its loop has not begun.
ClosingReady ==
    \A s \in Sessions :
        /\ s \in closing => session[s] = "ended" /\ toStop[s] = {}
        /\ toStop[s] # {} => session[s] = "ended"

\* A row that is given up while its egress runs is one that is about to be stopped.
GivenUpIsStopped ==
    \A e \in Egresses :
        Running(e) /\ row[e].status \in {"ready", "failed"} => e \in faulted \cup Pending

StopsInv ==
    /\ ClosingReady
    /\ GivenUpIsStopped
    /\ EndStopsRecordings

Inv ==
    /\ TypeOK
    /\ SessionInv
    /\ RowsInv
    /\ GroupInv
    /\ StopsInv

LEMMA InitInv == ASSUME Init PROVE Inv
<1>1. TypeOK /\ SessionInv
    BY InitType, SessionInitInv DEF Init
<1>2. /\ \A e \in Egresses : egress[e].state = "unused" /\ row[e].status = "absent" /\ attachments[e] = 0
      /\ \A r \in Starters : start[r].stage = "new" /\ Owned(r) = {} /\ start[r].started = {}
                            /\ start[r].orphaned = {}
      /\ \A d \in Deliveries : hook[d] = None
      /\ closing = {} /\ \A h \in Handlers : toStop[h] = {}
    BY DEF Init, Unused, NoRow, NewStart, Owned
<1>3. EgressReady /\ OwnedReady /\ StagesReady /\ HooksReady /\ AttachedOnce /\ NoEgressForgotten
    BY <1>2 DEF EgressReady, OwnedReady, StagesReady, HooksReady, AttachedOnce, NoEgressForgotten,
       Running
<1>4. GroupInv
    BY <1>2 DEF GroupInv, StartsExclude, NothingRecordedYet, OneGroupRecords, InTransaction, RecordedRows
<1>5. StopsInv
    BY <1>2 DEF StopsInv, ClosingReady, GivenUpIsStopped, EndStopsRecordings, RecordedAfterEnd, Running,
       Handlers
<1> QED
    BY <1>1, <1>3, <1>4, <1>5 DEF Inv, RowsInv

-----------------------------------------------------------------------------
(* Most steps hand out no egress and commit no row.  What such a step must *)
(* not do to the parts of the invariant is said here once.                 *)

\* No row appears or vanishes, and none is in recording again.
RowsGoOn ==
    \A e \in Egresses :
        /\ row'[e].status = "absent" <=> row[e].status = "absent"
        /\ row'[e].status = "recording" => row[e].status = "recording"
        /\ row'[e].compensation = row[e].compensation

\* No egress starts, and faults are remembered.
NothingStarts ==
    /\ EgressesGoOn
    /\ \A e \in Egresses : egress[e].state = "unused" => egress'[e] = egress[e]
    /\ faulted \subseteq faulted'

\* What a request owns it keeps, or it has ended, or was hit by a failure.
OwnersGoOn ==
    \A r \in Starters :
        /\ Owned(r)' \subseteq Owned(r)
        /\ \A e \in Owned(r) \ Owned(r)' : e \in faulted' \/ ~ Running(e)'

LEMMA RowsKept ==
    ASSUME Inv, TypeOK', RowsGoOn, NothingStarts, OwnersGoOn
    PROVE  EgressReady' /\ OwnedReady' /\ NoEgressForgotten'
<1> USE DEF Inv, RowsInv, RowsGoOn, NothingStarts, OwnersGoOn
<1>1. EgressReady'
    BY DEF EgressReady, EgressesGoOn
<1>2. \A r \in Starters : Owned(r) \subseteq Egresses
    BY DEF TypeOK, Starts, Owned
<1>3. OwnedReady'
    BY <1>2 DEF OwnedReady, EgressesGoOn
<1>4. NoEgressForgotten'
    <2> SUFFICES ASSUME NEW e \in Egresses, Running(e)', row'[e].status = "absent", e \notin faulted'
                 PROVE  \E r \in Starters : e \in Owned(r)'
        BY DEF NoEgressForgotten, Owned
    <2>1. Running(e) /\ row[e].status = "absent"
        BY DEF EgressesGoOn, Running
    <2>2. PICK r \in Starters : e \in Owned(r)
        BY <2>1 DEF NoEgressForgotten, Owned
    <2> QED
        BY <2>2
<1> QED
    BY <1>1, <1>3, <1>4

\* The locks and the groups, when no request takes the lock.
LEMMA GroupKept ==
    ASSUME Inv, TypeOK', RowsGoOn, EgressesGoOn, \A r \in Starters : InTransaction(r)' => InTransaction(r)
    PROVE  GroupInv'
<1> USE DEF Inv, GroupInv, RowsGoOn
<1>1. \A e \in RecordedRows' : /\ e \in RecordedRows
                              /\ egress'[e].session = egress[e].session
                              /\ egress'[e].group = egress[e].group
    BY DEF RecordedRows, EgressesGoOn, RowsInv, EgressReady
<1>2. StartsExclude'
    BY DEF StartsExclude
<1>3. NothingRecordedYet'
    BY <1>1 DEF NothingRecordedYet
<1>4. OneGroupRecords'
    BY <1>1 DEF OneGroupRecords, RecordedRows
<1> QED
    BY <1>2, <1>3, <1>4

\* The stops, when no session ends and no loop moves on: the step may only touch
\* rows of egresses that do not run.
LEMMA StopsKept ==
    ASSUME Inv, TypeOK', \A s \in Sessions : session'[s] = "ended" <=> session[s] = "ended",
           UNCHANGED <<closing, toStop>>, late \subseteq late', faulted \subseteq faulted',
           \A e \in Egresses : Running(e)' /\ row'[e].status # "absent" =>
               /\ Running(e)
               /\ row'[e].status = row[e].status
               /\ egress'[e].session = egress[e].session
    PROVE  StopsInv'
<1> USE DEF Inv, StopsInv
<1>1. ClosingReady'
    BY DEF ClosingReady
<1>2. Pending' = Pending
    BY DEF Pending
<1>3. GivenUpIsStopped'
    BY <1>2 DEF GivenUpIsStopped
<1>4. RecordedAfterEnd' \subseteq RecordedAfterEnd
    BY DEF RecordedAfterEnd, RowsInv, EgressReady, Running
<1>5. EndStopsRecordings'
    BY <1>2, <1>4 DEF EndStopsRecordings
<1> QED
    BY <1>1, <1>3, <1>5

\* A step that leaves the rows, the egresses and the requests alone.
LEMMA RecordingsUnchanged ==
    ASSUME Inv, TypeOK', UNCHANGED <<egress, row, attachments, start, faulted>>
    PROVE  /\ EgressReady' /\ OwnedReady' /\ NoEgressForgotten' /\ StagesReady' /\ AttachedOnce'
           /\ GroupInv'
<1>1. RowsGoOn /\ NothingStarts /\ OwnersGoOn
    BY DEF Inv, TypeOK, RowsGoOn, NothingStarts, EgressesGoOn, OwnersGoOn, Owned, Running
<1>2. \A r \in Starters : InTransaction(r)' => InTransaction(r)
    BY DEF InTransaction
<1>3. StagesReady' /\ AttachedOnce'
    BY DEF Inv, RowsInv, StagesReady, AttachedOnce, InTransaction, Running
<1> QED
    BY <1>1, <1>2, <1>3, RowsKept, GroupKept DEF NothingStarts

-----------------------------------------------------------------------------
(* Each action keeps the invariant; SessionInv' is SessionNext's.          *)

LEMMA SessionStepInv ==
    ASSUME Inv, SessionStep, SessionInv'
    PROVE  Inv'
<1>1. UNCHANGED recordingVars
    BY DEF SessionStep
<1>2. TypeOK'
    BY <1>1 DEF recordingVars, TypeOK, Inv, SessionInv
<1>3. \A s \in Sessions : session'[s] = "ended" <=> session[s] = "ended"
    BY DEF SessionStep, StartSession, IsNext, IssueJoinToken, UpdateParticipant, LockSession,
       CommitUpdate, RollBackUpdate, Inv, TypeOK, SessionTypeOK
<1>4. HooksReady'
    BY <1>1 DEF recordingVars, Inv, RowsInv, HooksReady, Running
<1>5. StopsInv'
    BY <1>1, <1>2, <1>3, StopsKept DEF recordingVars, Running
<1> QED
    BY <1>1, <1>2, <1>4, <1>5, RecordingsUnchanged DEF recordingVars, Inv, RowsInv

LEMMA EndCallInv ==
    ASSUME Inv, NEW s \in Sessions, EndCall(s), SessionInv'
    PROVE  Inv'
<1> USE DEF Inv, EndCall
<1>1. TypeOK'
    BY DEF TypeOK, SessionInv
<1>2. HooksReady'
    BY DEF RowsInv, HooksReady, Running
<1>3. \A t \in Sessions : session'[t] = "ended" <=> session[t] = "ended" \/ t = s
    BY DEF EndSession, TypeOK, SessionTypeOK
<1>4. ClosingReady'
    <2>1. session[s] = "active" /\ s \in Handlers
        BY DEF EndSession, Handlers
    <2>2. toStop[s] = {}
        BY <2>1 DEF StopsInv, ClosingReady
    <2> QED
        BY <2>2, <1>3 DEF StopsInv, ClosingReady
<1>5. GivenUpIsStopped'
    BY DEF StopsInv, GivenUpIsStopped, Running, Pending
<1>6. RecordedAfterEnd' \subseteq RecordedAfterEnd
    BY <1>3 DEF RecordedAfterEnd, Running, RowsInv, EgressReady
<1>7. EndStopsRecordings'
    BY <1>6 DEF StopsInv, EndStopsRecordings, Pending
<1> QED
    BY <1>1, <1>2, <1>4, <1>5, <1>7, RecordingsUnchanged DEF RowsInv, StopsInv

LEMMA ListToStopInv ==
    ASSUME Inv, NEW s \in Sessions, ListToStop(s), SessionInv'
    PROVE  Inv'
<1> USE DEF Inv, ListToStop
<1>1. s \in Handlers /\ toStop[s] = {} /\ session[s] = "ended" /\ session' = session
    BY DEF Handlers, StopsInv, ClosingReady, sessionVars
<1>2. \A h \in Handlers : toStop'[h] = IF h = s THEN SessionRows(s) ELSE toStop[h]
    BY DEF TypeOK
<1>3. Pending' = Pending \cup SessionRows(s)
    BY <1>1, <1>2 DEF Pending
<1>4. TypeOK'
    <2>1. SessionRows(s) \subseteq Egresses
        BY DEF SessionRows
    <2> QED
        BY <2>1 DEF TypeOK, SessionInv
<1>5. HooksReady'
    BY DEF RowsInv, HooksReady, Running
<1>6. ClosingReady'
    BY <1>1, <1>2 DEF StopsInv, ClosingReady, Handlers
<1>7. GivenUpIsStopped'
    BY <1>3 DEF StopsInv, GivenUpIsStopped, Running
<1>8. ASSUME NEW e \in RecordedAfterEnd', e \notin faulted'
      PROVE  e \in late' \cup Pending'
    <2>1. e \in Egresses /\ Running(e) /\ row[e].status # "absent"
        BY <1>8 DEF RecordedAfterEnd, Running
    <2>2. CASE egress[e].session = s
        <3>1. CASE row[e].status = "recording"
            BY <2>1, <2>2, <3>1, <1>3 DEF SessionRows
        <3>2. CASE row[e].status # "recording"
            BY <2>1, <3>2, <1>3, <1>8 DEF StopsInv, GivenUpIsStopped, TypeOK, Rows
        <3> QED
            BY <3>1, <3>2
    <2>3. CASE egress[e].session # s
        BY <2>3, <1>1, <1>3, <1>8 DEF RecordedAfterEnd, Running, StopsInv, EndStopsRecordings
    <2> QED
        BY <2>2, <2>3
<1>9. EndStopsRecordings'
    BY <1>8 DEF EndStopsRecordings
<1> QED
    BY <1>4, <1>5, <1>6, <1>7, <1>9, RecordingsUnchanged DEF RowsInv, StopsInv

\* A request that only moves on: it owns nothing before or after.
LEMMA ResolveInv ==
    ASSUME Inv, NEW r \in Starters, Resolve(r), SessionInv'
    PROVE  Inv'
<1> USE DEF Inv, Resolve
<1>1. /\ start'[r] = [start[r] EXCEPT !.stage = "resolved"] /\ start[r].stage = "new"
      /\ \A q \in Starters : q # r => start'[q] = start[q]
    BY DEF TypeOK
<1>2. start' \in [Starters -> Starts]
    BY DEF TypeOK, Starts, Stages
<1>3. TypeOK'
    BY <1>2 DEF TypeOK, SessionInv
<1>4. /\ start'[r].stage = "resolved" /\ start'[r].started = start[r].started
      /\ start'[r].orphaned = start[r].orphaned
    BY <1>1 DEF TypeOK, Starts
<1>5. RowsGoOn /\ NothingStarts /\ OwnersGoOn
    BY <1>1, <1>4 DEF TypeOK, RowsGoOn, NothingStarts, EgressesGoOn, OwnersGoOn, Owned, Running
<1>6. StagesReady'
    BY <1>1, <1>4 DEF RowsInv, StagesReady, InTransaction, Running
<1>7. HooksReady' /\ AttachedOnce'
    BY DEF RowsInv, HooksReady, Running, AttachedOnce
<1>8. GroupInv'
    BY <1>1, <1>3, <1>4, <1>5, GroupKept DEF InTransaction, NothingStarts
<1>9. StopsInv'
    BY <1>3, StopsKept DEF sessionVars, Running
<1> QED
    BY <1>3, <1>5, <1>6, <1>7, <1>8, <1>9, RowsKept DEF RowsInv

LEMMA BeginStartInv ==
    ASSUME Inv, NEW r \in Starters, BeginStart(r), SessionInv'
    PROVE  Inv'
<1> USE DEF Inv
<1>1. /\ start[r].stage = "resolved" /\ ~ StartLocked(SessionOf[r])
      /\ UNCHANGED <<sessionVars, egress, row, attachments, closing, toStop, hook, faults, faulted, late>>
    BY DEF BeginStart
<1>2. start[r].started = {} /\ start[r].orphaned = {}
    BY <1>1 DEF RowsInv, StagesReady, InTransaction
<1>3. /\ start' \in [Starters -> Starts]
      /\ \A q \in Starters : q # r => start'[q] = start[q]
      /\ start'[r].started = {} /\ start'[r].orphaned = {}
      /\ \/ start'[r].stage = "over"
         \/ start'[r].stage = "starting" /\ SessionRows(SessionOf[r]) = {}
    <2>1. CASE start' = Finished(r)
        BY <2>1, StartTypes
    <2>2. ASSUME SessionRows(SessionOf[r]) = {}, NEW n \in 1 .. MaxTracks,
                 start' = [start EXCEPT ![r].stage = "starting", ![r].tracks = n]
          PROVE  /\ start' \in [Starters -> Starts]
                 /\ \A q \in Starters : q # r => start'[q] = start[q]
                 /\ start'[r].started = {} /\ start'[r].orphaned = {}
                 /\ start'[r].stage = "starting"
        <3>1. start' = [start EXCEPT ![r] = [start[r] EXCEPT !.stage = "starting", !.tracks = n]]
            BY <2>2 DEF TypeOK, Starts
        <3>2. n \in 0 .. MaxTracks
            BY RecordingAssumption
        <3>3. [start[r] EXCEPT !.stage = "starting", !.tracks = n] \in Starts
            BY <3>2 DEF TypeOK, Starts, Stages
        <3> QED
            BY <1>2, <3>1, <3>3 DEF TypeOK, Starts
    <2> QED
        BY <2>1, <2>2 DEF BeginStart
<1>4. TypeOK'
    BY <1>1, <1>3 DEF TypeOK, SessionInv
<1>5. RowsGoOn /\ NothingStarts /\ OwnersGoOn
    BY <1>1, <1>2, <1>3 DEF TypeOK, RowsGoOn, NothingStarts, EgressesGoOn, OwnersGoOn, Owned, Running
<1>6. StagesReady'
    BY <1>1, <1>3 DEF RowsInv, StagesReady, InTransaction, Running
<1>7. HooksReady' /\ AttachedOnce'
    BY <1>1 DEF RowsInv, HooksReady, Running, AttachedOnce
<1>8. GroupInv'
    <2>1. StartsExclude'
        BY <1>1, <1>3 DEF GroupInv, StartsExclude, StartLocked, InTransaction
    <2>2. NothingRecordedYet'
        BY <1>1, <1>3 DEF GroupInv, NothingRecordedYet, RecordedRows, SessionRows, InTransaction
    <2>3. OneGroupRecords'
        BY <1>1 DEF GroupInv, OneGroupRecords
    <2> QED
        BY <2>1, <2>2, <2>3 DEF GroupInv
<1>9. StopsInv'
    BY <1>1, <1>4, StopsKept DEF sessionVars, Running
<1> QED
    BY <1>4, <1>5, <1>6, <1>7, <1>8, <1>9, RowsKept DEF RowsInv

LEMMA StartTrackInv ==
    ASSUME Inv, NEW r \in Starters, StartTrack(r), SessionInv'
    PROVE  Inv'
<1> USE DEF Inv
<1>1. /\ start[r].stage = "starting"
      /\ UNCHANGED <<sessionVars, row, attachments, closing, toStop, hook, late>>
    BY DEF StartTrack
<1>2. PICK e \in Egresses :
           /\ egress[e] = Unused
           /\ egress' \in [Egresses -> Egress]
           /\ start' \in [Starters -> Starts]
           /\ faults' \in 0 .. MaxFaults /\ faulted' \subseteq Egresses /\ faulted \subseteq faulted'
           /\ \A f \in Egresses : f # e => egress'[f] = egress[f]
           /\ \A q \in Starters : q # r => start'[q] = start[q]
           /\ start'[r].stage \in {"starting", "cleaning"}
           /\ start'[r].orphaned = start[r].orphaned
           /\ \/ egress'[e] = Unused /\ start'[r].started = start[r].started
              \/ /\ egress'[e] = [state |-> "running", session |-> SessionOf[r], group |-> r]
                 /\ \/ start'[r].started = start[r].started \cup {e}
                    \/ start'[r].started = start[r].started /\ e \in faulted'
    BY StartTrackType
<1>3. TypeOK'
    BY <1>1, <1>2 DEF TypeOK, SessionInv
<1>4. row[e].status = "absent" /\ \A q \in Starters : e \notin Owned(q)
    BY <1>2 DEF RowsInv, EgressReady, OwnedReady, Unused
<1>5. \A f \in Egresses : egress[f].state # "unused" => egress'[f] = egress[f]
    BY <1>2 DEF Unused
<1>6. EgressesGoOn
    BY <1>5 DEF EgressesGoOn, Running
<1>7. start[r].orphaned = {}
    BY <1>1 DEF RowsInv, StagesReady
<1>8. EgressReady'
    <2>1. SessionOf[r] \in Sessions
        BY RecordingAssumption
    <2>2. egress'[e].state # "unused" => egress'[e].session \in Sessions
        BY <1>2, <2>1 DEF Unused
    <2> QED
        BY <1>1, <1>2, <1>4, <2>2 DEF RowsInv, EgressReady
<1>9. OwnedReady'
    <2> SUFFICES ASSUME NEW q \in Starters, NEW f \in Owned(q)'
                 PROVE  /\ egress'[f].state # "unused"
                        /\ egress'[f].session = SessionOf[q]
                        /\ egress'[f].group = q
                        /\ row'[f].status = "absent"
        BY DEF OwnedReady
    <2>1. f \in Egresses
        BY <1>2 DEF Owned, Starts
    <2>2. CASE f \in Owned(q)
        BY <2>1, <2>2, <1>1, <1>5 DEF RowsInv, OwnedReady
    <2>3. CASE f \notin Owned(q)
        <3>1. q = r /\ f = e /\ egress'[e] = [state |-> "running", session |-> SessionOf[r], group |-> r]
            BY <2>3, <1>2 DEF Owned
        <3> QED
            BY <3>1, <1>1, <1>4
    <2> QED
        BY <2>2, <2>3
<1>10. StagesReady'
    <2>1. \A q \in Starters : q # r =>
              /\ ~ InTransaction(q)' => start'[q].started = {}
              /\ start'[q].stage \in {"new", "resolved", "starting"} => start'[q].orphaned = {}
              /\ start'[q].started \cap start'[q].orphaned = {}
        BY <1>2 DEF RowsInv, StagesReady, InTransaction
    <2>2. ASSUME NEW q \in Starters, NEW f \in start'[q].orphaned, Running(f)'
          PROVE  f \in faulted'
        <3>1. f \in start[q].orphaned /\ q # r
            BY <2>2, <1>2, <1>7
        <3>2. f \in Egresses /\ egress[f].state # "unused"
            BY <3>1 DEF RowsInv, OwnedReady, Owned, TypeOK, Starts
        <3> QED
            BY <2>2, <3>1, <3>2, <1>2, <1>5 DEF RowsInv, StagesReady, Running
    <2>3. InTransaction(r)' /\ start'[r].orphaned = {}
        BY <1>2, <1>7 DEF InTransaction
    <2> QED
        BY <2>1, <2>2, <2>3 DEF StagesReady, InTransaction
<1>11. HooksReady'
    <2> SUFFICES ASSUME NEW d \in Deliveries, hook[d] # None
                 PROVE  row[hook[d]].status # "absent" /\ egress'[hook[d]].state # "running"
        BY <1>1 DEF HooksReady, Running
    <2>1. hook[d] \in Egresses /\ row[hook[d]].status # "absent" /\ ~ Running(hook[d])
        BY DEF RowsInv, HooksReady, TypeOK
    <2>2. egress[hook[d]].state # "unused"
        BY <2>1 DEF RowsInv, EgressReady
    <2> QED
        BY <2>1, <2>2, <1>5 DEF Running
<1>12. AttachedOnce'
    BY <1>1 DEF RowsInv, AttachedOnce
<1>13. NoEgressForgotten'
    <2> SUFFICES ASSUME NEW f \in Egresses, Running(f)', row[f].status = "absent", f \notin faulted'
                 PROVE  \E q \in Starters : f \in Owned(q)'
        BY <1>1 DEF NoEgressForgotten, Owned
    <2>1. CASE f = e
        BY <2>1, <1>2 DEF Owned, Unused, Running
    <2>2. CASE f # e
        <3>1. Running(f) /\ f \notin faulted
            BY <2>2, <1>2 DEF Running
        <3>2. PICK q \in Starters : f \in Owned(q)
            BY <3>1 DEF RowsInv, NoEgressForgotten, Owned
        <3> QED
            BY <3>2, <1>2 DEF Owned
    <2> QED
        BY <2>1, <2>2
<1>14. GroupInv'
    <2>1. RowsGoOn
        BY <1>1 DEF RowsGoOn
    <2>2. \A q \in Starters : InTransaction(q)' => InTransaction(q)
        BY <1>1, <1>2 DEF InTransaction
    <2> QED
        BY <2>1, <2>2, <1>3, <1>6, GroupKept
<1>15. StopsInv'
    <2>1. \A f \in Egresses : Running(f)' /\ row'[f].status # "absent" =>
               /\ Running(f)
               /\ row'[f].status = row[f].status
               /\ egress'[f].session = egress[f].session
        BY <1>1, <1>2, <1>4 DEF Running
    <2> QED
        BY <2>1, <1>1, <1>2, <1>3, StopsKept DEF sessionVars
<1> QED
    BY <1>3, <1>8, <1>9, <1>10, <1>11, <1>12, <1>13, <1>14, <1>15 DEF RowsInv

\* The rows of a request appear, all at once or one orphan at a time: what it
\* owned it owns no longer.
LEMMA RowsAppear ==
    ASSUME Inv, TypeOK', NEW r \in Starters, NEW es, es \subseteq Owned(r), NEW c \in BOOLEAN,
           row' = Recorded(es, c), UNCHANGED <<egress, attachments, hook>>, faulted \subseteq faulted',
           Owned(r)' = Owned(r) \ es, \A q \in Starters : q # r => start'[q] = start[q]
    PROVE  EgressReady' /\ OwnedReady' /\ HooksReady' /\ AttachedOnce' /\ NoEgressForgotten'
<1> USE DEF Inv, RowsInv
<1>1. \A e \in Egresses :
          /\ e \notin es => row'[e] = row[e]
          /\ e \in es => row'[e] = [status |-> "recording", compensation |-> c]
    BY RecordedType
<1>2. \A e \in es : e \in Egresses /\ row[e].status = "absent" /\ egress[e].state # "unused"
                   /\ egress[e].group = r
    BY DEF OwnedReady, TypeOK, Starts, Owned
<1>3. EgressReady'
    BY <1>1, <1>2 DEF EgressReady
<1>4. \A q \in Starters : q # r => Owned(q)' = Owned(q) /\ Owned(q) \cap es = {}
    BY <1>2 DEF OwnedReady, Owned
<1>5. OwnedReady'
    <2>1. \A q \in Starters : Owned(q)' = Owned(q) \ es
        BY <1>4
    <2>2. \A q \in Starters : Owned(q) \subseteq Egresses
        BY DEF TypeOK, Starts, Owned
    <2> QED
        BY <2>1, <2>2, <1>1 DEF OwnedReady
<1>6. HooksReady'
    BY <1>1 DEF HooksReady, TypeOK, Running
<1>7. AttachedOnce'
    BY <1>1, <1>2 DEF AttachedOnce
<1>8. NoEgressForgotten'
    <2> SUFFICES ASSUME NEW e \in Egresses, Running(e), row'[e].status = "absent", e \notin faulted'
                 PROVE  \E q \in Starters : e \in Owned(q)'
        BY DEF NoEgressForgotten, Owned, Running
    <2>1. e \notin es /\ row[e].status = "absent"
        BY <1>1
    <2>2. PICK q \in Starters : e \in Owned(q)
        BY <2>1 DEF NoEgressForgotten, Owned
    <2> QED
        BY <2>1, <2>2, <1>4
<1> QED
    BY <1>3, <1>5, <1>6, <1>7, <1>8

LEMMA CommitStartInv ==
    ASSUME Inv, NEW r \in Starters, CommitStart(r), SessionInv'
    PROVE  Inv'
<1> USE DEF Inv
<1> DEFINE es == start[r].started
<1>1. /\ start[r].stage = "starting" /\ start[r].orphaned = {}
      /\ UNCHANGED <<sessionVars, egress, attachments, closing, toStop, hook>>
    BY DEF CommitStart, RowsInv, StagesReady
<1>2. es \subseteq Egresses /\ es = Owned(r)
    BY <1>1 DEF TypeOK, Starts, Owned
<1>3. CASE /\ row' = Recorded(es, FALSE)
           /\ late' = IF session[SessionOf[r]] = "ended" THEN late \cup es ELSE late
           /\ start' = Finished(r)
           /\ NoFault
    <2>1. /\ start' \in [Starters -> Starts]
          /\ start'[r] = [stage |-> "over", tracks |-> 0, started |-> {}, orphaned |-> {}]
          /\ \A q \in Starters : q # r => start'[q] = start[q]
        BY <1>3, StartTypes
    <2>2. /\ row' \in [Egresses -> Rows]
          /\ \A e \in Egresses :
                /\ e \notin es => row'[e] = row[e]
                /\ e \in es => row'[e] = [status |-> "recording", compensation |-> FALSE]
        BY <1>3, RecordedType
    <2>3. TypeOK'
        BY <1>1, <1>2, <1>3, <2>1, <2>2 DEF TypeOK, SessionInv, NoFault
    <2>4. EgressReady' /\ OwnedReady' /\ HooksReady' /\ AttachedOnce' /\ NoEgressForgotten'
        <3>1. Owned(r)' = Owned(r) \ es
            BY <1>2, <2>1 DEF Owned
        <3>2. faulted \subseteq faulted'
            BY <1>3 DEF NoFault
        <3> HIDE DEF es
        <3> QED
            BY <1>1, <1>2, <1>3, <2>1, <2>3, <3>1, <3>2, RowsAppear
    <2>5. StagesReady'
        BY <1>1, <1>3, <2>1 DEF RowsInv, StagesReady, InTransaction, Running, NoFault
    <2>6. GroupInv'
        <3>1. RecordedRows' = RecordedRows \cup es
            BY <1>2, <2>2 DEF RecordedRows
        <3>2. \A e \in es : egress[e].session = SessionOf[r] /\ egress[e].group = r
            BY <1>2 DEF RowsInv, OwnedReady
        <3>3. InTransaction(r) /\ ~ InTransaction(r)'
            BY <1>1, <2>1 DEF InTransaction
        <3>4. \A q \in Starters : InTransaction(q)' => q # r /\ InTransaction(q)
            BY <2>1, <3>3 DEF InTransaction
        <3>5. StartsExclude'
            BY <3>4 DEF GroupInv, StartsExclude
        <3>6. \A q \in Starters : InTransaction(q)' => SessionOf[q] # SessionOf[r]
            BY <3>3, <3>4 DEF GroupInv, StartsExclude
        <3>7. NothingRecordedYet'
            BY <1>1, <3>1, <3>2, <3>4, <3>6 DEF GroupInv, NothingRecordedYet
        <3>8. \A e \in RecordedRows : egress[e].session # SessionOf[r]
            BY <3>3 DEF GroupInv, NothingRecordedYet
        <3>9. \A e, f \in RecordedRows' :
                  egress[e].session = egress[f].session => egress[e].group = egress[f].group
            BY <3>1, <3>2, <3>8 DEF GroupInv, OneGroupRecords, RecordedRows
        <3>10. OneGroupRecords'
            BY <1>1, <3>9 DEF OneGroupRecords, RecordedRows
        <3> QED
            BY <3>5, <3>7, <3>10 DEF GroupInv
    <2>7. StopsInv'
        <3>1. ClosingReady' /\ Pending' = Pending
            BY <1>1 DEF StopsInv, ClosingReady, sessionVars, Pending
        <3>2. GivenUpIsStopped'
            <4>1. \A e \in Egresses :
                      row'[e].status \in {"ready", "failed"} => row[e].status \in {"ready", "failed"}
                BY <2>2
            <4>2. faulted' = faulted /\ egress' = egress
                BY <1>1, <1>3 DEF NoFault
            <4> QED
                BY <3>1, <4>1, <4>2 DEF StopsInv, GivenUpIsStopped, Running
        <3>3. ASSUME NEW e \in RecordedAfterEnd'
              PROVE  e \in faulted \cup late' \cup Pending
            <4>1. CASE e \in es
                <5>1. egress[e].session = SessionOf[r]
                    BY <4>1, <1>2 DEF RowsInv, OwnedReady
                <5> QED
                    BY <4>1, <5>1, <1>1, <1>3, <3>3 DEF RecordedAfterEnd, sessionVars
            <4>2. CASE e \notin es
                BY <4>2, <1>1, <1>3, <2>2, <3>3
                DEF RecordedAfterEnd, sessionVars, Running, StopsInv, EndStopsRecordings
            <4> QED
                BY <4>1, <4>2
        <3>4. EndStopsRecordings'
            BY <1>3, <3>1, <3>3 DEF EndStopsRecordings, NoFault
        <3> QED
            BY <3>1, <3>2, <3>4 DEF StopsInv
    <2> QED
        BY <2>3, <2>4, <2>5, <2>6, <2>7 DEF RowsInv
<1>4. ASSUME UNCHANGED <<row, late>>, start' = Clean(r) \/ start' = Finished(r),
             start' = Clean(r) => Fault({}), start' = Finished(r) => Fault(es)
      PROVE  Inv'
    <2>1. /\ start' \in [Starters -> Starts]
          /\ \A q \in Starters : q # r => start'[q] = start[q]
          /\ start'[r].orphaned = {}
          /\ \/ start'[r].stage = "cleaning" /\ start'[r].started = es
             \/ start'[r].stage = "over" /\ start'[r].started = {} /\ es \subseteq faulted'
        <3>1. CASE start' = Clean(r)
            <4>1. start[r] \in Starts
                BY DEF TypeOK
            <4>2. start'[r] = [start[r] EXCEPT !.stage = "cleaning", !.tracks = 0]
                BY <3>1, CleanTypes
            <4>3. start'[r].stage = "cleaning" /\ start'[r].started = es /\ start'[r].orphaned = {}
                BY <1>1, <4>1, <4>2 DEF Starts
            <4>4. start' \in [Starters -> Starts] /\ \A q \in Starters : q # r => start'[q] = start[q]
                BY <3>1, CleanTypes
            <4> QED
                BY <4>3, <4>4
        <3>2. CASE start' = Finished(r)
            BY <3>2, <1>4, StartTypes DEF Fault
        <3> QED
            BY <1>4, <3>1, <3>2
    <2>2. faults' \in 0 .. MaxFaults /\ faulted' \subseteq Egresses /\ faulted \subseteq faulted'
        BY <1>2, <1>4, FaultEffect
    <2>3. TypeOK'
        BY <1>1, <1>4, <2>1, <2>2 DEF TypeOK, SessionInv
    <2>4. RowsGoOn /\ NothingStarts
        BY <1>1, <1>4, <2>2 DEF RowsGoOn, NothingStarts, EgressesGoOn, Running
    <2>5. OwnersGoOn
        BY <1>1, <1>2, <2>1 DEF OwnersGoOn, Owned
    <2>6. StagesReady'
        BY <1>1, <2>1, <2>2 DEF RowsInv, StagesReady, InTransaction, Running
    <2>7. HooksReady' /\ AttachedOnce'
        BY <1>1, <1>4 DEF RowsInv, HooksReady, AttachedOnce, Running
    <2>8. GroupInv'
        <3>1. \A q \in Starters : InTransaction(q)' => InTransaction(q)
            BY <1>1, <2>1 DEF InTransaction
        <3> QED
            BY <3>1, <2>3, <2>4, GroupKept DEF NothingStarts
    <2>9. StopsInv'
        BY <1>1, <1>4, <2>2, <2>3, StopsKept DEF sessionVars, Running
    <2> QED
        BY <2>3, <2>4, <2>5, <2>6, <2>7, <2>8, <2>9, RowsKept DEF RowsInv
<1>5. \/ /\ row' = Recorded(es, FALSE)
         /\ late' = IF session[SessionOf[r]] = "ended" THEN late \cup es ELSE late
         /\ start' = Finished(r)
         /\ NoFault
      \/ /\ UNCHANGED <<row, late>>
         /\ start' = Clean(r) \/ start' = Finished(r)
         /\ start' = Clean(r) => Fault({})
         /\ start' = Finished(r) => Fault(es)
    <2>1. Clean(r) # Finished(r)
        <3>1. Clean(r)[r].stage = "cleaning"
            BY CleanTypes DEF TypeOK, Starts
        <3>2. Finished(r)[r].stage = "over"
            BY StartTypes
        <3> QED
            BY <3>1, <3>2
    <2> QED
        BY <2>1 DEF CommitStart
<1> QED
    BY <1>3, <1>4, <1>5

LEMMA CleanTrackInv ==
    ASSUME Inv, NEW r \in Starters, CleanTrack(r), SessionInv'
    PROVE  Inv'
<1> USE DEF Inv
<1>1. PICK e \in start[r].started, ok \in BOOLEAN :
          /\ StopEgress(e, ok)
          /\ start' = [start EXCEPT ![r].started = @ \ {e},
                                    ![r].orphaned = IF ok THEN @ ELSE @ \cup {e}]
    BY DEF CleanTrack
<1>2. /\ start[r].stage = "cleaning" /\ e \in Egresses /\ start[r] \in Starts
      /\ UNCHANGED <<sessionVars, row, attachments, closing, toStop, hook, late>>
    BY DEF CleanTrack, TypeOK, Starts
<1>3. /\ egress' \in [Egresses -> Egress]
      /\ faults' \in 0 .. MaxFaults /\ faulted' \subseteq Egresses /\ faulted \subseteq faulted'
      /\ EgressesGoOn
      /\ \A f \in Egresses : egress'[f].state = "running" => Running(f)
      /\ \A f \in Egresses : egress[f].state = "unused" => egress'[f] = egress[f]
      /\ egress'[e].state = "running" => e \in faulted'
    BY <1>1, <1>2, StopEffect
<1>4. /\ start' \in [Starters -> Starts]
      /\ \A q \in Starters : q # r => start'[q] = start[q]
      /\ start'[r].stage = "cleaning" /\ start'[r].started = start[r].started \ {e}
      /\ start'[r].orphaned \subseteq start[r].orphaned \cup {e}
      /\ start[r].orphaned \subseteq start'[r].orphaned
    <2> DEFINE orphans == IF ok THEN start[r].orphaned ELSE start[r].orphaned \cup {e}
    <2>1. start' = [start EXCEPT ![r] = [start[r] EXCEPT !.started = start[r].started \ {e}, !.orphaned = orphans]]
        BY <1>1, <1>2 DEF TypeOK, Starts
    <2>2. orphans \subseteq Egresses
        BY <1>2 DEF Starts
    <2>3. orphans \subseteq start[r].orphaned \cup {e} /\ start[r].orphaned \subseteq orphans
        OBVIOUS
    <2> HIDE DEF orphans
    <2>4. [start[r] EXCEPT !.started = start[r].started \ {e}, !.orphaned = orphans] \in Starts
        BY <1>2, <2>2 DEF Starts
    <2> QED
        BY <1>2, <2>1, <2>3, <2>4 DEF TypeOK, Starts
<1>5. TypeOK'
    BY <1>2, <1>3, <1>4 DEF TypeOK, SessionInv
<1>6. RowsGoOn /\ NothingStarts
    BY <1>2, <1>3 DEF RowsGoOn, NothingStarts
<1>7. OwnersGoOn
    BY <1>3, <1>4 DEF OwnersGoOn, Owned, Running
<1>8. StagesReady'
    <2>1. \A f \in start[r].orphaned : f \in Egresses
        BY <1>2 DEF Starts
    <2>2. \A f \in start'[r].orphaned : Running(f)' => f \in faulted'
        BY <2>1, <1>3, <1>4 DEF RowsInv, StagesReady, Running
    <2>3. \A q \in Starters : \A f \in start[q].orphaned : f \in Egresses
        BY DEF TypeOK, Starts
    <2>4. \A q \in Starters : q # r =>
              \A f \in start'[q].orphaned : Running(f)' => f \in faulted'
        BY <2>3, <1>3, <1>4 DEF RowsInv, StagesReady, Running
    <2> QED
        BY <2>2, <2>4, <1>2, <1>4 DEF RowsInv, StagesReady, InTransaction
<1>9. HooksReady' /\ AttachedOnce'
    BY <1>2, <1>3 DEF RowsInv, HooksReady, AttachedOnce, Running, TypeOK
<1>10. GroupInv'
    <2>1. \A q \in Starters : InTransaction(q)' => InTransaction(q)
        BY <1>2, <1>4 DEF InTransaction
    <2> QED
        BY <2>1, <1>3, <1>5, <1>6, GroupKept
<1>11. StopsInv'
    <2>1. \A f \in Egresses : Running(f)' /\ row'[f].status # "absent" =>
              Running(f) /\ row'[f].status = row[f].status /\ egress'[f].session = egress[f].session
        BY <1>2, <1>3 DEF EgressesGoOn, Running
    <2> QED
        BY <2>1, <1>2, <1>3, <1>5, StopsKept DEF sessionVars
<1> QED
    BY <1>5, <1>6, <1>7, <1>8, <1>9, <1>10, <1>11, RowsKept DEF RowsInv

LEMMA RollBackStartInv ==
    ASSUME Inv, NEW r \in Starters, RollBackStart(r), SessionInv'
    PROVE  Inv'
<1> USE DEF Inv
<1>1. /\ start[r].stage = "cleaning" /\ start[r].started = {} /\ start[r] \in Starts
      /\ UNCHANGED <<sessionVars, egress, row, attachments, closing, toStop, hook, faults, faulted, late>>
    BY DEF RollBackStart, TypeOK
<1>2. /\ start' \in [Starters -> Starts]
      /\ \A q \in Starters : q # r => start'[q] = start[q]
      /\ start'[r].stage = "over" /\ start'[r].started = {}
      /\ start'[r].orphaned = start[r].orphaned
    <2>1. [start[r] EXCEPT !.stage = "over"] \in Starts
        BY <1>1 DEF Starts, Stages
    <2>2. start' = [start EXCEPT ![r] = [start[r] EXCEPT !.stage = "over"]]
        BY DEF RollBackStart, TypeOK
    <2> QED
        BY <1>1, <2>1, <2>2 DEF TypeOK, Starts
<1>3. TypeOK'
    BY <1>1, <1>2 DEF TypeOK, SessionInv
<1>4. RowsGoOn /\ NothingStarts /\ OwnersGoOn
    BY <1>1, <1>2 DEF RowsGoOn, NothingStarts, EgressesGoOn, OwnersGoOn, Owned, Running
<1>5. StagesReady'
    BY <1>1, <1>2 DEF RowsInv, StagesReady, InTransaction, Running
<1>6. HooksReady' /\ AttachedOnce'
    BY <1>1 DEF RowsInv, HooksReady, AttachedOnce, Running
<1>7. GroupInv'
    <2>1. \A q \in Starters : InTransaction(q)' => InTransaction(q)
        BY <1>1, <1>2 DEF InTransaction
    <2> QED
        BY <2>1, <1>3, <1>4, GroupKept DEF NothingStarts
<1>8. StopsInv'
    BY <1>1, <1>3, StopsKept DEF sessionVars, Running
<1> QED
    BY <1>3, <1>4, <1>5, <1>6, <1>7, <1>8, RowsKept DEF RowsInv

LEMMA CompensateInv ==
    ASSUME Inv, NEW r \in Starters, Compensate(r), SessionInv'
    PROVE  Inv'
<1> USE DEF Inv
<1>1. PICK e \in start[r].orphaned :
          /\ start' = [start EXCEPT ![r].orphaned = @ \ {e}]
          /\ \/ row' = Recorded({e}, TRUE) /\ NoFault
             \/ UNCHANGED row /\ Fault({e})
    BY DEF Compensate
<1>2. /\ start[r].stage = "over" /\ start[r].started = {} /\ e \in Egresses /\ start[r] \in Starts
      /\ UNCHANGED <<sessionVars, egress, attachments, closing, toStop, hook, late>>
    BY DEF Compensate, TypeOK, Starts, RowsInv, StagesReady, InTransaction
<1>3. /\ start' \in [Starters -> Starts]
      /\ \A q \in Starters : q # r => start'[q] = start[q]
      /\ start'[r].stage = "over" /\ start'[r].started = {}
      /\ start'[r].orphaned = start[r].orphaned \ {e}
    <2>1. [start[r] EXCEPT !.orphaned = start[r].orphaned \ {e}] \in Starts
        BY <1>2 DEF Starts
    <2>2. start' = [start EXCEPT ![r] = [start[r] EXCEPT !.orphaned = start[r].orphaned \ {e}]]
        BY <1>1, <1>2 DEF TypeOK, Starts
    <2> QED
        BY <1>2, <2>1, <2>2 DEF TypeOK, Starts
<1>4. faults' \in 0 .. MaxFaults /\ faulted' \subseteq Egresses /\ faulted \subseteq faulted'
    BY <1>1, <1>2, FaultEffect
<1>5. StagesReady'
    BY <1>2, <1>3, <1>4 DEF RowsInv, StagesReady, InTransaction, Running
<1>6. \A q \in Starters : InTransaction(q)' => InTransaction(q)
    BY <1>2, <1>3 DEF InTransaction
<1>7. CASE row' = Recorded({e}, TRUE)
    <2>1. /\ row' \in [Egresses -> Rows]
          /\ \A f \in Egresses : f # e => row'[f] = row[f]
          /\ row'[e] = [status |-> "recording", compensation |-> TRUE]
        <3> DEFINE es == {e}
        <3>1. /\ Recorded(es, TRUE) \in [Egresses -> Rows]
              /\ \A f \in Egresses :
                    /\ f \notin es => Recorded(es, TRUE)[f] = row[f]
                    /\ f \in es => Recorded(es, TRUE)[f] = [status |-> "recording", compensation |-> TRUE]
            <4> HIDE DEF es
            <4> QED
                BY RecordedType
        <3> QED
            BY <3>1, <1>2, <1>7
    <2>2. TypeOK'
        BY <1>2, <1>3, <1>4, <2>1 DEF TypeOK, SessionInv
    <2>3. EgressReady' /\ OwnedReady' /\ HooksReady' /\ AttachedOnce' /\ NoEgressForgotten'
        <3>1. {e} \subseteq Owned(r) /\ Owned(r)' = Owned(r) \ {e}
            BY <1>2, <1>3 DEF Owned
        <3> QED
            BY <1>2, <1>3, <1>4, <1>7, <2>2, <3>1, RowsAppear
    <2>4. GroupInv'
        <3>1. RecordedRows' \subseteq RecordedRows
            BY <2>1 DEF RecordedRows
        <3>2. StartsExclude'
            BY <1>6 DEF GroupInv, StartsExclude
        <3>3. NothingRecordedYet'
            BY <1>2, <1>6, <3>1 DEF GroupInv, NothingRecordedYet
        <3>4. OneGroupRecords'
            BY <1>2, <3>1 DEF GroupInv, OneGroupRecords, RecordedRows
        <3> QED
            BY <3>2, <3>3, <3>4 DEF GroupInv
    <2>5. StopsInv'
        <3>1. ClosingReady' /\ Pending' = Pending
            BY <1>2 DEF StopsInv, ClosingReady, sessionVars, Pending
        <3>2. Running(e) => e \in faulted
            BY <1>1 DEF RowsInv, StagesReady
        <3>3. GivenUpIsStopped'
            BY <1>2, <1>4, <2>1, <3>1 DEF StopsInv, GivenUpIsStopped, Running
        <3>4. EndStopsRecordings'
            BY <1>2, <1>4, <2>1, <3>1, <3>2
            DEF StopsInv, EndStopsRecordings, RecordedAfterEnd, Running, sessionVars
        <3> QED
            BY <3>1, <3>3, <3>4 DEF StopsInv
    <2> QED
        BY <1>5, <2>2, <2>3, <2>4, <2>5 DEF RowsInv
<1>8. CASE UNCHANGED row /\ Fault({e})
    <2>1. TypeOK'
        BY <1>2, <1>3, <1>4, <1>8 DEF TypeOK, SessionInv
    <2>2. RowsGoOn /\ NothingStarts
        BY <1>2, <1>4, <1>8 DEF RowsGoOn, NothingStarts, EgressesGoOn, Running
    <2>3. OwnersGoOn
        BY <1>2, <1>3, <1>8 DEF OwnersGoOn, Owned, Fault
    <2>4. HooksReady' /\ AttachedOnce'
        BY <1>2, <1>8 DEF RowsInv, HooksReady, AttachedOnce, Running
    <2>5. GroupInv'
        BY <1>6, <2>1, <2>2, GroupKept DEF NothingStarts
    <2>6. StopsInv'
        BY <1>2, <1>4, <1>8, <2>1, StopsKept DEF sessionVars, Running
    <2> QED
        BY <1>5, <2>1, <2>2, <2>3, <2>4, <2>5, <2>6, RowsKept DEF RowsInv
<1> QED
    BY <1>1, <1>7, <1>8

LEMMA CrashStartInv ==
    ASSUME Inv, NEW r \in Starters, CrashStart(r), SessionInv'
    PROVE  Inv'
<1> USE DEF Inv
<1>1. /\ start' = Finished(r) /\ Fault(Owned(r))
      /\ UNCHANGED <<sessionVars, egress, row, attachments, closing, toStop, hook, late>>
    BY DEF CrashStart, Owned
<1>2. Owned(r) \subseteq Egresses
    BY DEF Owned, TypeOK, Starts
<1>3. faults' \in 0 .. MaxFaults /\ faulted' \subseteq Egresses /\ faulted \subseteq faulted'
    BY <1>1, <1>2, FaultEffect DEF Fault
<1>4. Owned(r) \subseteq faulted'
    BY <1>1 DEF Fault
<1>5. /\ start' \in [Starters -> Starts]
      /\ \A q \in Starters : q # r => start'[q] = start[q]
      /\ start'[r].stage = "over" /\ start'[r].started = {} /\ start'[r].orphaned = {}
    BY <1>1, StartTypes
<1>6. TypeOK'
    BY <1>1, <1>3, <1>5 DEF TypeOK, SessionInv
<1>7. RowsGoOn /\ NothingStarts
    BY <1>1, <1>3 DEF RowsGoOn, NothingStarts, EgressesGoOn, Running
<1>8. OwnersGoOn
    BY <1>4, <1>5 DEF OwnersGoOn, Owned
<1>9. StagesReady'
    BY <1>1, <1>3, <1>5 DEF RowsInv, StagesReady, InTransaction, Running
<1>10. HooksReady' /\ AttachedOnce'
    BY <1>1 DEF RowsInv, HooksReady, AttachedOnce, Running
<1>11. GroupInv'
    <2>1. \A q \in Starters : InTransaction(q)' => InTransaction(q)
        BY <1>5 DEF InTransaction
    <2> QED
        BY <2>1, <1>6, <1>7, GroupKept DEF NothingStarts
<1>12. StopsInv'
    BY <1>1, <1>3, <1>6, StopsKept DEF sessionVars, Running
<1> QED
    BY <1>6, <1>7, <1>8, <1>9, <1>10, <1>11, <1>12, RowsKept DEF RowsInv

\* A step that leaves the requests alone and starts nothing: only hooks, files
\* and stops are left to look at.
LEMMA RequestsUnchanged ==
    ASSUME Inv, TypeOK', RowsGoOn, NothingStarts, UNCHANGED start
    PROVE  EgressReady' /\ OwnedReady' /\ StagesReady' /\ NoEgressForgotten' /\ GroupInv'
<1>1. OwnersGoOn
    BY DEF OwnersGoOn, Owned
<1>2. StagesReady'
    <2>1. \A r \in Starters : \A e \in start[r].orphaned : e \in Egresses /\ egress[e].state # "unused"
        BY DEF Inv, RowsInv, OwnedReady, Owned, TypeOK, Starts
    <2> QED
        BY <2>1 DEF Inv, RowsInv, StagesReady, InTransaction, NothingStarts, EgressesGoOn, Running
<1>3. GroupInv'
    BY GroupKept DEF NothingStarts, InTransaction
<1> QED
    BY <1>1, <1>2, <1>3, RowsKept

LEMMA StopTrackInv ==
    ASSUME Inv, NEW e \in Egresses, StopTrack(e), SessionInv'
    PROVE  Inv'
<1> USE DEF Inv
<1>1. PICK ok \in BOOLEAN : StopEgress(e, ok)
    BY DEF StopTrack
<1>2. UNCHANGED <<sessionVars, row, attachments, start, closing, toStop, hook, late>>
    BY DEF StopTrack
<1>3. /\ egress' \in [Egresses -> Egress]
      /\ faults' \in 0 .. MaxFaults /\ faulted' \subseteq Egresses /\ faulted \subseteq faulted'
      /\ EgressesGoOn
      /\ \A f \in Egresses : egress'[f].state = "running" => Running(f)
      /\ \A f \in Egresses : egress[f].state = "unused" => egress'[f] = egress[f]
    BY <1>1, StopEffect
<1>4. TypeOK'
    BY <1>2, <1>3 DEF TypeOK, SessionInv
<1>5. RowsGoOn /\ NothingStarts
    BY <1>2, <1>3 DEF RowsGoOn, NothingStarts
<1>6. HooksReady' /\ AttachedOnce'
    BY <1>2, <1>3 DEF RowsInv, HooksReady, AttachedOnce, Running, TypeOK
<1>7. StopsInv'
    <2>1. \A f \in Egresses : Running(f)' /\ row'[f].status # "absent" =>
              Running(f) /\ row'[f].status = row[f].status /\ egress'[f].session = egress[f].session
        BY <1>2, <1>3 DEF EgressesGoOn, Running
    <2> QED
        BY <2>1, <1>2, <1>3, <1>4, StopsKept DEF sessionVars
<1> QED
    BY <1>2, <1>4, <1>5, <1>6, <1>7, RequestsUnchanged DEF RowsInv

LEMMA EgressEndsInv ==
    ASSUME Inv, NEW e \in Egresses, EgressEnds(e), SessionInv'
    PROVE  Inv'
<1> USE DEF Inv
<1>1. UNCHANGED <<sessionVars, row, attachments, start, closing, toStop, hook, faults, faulted, late>>
    BY DEF EgressEnds
<1>2. /\ egress' \in [Egresses -> Egress]
      /\ egress'[e].state \in {"file", "empty"} /\ Running(e)
      /\ \A f \in Egresses : egress'[f].session = egress[f].session /\ egress'[f].group = egress[f].group
      /\ \A f \in Egresses : f # e => egress'[f] = egress[f]
    BY EndsEffect DEF EgressEnds
<1>3. TypeOK'
    BY <1>1, <1>2 DEF TypeOK, SessionInv
<1>4. RowsGoOn /\ NothingStarts
    BY <1>1, <1>2 DEF RowsGoOn, NothingStarts, EgressesGoOn, Running
<1>5. HooksReady' /\ AttachedOnce'
    BY <1>1, <1>2 DEF RowsInv, HooksReady, AttachedOnce, Running, TypeOK
<1>6. StopsInv'
    <2>1. \A f \in Egresses : Running(f)' => Running(f)
        BY <1>2 DEF Running
    <2> QED
        BY <2>1, <1>1, <1>2, <1>3, StopsKept DEF sessionVars
<1> QED
    BY <1>1, <1>3, <1>4, <1>5, <1>6, RequestsUnchanged DEF RowsInv

LEMMA StopNextInv ==
    ASSUME Inv, NEW h \in Handlers, StopNext(h), SessionInv'
    PROVE  Inv'
<1> USE DEF Inv
<1>1. PICK e \in toStop[h], ok \in BOOLEAN :
          StopEgress(e, ok) /\ toStop' = [toStop EXCEPT ![h] = @ \ {e}]
    BY DEF StopNext
<1>2. /\ e \in Egresses
      /\ UNCHANGED <<sessionVars, row, attachments, start, closing, hook, late>>
    BY DEF StopNext, TypeOK
<1>3. /\ egress' \in [Egresses -> Egress]
      /\ faults' \in 0 .. MaxFaults /\ faulted' \subseteq Egresses /\ faulted \subseteq faulted'
      /\ EgressesGoOn
      /\ \A f \in Egresses : egress'[f].state = "running" => Running(f)
      /\ \A f \in Egresses : egress[f].state = "unused" => egress'[f] = egress[f]
      /\ egress'[e].state = "running" => e \in faulted'
    BY <1>1, <1>2, StopEffect
<1>4. TypeOK'
    BY <1>1, <1>2, <1>3 DEF TypeOK, SessionInv
<1>5. RowsGoOn /\ NothingStarts
    BY <1>2, <1>3 DEF RowsGoOn, NothingStarts
<1>6. HooksReady' /\ AttachedOnce'
    BY <1>2, <1>3 DEF RowsInv, HooksReady, AttachedOnce, Running, TypeOK
<1>7. StopsInv'
    <2>1. \A g \in Handlers : toStop'[g] \subseteq toStop[g] /\ toStop[g] \subseteq toStop'[g] \cup {e}
        BY <1>1 DEF TypeOK
    <2>2. ClosingReady'
        BY <1>2, <2>1 DEF StopsInv, ClosingReady, sessionVars, Handlers
    <2>3. Pending \subseteq Pending' \cup {e}
        BY <2>1 DEF Pending
    <2>4. GivenUpIsStopped'
        BY <1>2, <1>3, <2>3 DEF StopsInv, GivenUpIsStopped, Running
    <2>5. RecordedAfterEnd' \subseteq RecordedAfterEnd
        BY <1>2, <1>3 DEF RecordedAfterEnd, EgressesGoOn, Running, RowsInv, EgressReady, sessionVars
    <2>6. EndStopsRecordings'
        <3>1. \A f \in RecordedAfterEnd' : f = e => f \in faulted'
            BY <1>3 DEF RecordedAfterEnd, Running
        <3> QED
            BY <1>2, <1>3, <2>3, <2>5, <3>1 DEF StopsInv, EndStopsRecordings
    <2> QED
        BY <2>2, <2>4, <2>6 DEF StopsInv
<1> QED
    BY <1>2, <1>4, <1>5, <1>6, <1>7, RequestsUnchanged DEF RowsInv

LEMMA CrashStopInv ==
    ASSUME Inv, NEW h \in Handlers, CrashStop(h), SessionInv'
    PROVE  Inv'
<1> USE DEF Inv
<1> DEFINE es == toStop[h] \cup IF h \in closing THEN SessionRows(h) ELSE {}
<1>1. /\ Fault(es) /\ toStop' = [toStop EXCEPT ![h] = {}] /\ closing' = closing \ {h}
      /\ UNCHANGED <<sessionVars, egress, row, attachments, start, hook, late>>
    BY DEF CrashStop
<1>2. es \subseteq Egresses
    BY DEF TypeOK, SessionRows
<1>3. faults' \in 0 .. MaxFaults /\ faulted' \subseteq Egresses /\ faulted \subseteq faulted'
    <2> HIDE DEF es
    <2> QED
        BY <1>1, <1>2, FaultEffect
<1>4. toStop[h] \subseteq faulted' /\ (h \in closing => SessionRows(h) \subseteq faulted')
    BY <1>1 DEF Fault
<1> HIDE DEF es
<1>5. TypeOK'
    BY <1>1, <1>3 DEF TypeOK, SessionInv
<1>6. RowsGoOn /\ NothingStarts
    BY <1>1, <1>3 DEF RowsGoOn, NothingStarts, EgressesGoOn, Running
<1>7. HooksReady' /\ AttachedOnce'
    BY <1>1 DEF RowsInv, HooksReady, AttachedOnce, Running
<1>8. StopsInv'
    <2>1. /\ toStop'[h] = {} /\ \A g \in Handlers : g # h => toStop'[g] = toStop[g]
        BY <1>1 DEF TypeOK
    <2>2. ClosingReady'
        BY <1>1, <2>1 DEF StopsInv, ClosingReady, sessionVars, Handlers
    <2>3. Pending \subseteq Pending' \cup faulted'
        BY <1>4, <2>1 DEF Pending
    <2>4. GivenUpIsStopped'
        BY <1>1, <1>3, <2>3 DEF StopsInv, GivenUpIsStopped, Running
    <2>5. ASSUME NEW e \in RecordedAfterEnd', e \notin faulted'
          PROVE  e \in late \cup Pending'
        <3>1. e \in Egresses /\ Running(e) /\ row[e].status # "absent" /\ session[egress[e].session] = "ended"
            BY <1>1, <2>5 DEF RecordedAfterEnd, Running, sessionVars
        <3>2. CASE e \in RecordedAfterEnd
            BY <3>2, <1>3, <2>3, <2>5 DEF StopsInv, EndStopsRecordings
        <3>3. CASE e \notin RecordedAfterEnd
            <4>1. egress[e].session \in closing /\ egress[e].session = h
                BY <1>1, <2>5, <3>1, <3>3 DEF RecordedAfterEnd
            <4>2. row[e].status # "recording"
                BY <1>4, <2>5, <3>1, <4>1 DEF SessionRows
            <4>3. row[e].status \in {"ready", "failed"}
                BY <3>1, <4>2 DEF TypeOK, Rows
            <4> QED
                BY <1>3, <2>3, <2>5, <3>1, <4>3 DEF StopsInv, GivenUpIsStopped
        <3> QED
            BY <3>2, <3>3
    <2>6. EndStopsRecordings'
        BY <1>1, <2>5 DEF EndStopsRecordings
    <2> QED
        BY <2>2, <2>4, <2>6 DEF StopsInv
<1> QED
    BY <1>1, <1>5, <1>6, <1>7, <1>8, RequestsUnchanged DEF RowsInv

LEMMA RunJanitorInv ==
    ASSUME Inv, NEW e \in Egresses, RunJanitor(e), SessionInv'
    PROVE  Inv'
<1> USE DEF Inv
<1>1. PICK es \in SUBSET {f \in Egresses : row[f].status = "recording"} : Reap(es)
    BY DEF RunJanitor
<1>2. /\ toStop[Janitor] = {} /\ toStop' = [toStop EXCEPT ![Janitor] = es] /\ Janitor \in Handlers
      /\ row' = [f \in Egresses |-> IF f \in es THEN [row[f] EXCEPT !.status = "failed"] ELSE row[f]]
      /\ UNCHANGED <<sessionVars, egress, attachments, start, closing, hook, faults, faulted, late>>
    BY <1>1 DEF Reap, Handlers
<1>3. \A f \in Egresses :
          /\ row'[f] \in Rows /\ row'[f].compensation = row[f].compensation
          /\ f \notin es => row'[f] = row[f]
          /\ f \in es => row'[f].status = "failed" /\ row[f].status = "recording"
    BY <1>2 DEF TypeOK, Rows
<1>4. TypeOK'
    BY <1>2, <1>3 DEF TypeOK, SessionInv
<1>5. RowsGoOn /\ NothingStarts
    BY <1>2, <1>3 DEF RowsGoOn, NothingStarts, EgressesGoOn, Running
<1>6. HooksReady' /\ AttachedOnce'
    <2>1. HooksReady'
        BY <1>2, <1>3 DEF RowsInv, HooksReady, Running, TypeOK
    <2>2. \A f \in Egresses : row'[f].status = "ready" <=> row[f].status = "ready"
        BY <1>3
    <2>3. AttachedOnce'
        BY <1>2, <2>2 DEF RowsInv, AttachedOnce
    <2> QED
        BY <2>1, <2>3
<1>7. StopsInv'
    <2>1. \A g \in Handlers : toStop'[g] = IF g = Janitor THEN es ELSE toStop[g]
        BY <1>2 DEF TypeOK
    <2>2. Pending' = Pending \cup es
        BY <1>2, <2>1 DEF Pending
    <2>3. ClosingReady'
        BY <1>2, <2>1, RecordingAssumption DEF StopsInv, ClosingReady, sessionVars, Handlers
    <2>4. GivenUpIsStopped'
        BY <1>2, <1>3, <2>2 DEF StopsInv, GivenUpIsStopped, Running
    <2>5. RecordedAfterEnd' \subseteq RecordedAfterEnd
        BY <1>2, <1>3 DEF RecordedAfterEnd, Running, sessionVars
    <2>6. EndStopsRecordings'
        BY <1>2, <2>2, <2>5 DEF StopsInv, EndStopsRecordings
    <2> QED
        BY <2>3, <2>4, <2>6 DEF StopsInv
<1> QED
    BY <1>2, <1>4, <1>5, <1>6, <1>7, RequestsUnchanged DEF RowsInv

LEMMA ReadRowInv ==
    ASSUME Inv, NEW d \in Deliveries, ReadRow(d), SessionInv'
    PROVE  Inv'
<1> USE DEF Inv
<1>1. PICK e \in Egresses :
          /\ \/ egress[e].state = "file" /\ row[e].status \in {"recording", "failed"}
             \/ egress[e].state = "empty" /\ row[e].status = "recording"
          /\ hook' = [hook EXCEPT ![d] = e]
    BY DEF ReadRow
<1>2. UNCHANGED <<sessionVars, egress, row, attachments, start, closing, toStop, faults, faulted, late>>
    BY DEF ReadRow
<1>3. TypeOK'
    BY <1>1, <1>2 DEF TypeOK, SessionInv
<1>4. HooksReady'
    BY <1>1, <1>2 DEF RowsInv, HooksReady, Running, TypeOK
<1>5. StopsInv'
    BY <1>2, <1>3, StopsKept DEF sessionVars, Running
<1> QED
    BY <1>2, <1>3, <1>4, <1>5, RecordingsUnchanged DEF RowsInv

LEMMA RollBackHookInv ==
    ASSUME Inv, NEW d \in Deliveries, RollBackHook(d), SessionInv'
    PROVE  Inv'
<1> USE DEF Inv
<1>1. /\ UNCHANGED <<sessionVars, egress, row, attachments, start, closing, toStop, faults, faulted, late>>
      /\ hook' = [hook EXCEPT ![d] = None]
    BY DEF RollBackHook
<1>2. TypeOK'
    BY <1>1 DEF TypeOK, SessionInv
<1>3. HooksReady'
    BY <1>1 DEF RowsInv, HooksReady, Running, TypeOK
<1>4. StopsInv'
    BY <1>1, <1>2, StopsKept DEF sessionVars, Running
<1> QED
    BY <1>1, <1>2, <1>3, <1>4, RecordingsUnchanged DEF RowsInv

\* What closing a row does to it and to its attachments.
LEMMA CloseRowEffect ==
    ASSUME Inv, NEW d \in Deliveries, CloseRow(d)
    PROVE  /\ row' \in [Egresses -> Rows] /\ attachments' \in [Egresses -> Nat]
           /\ hook[d] \in Egresses /\ row[hook[d]].status # "absent" /\ ~ Running(hook[d])
           /\ \A e \in Egresses :
                 /\ row'[e].compensation = row[e].compensation
                 /\ row[e].status = "ready" => row'[e].status = "ready"
                 /\ \/ row'[e] = row[e] /\ attachments'[e] = attachments[e]
                    \/ /\ e = hook[d] /\ row[e].status # "ready"
                       /\ \/ row'[e].status = "ready" /\ attachments'[e] = attachments[e] + 1
                          \/ row'[e].status = "failed" /\ attachments'[e] = attachments[e]
<1> DEFINE e == hook[d]
<1>1. e \in Egresses /\ row[e].status # "absent" /\ ~ Running(e)
    BY DEF CloseRow, Inv, TypeOK, RowsInv, HooksReady
<1>2. \/ /\ row[e].status # "ready"
         /\ row' = [row EXCEPT ![e].status = "ready"]
         /\ attachments' = [attachments EXCEPT ![e] = @ + 1]
      \/ /\ row[e].status # "ready"
         /\ row' = [row EXCEPT ![e].status = "failed"]
         /\ UNCHANGED attachments
      \/ UNCHANGED <<row, attachments>>
    BY DEF CloseRow
<1>3. row \in [Egresses -> Rows] /\ attachments \in [Egresses -> Nat]
    BY DEF Inv, TypeOK
<1> HIDE DEF e
<1>4. [row[e] EXCEPT !.status = "ready"] \in Rows /\ [row[e] EXCEPT !.status = "failed"] \in Rows
    BY <1>1, <1>3 DEF Rows
<1>5. CASE /\ row[e].status # "ready"
           /\ row' = [row EXCEPT ![e].status = "ready"]
           /\ attachments' = [attachments EXCEPT ![e] = @ + 1]
    BY <1>1, <1>3, <1>4, <1>5 DEF Rows, e
<1>6. CASE /\ row[e].status # "ready"
           /\ row' = [row EXCEPT ![e].status = "failed"]
           /\ UNCHANGED attachments
    BY <1>1, <1>3, <1>4, <1>6 DEF Rows, e
<1>7. CASE UNCHANGED <<row, attachments>>
    BY <1>1, <1>3, <1>7 DEF e
<1> QED
    BY <1>2, <1>5, <1>6, <1>7

LEMMA CloseRowInv ==
    ASSUME Inv, NEW d \in Deliveries, CloseRow(d), SessionInv'
    PROVE  Inv'
<1> USE DEF Inv
<1>1. /\ UNCHANGED <<sessionVars, egress, start, closing, toStop, faults, faulted, late>>
      /\ hook' = [hook EXCEPT ![d] = None]
    BY DEF CloseRow
<1>2. /\ row' \in [Egresses -> Rows] /\ attachments' \in [Egresses -> Nat]
      /\ hook[d] \in Egresses /\ row[hook[d]].status # "absent" /\ ~ Running(hook[d])
      /\ \A e \in Egresses :
            /\ row'[e].compensation = row[e].compensation
            /\ \/ row'[e] = row[e] /\ attachments'[e] = attachments[e]
               \/ /\ e = hook[d] /\ row[e].status # "ready"
                  /\ \/ row'[e].status = "ready" /\ attachments'[e] = attachments[e] + 1
                     \/ row'[e].status = "failed" /\ attachments'[e] = attachments[e]
    BY CloseRowEffect
<1>3. TypeOK'
    BY <1>1, <1>2 DEF TypeOK, SessionInv
<1>4. RowsGoOn /\ NothingStarts
    BY <1>1, <1>2 DEF RowsGoOn, NothingStarts, EgressesGoOn, Running
<1>5. HooksReady'
    BY <1>1, <1>2 DEF RowsInv, HooksReady, Running, TypeOK
<1>6. AttachedOnce'
    BY <1>2 DEF RowsInv, AttachedOnce
<1>7. StopsInv'
    <2>1. \A f \in Egresses : Running(f)' /\ row'[f].status # "absent" =>
              Running(f) /\ row'[f].status = row[f].status /\ egress'[f].session = egress[f].session
        BY <1>1, <1>2 DEF Running
    <2> QED
        BY <2>1, <1>1, <1>3, StopsKept DEF sessionVars
<1> QED
    BY <1>1, <1>3, <1>4, <1>5, <1>6, <1>7, RequestsUnchanged DEF RowsInv

LEMMA StutterInv ==
    ASSUME Inv, UNCHANGED vars, SessionInv'
    PROVE  Inv'
<1> USE DEF Inv
<1>1. UNCHANGED recordingVars /\ UNCHANGED sessionVars
    BY DEF vars
<1>2. TypeOK'
    BY <1>1 DEF recordingVars, TypeOK, SessionInv
<1>3. HooksReady'
    BY <1>1 DEF recordingVars, RowsInv, HooksReady, Running
<1>4. StopsInv'
    BY <1>1, <1>2, StopsKept DEF recordingVars, sessionVars, Running
<1> QED
    BY <1>1, <1>2, <1>3, <1>4, RecordingsUnchanged DEF recordingVars, RowsInv

\* Every step keeps the invariant.
LEMMA InvStep == ASSUME Inv, [Next]_vars PROVE Inv'
<1>1. SessionInv'
    BY SessionNext DEF Inv
<1>2. CASE SessionStep
    BY <1>1, <1>2, SessionStepInv
<1>3. CASE \E s \in Sessions : EndCall(s) \/ ListToStop(s)
    BY <1>1, <1>3, EndCallInv, ListToStopInv
<1>4. ASSUME NEW r \in Starters, StartStep(r) \/ CrashStart(r)
      PROVE  Inv'
    <2>1. CASE Resolve(r) \/ BeginStart(r) \/ StartTrack(r)
        BY <1>1, <2>1, ResolveInv, BeginStartInv, StartTrackInv
    <2>2. CASE CommitStart(r) \/ CleanTrack(r) \/ RollBackStart(r)
        BY <1>1, <2>2, CommitStartInv, CleanTrackInv, RollBackStartInv
    <2>3. CASE Compensate(r) \/ CrashStart(r)
        BY <1>1, <2>3, CompensateInv, CrashStartInv
    <2> QED
        BY <1>4, <2>1, <2>2, <2>3 DEF StartStep
<1>5. CASE \E h \in Handlers : StopNext(h) \/ CrashStop(h)
    BY <1>1, <1>5, StopNextInv, CrashStopInv
<1>6. CASE \E e \in Egresses : EgressEnds(e) \/ RunJanitor(e) \/ StopTrack(e)
    BY <1>1, <1>6, EgressEndsInv, RunJanitorInv, StopTrackInv
<1>7. CASE \E d \in Deliveries : ReadRow(d) \/ CloseRow(d) \/ RollBackHook(d)
    BY <1>1, <1>7, ReadRowInv, CloseRowInv, RollBackHookInv
<1>8. CASE UNCHANGED vars
    BY <1>1, <1>8, StutterInv
<1> QED
    BY <1>2, <1>3, <1>4, <1>5, <1>6, <1>7, <1>8 DEF Next

\* In every behaviour.
THEOREM InvAlways == Spec => []Inv
<1>1. Init => Inv
    BY InitInv
<1>2. Inv /\ [Next]_vars => Inv'
    BY InvStep
<1> QED
    BY <1>1, <1>2, PTL DEF Spec

-----------------------------------------------------------------------------
(* What follows.                                                           *)

\* Every variable has its type.
THEOREM TypeCorrect == Spec => []TypeOK
<1>1. Inv => TypeOK
    BY DEF Inv
<1> QED
    BY <1>1, InvAlways, PTL

\* The room is shown as active exactly while one session is, and never two.
THEOREM RoomAndSession == Spec => []RoomFollowsSession
<1>1. Inv => RoomFollowsSession
    BY DEF Inv, SessionInv
<1> QED
    BY <1>1, InvAlways, PTL

\* What a participant's handler has read holds until it commits.
THEOREM FreshReads == Spec => []ReadsStayFresh
<1>1. Inv => ReadsStayFresh
    BY DEF Inv, SessionInv
<1> QED
    BY <1>1, InvAlways, PTL

\* However many requests there are, one group of tracks records a session.
THEOREM OneGroup == Spec => []OneGroupRecords
<1>1. Inv => OneGroupRecords
    BY DEF Inv, GroupInv
<1> QED
    BY <1>1, InvAlways, PTL

\* However often a webhook is delivered, a file is attached once.
THEOREM OneAttachment == Spec => []AttachedOnce
<1>1. Inv => AttachedOnce
    BY DEF Inv, RowsInv
<1> QED
    BY <1>1, InvAlways, PTL

\* A running egress has a row or an owner, unless a failure came between.
THEOREM NoneForgotten == Spec => []NoEgressForgotten
<1>1. Inv => NoEgressForgotten
    BY DEF Inv, RowsInv
<1> QED
    BY <1>1, InvAlways, PTL

\* What runs on after the end of its session was hit by a failure or came late.
THEOREM EndStops == Spec => []EndStopsRecordings
<1>1. Inv => EndStopsRecordings
    BY DEF Inv, StopsInv
<1> QED
    BY <1>1, InvAlways, PTL

\* No step takes the file of a recording away.
LEMMA ReadyStep ==
    ASSUME Inv, [Next]_vars, NEW e \in Egresses, row[e].status = "ready"
    PROVE  row'[e].status = "ready"
<1>1. CASE UNCHANGED row
    BY <1>1
<1>2. ASSUME NEW r \in Starters, CommitStart(r) \/ Compensate(r)
      PROVE  row'[e].status = "ready"
    <2>1. PICK es \in SUBSET Owned(r), c \in BOOLEAN : row' = Recorded(es, c) \/ UNCHANGED row
        BY <1>2 DEF CommitStart, Compensate, Owned
    <2>2. e \notin es
        BY DEF Inv, RowsInv, OwnedReady
    <2> QED
        BY <1>1, <2>1, <2>2 DEF Recorded
<1>3. ASSUME NEW f \in Egresses, RunJanitor(f)
      PROVE  row'[e].status = "ready"
    BY <1>3 DEF RunJanitor, Reap
<1>4. ASSUME NEW d \in Deliveries, CloseRow(d)
      PROVE  row'[e].status = "ready"
    BY <1>4, CloseRowEffect
<1>5. CASE SessionStep
    BY <1>1, <1>5 DEF SessionStep, recordingVars
<1>6. CASE \E s \in Sessions : EndCall(s) \/ ListToStop(s)
    BY <1>1, <1>6 DEF EndCall, ListToStop
<1>7. CASE \E r \in Starters : StartStep(r) \/ CrashStart(r)
    BY <1>1, <1>2, <1>7 DEF StartStep, Resolve, BeginStart, StartTrack, CleanTrack, RollBackStart, CrashStart
<1>8. CASE \E h \in Handlers : StopNext(h) \/ CrashStop(h)
    BY <1>1, <1>8 DEF StopNext, CrashStop
<1>9. CASE \E f \in Egresses : EgressEnds(f) \/ RunJanitor(f) \/ StopTrack(f)
    BY <1>1, <1>3, <1>9 DEF EgressEnds, StopTrack
<1>10. CASE \E d \in Deliveries : ReadRow(d) \/ CloseRow(d) \/ RollBackHook(d)
    BY <1>1, <1>4, <1>10 DEF ReadRow, RollBackHook
<1>11. CASE UNCHANGED vars
    BY <1>1, <1>11 DEF vars, recordingVars
<1> QED
    BY <1>5, <1>6, <1>7, <1>8, <1>9, <1>10, <1>11 DEF Next

\* A recording that is ready stays ready.
THEOREM ReadyIsFinal == Spec => ReadyStays
<1>1. Inv /\ [Next]_vars =>
          [\A e \in Egresses : row[e].status = "ready" => row'[e].status = "ready"]_row
    BY ReadyStep
<1> QED
    BY <1>1, InvAlways, PTL DEF Spec, ReadyStays
=============================================================================

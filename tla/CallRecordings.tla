--------------------------- MODULE CallRecordings ---------------------------
(***************************************************************************)
(* Recording a call: a handler starts one egress per published track at    *)
(* the video provider and keeps a row for each; the provider's webhook, a  *)
(* stop request, the end of the session and the janitor's job each close   *)
(* what is still open.  The provider takes no part in the transactions: an *)
(* egress runs from the moment it is started, its row is seen at COMMIT.   *)
(* The events and audit records written with the rows are left out.        *)
(***************************************************************************)
EXTENDS CallSessions

CONSTANTS
    Starters,     \* requests to start a recording; each makes a group of its own
    SessionOf,    \* the session a request names
    MaxEgresses,  \* bound: egresses the provider hands out
    MaxTracks,    \* bound: tracks published at a time
    Deliveries,   \* webhook deliveries handled at a time
    MaxFaults,    \* bound: provider calls, statements and processes that fail
    Janitor, None

Egresses == 1 .. MaxEgresses

ASSUME RecordingAssumption ==
    /\ MaxEgresses \in Nat /\ MaxTracks \in Nat /\ MaxFaults \in Nat
    /\ Janitor \notin Sessions
    /\ None \notin Sessions \cup Starters \cup Egresses
    /\ SessionOf \in [Starters -> Sessions]

VARIABLES
    egress,       \* at the provider: its state, and the session and group it was started for
    row,          \* call_recordings by egress_id
    attachments,  \* how many attachments were made of an egress's file
    start,        \* startRecording, per request
    closing,      \* sessions whose end handler has not yet listed the recordings
    toStop,       \* egresses a handler has still to stop
    hook,         \* the egress whose row a webhook delivery has read
    faults,       \* failures so far
    faulted,      \* (not in the code) egresses that a failure touched
    late          \* (not in the code) egresses whose row was committed after the session's end

recordingVars == <<egress, row, attachments, start, closing, toStop, hook, faults, faulted, late>>

vars == <<sessionVars, recordingVars>>

Handlers == Sessions \cup {Janitor}   \* the end of a session, the janitor's job

\* over: committed or rolled back; orphans may still get their rows
Stages == {"new", "resolved", "starting", "cleaning", "over"}

EgressStates == {"unused", "running", "file", "empty"}

Egress == [state: EgressStates, session: Sessions \cup {None}, group: Starters \cup {None}]

Rows == [status: {"absent", "recording", "ready", "failed"}, compensation: BOOLEAN]

Starts == [stage: Stages, tracks: 0 .. MaxTracks,
           started: SUBSET Egresses, orphaned: SUBSET Egresses]

Unused == [state |-> "unused", session |-> None, group |-> None]

NoRow == [status |-> "absent", compensation |-> FALSE]

NewStart == [stage |-> "new", tracks |-> 0, started |-> {}, orphaned |-> {}]

Init ==
    /\ SessionInit
    /\ egress = [e \in Egresses |-> Unused]
    /\ row = [e \in Egresses |-> NoRow]
    /\ attachments = [e \in Egresses |-> 0]
    /\ start = [r \in Starters |-> NewStart]
    /\ closing = {}
    /\ toStop = [h \in Handlers |-> {}]
    /\ hook = [d \in Deliveries |-> None]
    /\ faults = 0
    /\ faulted = {}
    /\ late = {}

-----------------------------------------------------------------------------
(* Failures and the provider.                                              *)

\* Something fails: the egresses it leaves in a state nobody planned are noted.
Fault(es) ==
    /\ faults < MaxFaults
    /\ faults' = faults + 1
    /\ faulted' = faulted \cup es

NoFault == UNCHANGED <<faults, faulted>>

Running(e) == egress[e].state = "running"

Ends(e) == \E outcome \in {"file", "empty"} : egress' = [egress EXCEPT ![e].state = outcome]

\* stopEgress.  The answer may be a failure, and is one at will when the egress
\* has ended by itself.
StopEgress(e, ok) ==
    IF Running(e)
    THEN \/ ok /\ Ends(e) /\ NoFault
         \/ ~ ok /\ UNCHANGED egress /\ Fault({e})
    ELSE UNCHANGED egress /\ NoFault

\* The participant leaves; there is a file or none.
EgressEnds(e) ==
    /\ Running(e)
    /\ Ends(e)
    /\ UNCHANGED <<sessionVars, row, attachments, start, closing, toStop, hook, faults,
                   faulted, late>>

-----------------------------------------------------------------------------
(* startRecording.                                                         *)

SessionRows(s) == {e \in Egresses : egress[e].session = s /\ row[e].status = "recording"}

\* The route reads the session; its status is not read again.
Resolve(r) ==
    /\ start[r].stage = "new"
    /\ session[SessionOf[r]] = "active"
    /\ start' = [start EXCEPT ![r].stage = "resolved"]
    /\ UNCHANGED <<sessionVars, egress, row, attachments, closing, toStop, hook, faults,
                   faulted, late>>

Finished(r) == [start EXCEPT ![r] = [NewStart EXCEPT !.stage = "over"]]

\* lockCallRecordingStart: held by a transaction until it ends
StartLocked(s) ==
    \E r \in Starters : SessionOf[r] = s /\ start[r].stage \in {"starting", "cleaning"}

\* The lock, the check that the session is not yet recorded, and the provider's
\* list of tracks; without a track, or a list, there is nothing to record.
BeginStart_Unlocked(r) ==    \* mutated: the lock is not taken
    /\ start[r].stage = "resolved"
    /\ \/ /\ SessionRows(SessionOf[r]) = {}
          /\ \E n \in 1 .. MaxTracks :
                 start' = [start EXCEPT ![r].stage = "starting", ![r].tracks = n]
       \/ start' = Finished(r)
    /\ UNCHANGED <<sessionVars, egress, row, attachments, closing, toStop, hook, faults,
                   faulted, late>>

BeginStart(r) ==
    /\ start[r].stage = "resolved"
    /\ ~ StartLocked(SessionOf[r])
    /\ \/ /\ SessionRows(SessionOf[r]) = {}
          /\ \E n \in 1 .. MaxTracks :
                 start' = [start EXCEPT ![r].stage = "starting", ![r].tracks = n]
       \/ start' = Finished(r)
    /\ UNCHANGED <<sessionVars, egress, row, attachments, closing, toStop, hook, faults,
                   faulted, late>>

Fresh(e) == egress[e] = Unused /\ \A f \in 1 .. e - 1 : egress[f] # Unused

Started(e, r) ==
    egress' = [egress EXCEPT ![e] = [state |-> "running", session |-> SessionOf[r], group |-> r]]

Clean(r) == [start EXCEPT ![r].stage = "cleaning", ![r].tracks = 0]

\* One track: startTrackEgress, then the insert of its row.
StartTrack(r) ==
    /\ start[r].stage = "starting"
    /\ start[r].tracks > 0
    /\ \E e \in Egresses :
           /\ Fresh(e)
           /\ \/ /\ Started(e, r)
                 /\ start' = [start EXCEPT ![r].tracks = @ - 1, ![r].started = @ \cup {e}]
                 /\ NoFault
              \/ /\ start' = Clean(r)   \* refused
                 /\ UNCHANGED egress
                 /\ Fault({})
              \/ /\ Started(e, r)       \* started, but the answer is lost
                 /\ start' = Clean(r)
                 /\ Fault({e})
              \/ /\ Started(e, r)       \* the insert fails
                 /\ start' = [Clean(r) EXCEPT ![r].started = @ \cup {e}]
                 /\ Fault({})
    /\ UNCHANGED <<sessionVars, row, attachments, closing, toStop, hook, late>>

Recorded(es, compensation) ==
    [e \in Egresses |-> IF e \in es THEN [NoRow EXCEPT !.status = "recording",
                                                       !.compensation = compensation]
                        ELSE row[e]]

\* The event and the audit record are written, and the transaction commits.
\* When COMMIT itself fails nothing is cleaned up.
CommitStart(r) ==
    /\ start[r].stage = "starting"
    /\ start[r].tracks = 0
    /\ LET es == start[r].started IN
       \/ /\ row' = Recorded(es, FALSE)
          /\ late' = IF session[SessionOf[r]] = "ended" THEN late \cup es ELSE late
          /\ start' = Finished(r)
          /\ NoFault
       \/ /\ start' = Clean(r)
          /\ Fault({})
          /\ UNCHANGED <<row, late>>
       \/ /\ start' = Finished(r)
          /\ Fault(es)
          /\ UNCHANGED <<row, late>>
    /\ UNCHANGED <<sessionVars, egress, attachments, closing, toStop, hook>>

\* Every egress started in this attempt is stopped; the ones whose stop fails
\* are orphans.
CleanTrack_Drops(r) ==    \* mutated: a failed stop is not noted as an orphan
    /\ start[r].stage = "cleaning"
    /\ \E e \in start[r].started :
           /\ start' = [start EXCEPT ![r].started = @ \ {e}]
           /\ \/ StopEgress(e, TRUE)
              \/ UNCHANGED egress /\ NoFault
    /\ UNCHANGED <<sessionVars, row, attachments, closing, toStop, hook, late>>

CleanTrack(r) ==
    /\ start[r].stage = "cleaning"
    /\ \E e \in start[r].started, ok \in BOOLEAN :
           /\ StopEgress(e, ok)
           /\ start' = [start EXCEPT ![r].started = @ \ {e},
                                     ![r].orphaned = IF ok THEN @ ELSE @ \cup {e}]
    /\ UNCHANGED <<sessionVars, row, attachments, closing, toStop, hook, late>>

\* The rejected transaction has rolled back, which releases the lock.
RollBackStart(r) ==
    /\ start[r].stage = "cleaning"
    /\ start[r].started = {}
    /\ start' = [start EXCEPT ![r].stage = "over"]
    /\ UNCHANGED <<sessionVars, egress, row, attachments, closing, toStop, hook, faults,
                   faulted, late>>

\* An orphan gets a row outside the transaction, if the insert succeeds.
Compensate(r) ==
    /\ start[r].stage = "over"
    /\ \E e \in start[r].orphaned :
           /\ start' = [start EXCEPT ![r].orphaned = @ \ {e}]
           /\ \/ row' = Recorded({e}, TRUE) /\ NoFault
              \/ UNCHANGED row /\ Fault({e})
    /\ UNCHANGED <<sessionVars, egress, attachments, closing, toStop, hook, late>>

CrashStart(r) ==
    /\ \/ start[r].stage \in {"starting", "cleaning"}
       \/ start[r].orphaned # {}
    /\ Fault(start[r].started \cup start[r].orphaned)
    /\ start' = Finished(r)
    /\ UNCHANGED <<sessionVars, egress, row, attachments, closing, toStop, hook, late>>

-----------------------------------------------------------------------------
(* What stops recordings: the end of the session, a request, the janitor.  *)

\* The end route: endSession, then stopActiveEgressForSession.
EndCall(s) ==
    /\ EndSession(s)
    /\ closing' = closing \cup {s}
    /\ UNCHANGED <<egress, row, attachments, start, toStop, hook, faults, faulted, late>>

ListToStop_Starting(s) ==    \* mutated: the rows in 'starting' are taken, which no insert writes
    /\ s \in closing
    /\ closing' = closing \ {s}
    /\ UNCHANGED <<sessionVars, egress, row, attachments, start, toStop, hook, faults, faulted, late>>

ListToStop(s) ==
    /\ s \in closing
    /\ closing' = closing \ {s}
    /\ toStop' = [toStop EXCEPT ![s] = SessionRows(s)]
    /\ UNCHANGED <<sessionVars, egress, row, attachments, start, hook, faults, faulted, late>>

\* stopRecording of a group: one call for each row that was in recording when
\* the rows were listed, which may be long ago.  The rows stay as they are until
\* the webhook comes; a call that failed is counted for the caller.
StopTrack(e) ==
    /\ Running(e)
    /\ row[e].status # "absent"
    /\ \E ok \in BOOLEAN : StopEgress(e, ok)
    /\ UNCHANGED <<sessionVars, row, attachments, start, closing, toStop, hook, late>>

Reap(es) ==
    /\ toStop[Janitor] = {}
    /\ es # {}
    /\ row' = [e \in Egresses |-> IF e \in es THEN [row[e] EXCEPT !.status = "failed"] ELSE row[e]]
    /\ toStop' = [toStop EXCEPT ![Janitor] = es]
    /\ UNCHANGED <<sessionVars, egress, attachments, start, closing, hook, faults, faulted, late>>

\* The job calls.recording_janitor: one UPDATE of the rows in recording that are
\* older than its window, then a stop for each.  Which are old enough is open.
RunJanitor_Any(e) ==    \* mutated: the update does not look at the status
    \E es \in SUBSET {f \in Egresses : row[f].status # "absent"} : e \in es /\ Reap(es)

RunJanitor_Ended(e) ==    \* mutated: a row is given up only when its egress has ended
    \E es \in SUBSET {f \in Egresses : row[f].status = "recording" /\ ~ Running(f)} :
        e \in es /\ Reap(es)

RunJanitor(e) ==
    \E es \in SUBSET {f \in Egresses : row[f].status = "recording"} : e \in es /\ Reap(es)

\* Each handler's loop: a failed stop is counted or ignored, never repeated.
StopNext(h) ==
    /\ \E e \in toStop[h], ok \in BOOLEAN :
           /\ StopEgress(e, ok)
           /\ toStop' = [toStop EXCEPT ![h] = @ \ {e}]
    /\ UNCHANGED <<sessionVars, row, attachments, start, closing, hook, late>>

CrashStop(h) ==
    /\ toStop[h] # {} \/ h \in closing
    /\ Fault(toStop[h] \cup IF h \in closing THEN SessionRows(h) ELSE {})
    /\ toStop' = [toStop EXCEPT ![h] = {}]
    /\ closing' = closing \ {h}
    /\ UNCHANGED <<sessionVars, egress, row, attachments, start, hook, late>>

-----------------------------------------------------------------------------
(* The provider's webhook egress_ended, delivered any number of times, or   *)
(* never; it is answered with 204 also when its row is not there (yet).     *)

\* reconcileEgressEnded and failRecordingByEgress read the row first.
ReadRow(d) ==
    /\ hook[d] = None
    /\ \E e \in Egresses :
           /\ \/ egress[e].state = "file" /\ row[e].status \in {"recording", "failed"}
              \/ egress[e].state = "empty" /\ row[e].status = "recording"
           /\ hook' = [hook EXCEPT ![d] = e]
    /\ UNCHANGED <<sessionVars, egress, row, attachments, start, closing, toStop, faults,
                   faulted, late>>

\* UPDATE ... WHERE attachment_id IS NULL.  With a file, the asset and the
\* attachment are created in the same transaction, which rolls back when
\* another delivery was faster (also on the asset's unique storage key).
CloseRow_Unclaimed(d) ==    \* mutated: the update takes any row of the egress
    /\ hook[d] # None
    /\ LET e == hook[d] IN
       /\ row' = [row EXCEPT ![e].status = IF egress[e].state = "file" THEN "ready" ELSE "failed"]
       /\ attachments' = [attachments EXCEPT ![e] = IF egress[e].state = "file" THEN @ + 1 ELSE @]
    /\ hook' = [hook EXCEPT ![d] = None]
    /\ UNCHANGED <<sessionVars, egress, start, closing, toStop, faults, faulted, late>>

CloseRow(d) ==
    /\ hook[d] # None
    /\ LET e == hook[d] IN
       \/ /\ row[e].status # "ready"
          /\ egress[e].state = "file"
          /\ row' = [row EXCEPT ![e].status = "ready"]
          /\ attachments' = [attachments EXCEPT ![e] = @ + 1]
       \/ /\ row[e].status # "ready"
          /\ egress[e].state = "empty"
          /\ row' = [row EXCEPT ![e].status = "failed"]
          /\ UNCHANGED attachments
       \/ /\ row[e].status = "ready"
          /\ UNCHANGED <<row, attachments>>
    /\ hook' = [hook EXCEPT ![d] = None]
    /\ UNCHANGED <<sessionVars, egress, start, closing, toStop, faults, faulted, late>>

\* A statement fails or the process dies: the transaction changes nothing.
RollBackHook(d) ==
    /\ hook[d] # None
    /\ hook' = [hook EXCEPT ![d] = None]
    /\ UNCHANGED <<sessionVars, egress, row, attachments, start, closing, toStop, faults,
                   faulted, late>>

-----------------------------------------------------------------------------
SessionStep ==
    /\ \/ \E s \in Sessions : StartSession(s)
       \/ \E t \in Seats : IssueJoinToken(t) \/ UpdateParticipant(t)
       \/ \E r \in updating : CommitUpdate(r) \/ RollBackUpdate(r)
    /\ UNCHANGED recordingVars

StartStep(r) ==
    \/ Resolve(r)
    \/ BeginStart(r)
    \/ StartTrack(r)
    \/ CommitStart(r)
    \/ CleanTrack(r)
    \/ RollBackStart(r)
    \/ Compensate(r)

Next ==
    \/ SessionStep
    \/ \E s \in Sessions : EndCall(s) \/ ListToStop(s)
    \/ \E r \in Starters : StartStep(r) \/ CrashStart(r)
    \/ \E h \in Handlers : StopNext(h) \/ CrashStop(h)
    \/ \E e \in Egresses : EgressEnds(e) \/ RunJanitor(e) \/ StopTrack(e)
    \/ \E d \in Deliveries : ReadRow(d) \/ CloseRow(d) \/ RollBackHook(d)

Spec == Init /\ [][Next]_vars

\* Relied on is only the janitor: its hourly schedule, by which every row is once
\* old enough, and that its loop goes on.  Webhooks may be lost.
Fairness ==
    /\ \A e \in Egresses : WF_vars(RunJanitor(e))
    /\ WF_vars(StopNext(Janitor))

FairSpec == Spec /\ Fairness

-----------------------------------------------------------------------------
(* Properties.                                                             *)

\* Every variable has its type.
TypeOK ==
    /\ SessionTypeOK
    /\ egress \in [Egresses -> Egress]
    /\ row \in [Egresses -> Rows]
    /\ attachments \in [Egresses -> Nat]
    /\ start \in [Starters -> Starts]
    /\ closing \subseteq Sessions
    /\ toStop \in [Handlers -> SUBSET Egresses]
    /\ hook \in [Deliveries -> Egresses \cup {None}]
    /\ faults \in 0 .. MaxFaults
    /\ faulted \subseteq Egresses
    /\ late \subseteq Egresses

\* However many requests start a recording of a session at once, one group of
\* tracks records it: the rows of another are compensations of a failed start.
OneGroupRecords ==
    LET recorded == {e \in Egresses : row[e].status = "recording" /\ ~ row[e].compensation} IN
    \A e, f \in recorded :
        egress[e].session = egress[f].session => egress[e].group = egress[f].group

\* A file is attached once, however often and concurrently the webhook is
\* delivered, and a row is ready exactly when its file is attached.
AttachedOnce ==
    \A e \in Egresses : attachments[e] = IF row[e].status = "ready" THEN 1 ELSE 0

\* An egress that runs is known to a row, or to the request that started it,
\* unless a failure of that request came between.
NoEgressForgotten ==
    \A e \in Egresses :
        Running(e) /\ row[e].status = "absent" =>
            \/ e \in faulted
            \/ \E r \in Starters : e \in start[r].started \cup start[r].orphaned

\* Once the end of a session is through with its stops, what still runs for it
\* was hit by a failure, or is the recording of a start that was under way.
Pending == UNION {toStop[h] : h \in Handlers}

RecordedAfterEnd ==
    {e \in Egresses : /\ Running(e)
                      /\ row[e].status # "absent"
                      /\ session[egress[e].session] = "ended"
                      /\ egress[e].session \notin closing}

EndStopsRecordings == RecordedAfterEnd \subseteq faulted \cup late \cup Pending

\* A recording that is ready stays so: no late failure, janitor or second
\* delivery takes its file away.
ReadyStays ==
    [][\A e \in Egresses : row[e].status = "ready" => row'[e].status = "ready"]_row

\* Every recording is ready or failed in the end, also when its webhook was
\* lost or came before the row.
EveryRecordingEnds ==
    \A e \in Egresses : row[e].status = "recording" ~> row[e].status \in {"ready", "failed"}

-----------------------------------------------------------------------------
(* What the repository says of itself and the code does not do.            *)

\* Ending the session must not leave an egress recording the ended call.
EndedCallNotRecorded == RecordedAfterEnd \subseteq faulted \cup Pending
=============================================================================

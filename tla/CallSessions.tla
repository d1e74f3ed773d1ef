---------------------------- MODULE CallSessions ----------------------------
(***************************************************************************)
(* The sessions of one call room and the states of their participants.     *)
(* Handlers are transactions of the database; a handler that reads and     *)
(* later writes is two actions, with the row lock it holds in between.     *)
(***************************************************************************)
EXTENDS Integers

CONSTANTS
    MaxSessions,        \* bound: sessions the room has, numbered as they start
    Users,
    Seats,              \* <<session, user>>: the participant states that are followed
    ParticipantStates   \* invited, joining, joined, left, removed

Sessions == 1 .. MaxSessions

ASSUME SessionAssumption ==
    /\ MaxSessions \in Nat
    /\ Seats \subseteq Sessions \X Users

VARIABLES
    room,         \* call_rooms.status
    session,      \* call_sessions.status
    participant,  \* call_participant_states, per seat
    updating      \* participant handlers between their lock and their commit

sessionVars == <<room, session, participant, updating>>

NoState == "none"

States == ParticipantStates \cup {NoState}

Updates == [seat: Seats, from: States, to: States]

SessionInit ==
    /\ room = "open"
    /\ session = [s \in Sessions |-> "absent"]
    /\ participant = [t \in Seats |-> NoState]
    /\ updating = {}

Active == {s \in Sessions : session[s] = "active"}

\* SELECT ... FOR UPDATE on the session's row, until the handler commits
SessionLocked(s) == \E r \in updating : r.seat[1] = s

IsNext(s) == session[s] = "absent" /\ \A t \in 1 .. s - 1 : session[t] # "absent"

\* startSession.  The room's status read before the transaction only refuses
\* early; what decides is the index of one active session per room.
StartSession_Unindexed(s) ==    \* mutated: only the new session's own row is looked at
    /\ IsNext(s)
    /\ session' = [session EXCEPT ![s] = "active"]
    /\ room' = "active"
    /\ UNCHANGED <<participant, updating>>

StartSession(s) ==
    /\ IsNext(s)
    /\ Active = {}
    /\ session' = [session EXCEPT ![s] = "active"]
    /\ room' = "active"
    /\ UNCHANGED <<participant, updating>>

\* endSession: UPDATE ... WHERE status = 'active' waits for the row's lock.
EndSession_Unlocked(s) ==    \* mutated: the handlers' lock is not waited for
    /\ session[s] = "active"
    /\ session' = [session EXCEPT ![s] = "ended"]
    /\ room' = "ended"
    /\ UNCHANGED <<participant, updating>>

EndSession_Closed(s) ==    \* mutated: a status the table's check does not know
    /\ session[s] = "active"
    /\ ~ SessionLocked(s)
    /\ session' = [session EXCEPT ![s] = "closed"]
    /\ room' = "ended"
    /\ UNCHANGED <<participant, updating>>

EndSession(s) ==
    /\ session[s] = "active"
    /\ ~ SessionLocked(s)
    /\ session' = [session EXCEPT ![s] = "ended"]
    /\ room' = "ended"
    /\ UNCHANGED <<participant, updating>>

\* findActiveCallSessionForUpdate; the handler then reads the previous state.
LockSession(seat, to) ==
    /\ session[seat[1]] = "active"
    /\ ~ SessionLocked(seat[1])
    /\ updating' = updating \cup {[seat |-> seat, from |-> participant[seat], to |-> to]}
    /\ UNCHANGED <<room, session, participant>>

\* issueJoinToken: an event and a token, no change of state.
IssueJoinToken(seat) == LockSession(seat, participant[seat])

\* updateParticipantState: the caller's own state, or anyone's for a manager.
UpdateParticipant(seat) == \E to \in ParticipantStates : LockSession(seat, to)

CommitUpdate(r) ==
    /\ participant' = [participant EXCEPT ![r.seat] = r.to]
    /\ updating' = updating \ {r}
    /\ UNCHANGED <<room, session>>

\* The provider refuses the token, a statement fails, the process dies.
RollBackUpdate(r) ==
    /\ updating' = updating \ {r}
    /\ UNCHANGED <<room, session, participant>>

-----------------------------------------------------------------------------
SessionTypeOK ==
    /\ room \in {"open", "active", "ended"}
    /\ session \in [Sessions -> {"absent", "active", "ended"}]
    /\ participant \in [Seats -> States]
    /\ updating \subseteq Updates

\* The room is shown as active exactly while one session is, and never two:
\* otherwise ending one of them would close the room under the other.
RoomFollowsSession ==
    /\ room = "active" <=> Active # {}
    /\ \A s, t \in Active : s = t

\* Whoever has checked that the session is active, and has read a participant's
\* state, may rely on both until it commits: no token or join event after the
\* session's end, no event of a change that another handler made.
ReadsStayFresh ==
    \A r \in updating :
        /\ session[r.seat[1]] = "active"
        /\ participant[r.seat] = r.from
=============================================================================

SPECIFICATION FairSpec
CONSTANTS
    u1 = u1
    r1 = r1
    r2 = r2
    MaxSessions = 2
    Users = {u1}
    Seats <- SeatsFollowed
    ParticipantStates = {"joined"}
    Starters = {r1, r2}
    SessionOf <- RequestsOf
    MaxEgresses = 2
    MaxTracks = 2
    Deliveries = {d1, d2}
    MaxFaults = 1
    None = None
    Janitor = Janitor
INVARIANTS
    TypeOK
    RoomFollowsSession
    ReadsStayFresh
    OneGroupRecords
    AttachedOnce
    NoEgressForgotten
    EndStopsRecordings
PROPERTIES
    ReadyStays
    EveryRecordingEnds
CHECK_DEADLOCK FALSE

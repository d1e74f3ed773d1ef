SPECIFICATION FairSpec
CONSTANTS
    MaxNotifications = 2
    Users = {u1, u2}
    Runs = {r1, r2}
    BatchLimits = {1, 2}
    UserLimit = 1
    MaxAttempts = 2
    MaxCrashes = 1
    NoUser = NoUser
INVARIANTS
    TypeOK
    NothingLost
    MailedIsMarked
PROPERTIES
    MarkIsFinal
    QueueDrains
CHECK_DEADLOCK FALSE

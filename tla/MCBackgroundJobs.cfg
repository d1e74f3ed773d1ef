SPECIFICATION FairSpec
CONSTANTS
    Processes = {p1, p2}
    WorkerId <- OwnPid
    Jobs = {j1, j2}
    MaxAttempts = 2
    MaxCrashes = 1
    NoJob = NoJob
    NoWorker = NoWorker
INVARIANTS TypeOK NoDoubleRun NoEarlyDeath
PROPERTIES LeaseRespected FinalStays EveryJobEnds

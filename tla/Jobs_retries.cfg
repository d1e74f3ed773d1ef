SPECIFICATION Spec
CONSTANTS
    Processes = {p1, p2}
    WorkerId <- OwnPid
    Jobs = {j1}
    MaxAttempts = 2
    MaxCrashes = 0
    NoJob = NoJob
    NoWorker = NoWorker
INVARIANT RetriesBounded

SPECIFICATION FairSpec
CONSTANTS
    t1 = t1
    ann = ann
    bob = bob
    r1 = r1
    NoKey = NoKey
    NoRun = NoRun
    NoEnvelope = NoEnvelope
    Tasks <- MCTasks
    MaxUnits = 2
    Slots = {s1, s2, s3}
    Templates <- MCTemplates
    Actors = {ann, bob}
    Keys = {}
    Runs = {r1}
    InitialPlan <- MCInitialPlan
INVARIANT RunLifecycle
PROPERTY EveryRequestEnds
CHECK_DEADLOCK FALSE

SPECIFICATION Spec
CONSTANTS
    t1 = t1
    t2 = t2
    ann = ann
    bob = bob
    k1 = k1
    k2 = k2
    NoKey = NoKey
    NoRun = NoRun
    NoEnvelope = NoEnvelope
    Tasks <- MCTasks
    MaxUnits = 2
    Slots = {s1, s2, s3}
    Templates <- MCTemplates
    Actors = {ann, bob}
    Keys = {k1, k2}
    Runs = {}
    InitialPlan <- MCInitialPlan
SYMMETRY SlotSymmetry
INVARIANTS
    TypeOK
    OneCommitPerVersion
    NoStaleWrite
    IdempotentWrites
    RevertRestoresFields
PROPERTY LinearHistory
CHECK_DEADLOCK FALSE

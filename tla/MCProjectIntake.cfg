SPECIFICATION Spec
CONSTANTS
    p1 = p1
    p2 = p2
    s1 = s1
    s2 = s2
    s3 = s3
    Opportunities = {o1, o2}
    Demands = {0, 2}
    Capacity = 3
    Pipelines = {p1, p2}
    Stages = {s1, s2, s3}
    PipelineOf <- StagePipelines
    Rules <- MoveRules
    FeasibleRules <- MoveRules
    Handlers = {h1}
    Activations = {a1, a2}
    None = None
INVARIANTS
    TypeOK
    ProjectOfWon
    NoSilentOverbooking
PROPERTIES
    FinalIsFrozen
CHECK_DEADLOCK FALSE

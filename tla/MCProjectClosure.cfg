SPECIFICATION Spec
CONSTANTS
    Slots = {s1, s2, s3, s4}
    NoClosure = NoClosure
SYMMETRY SlotSymmetry
INVARIANTS TypeOK ClosedOnce OneLateWrite
PROPERTIES StatusMoves ClosureImmutable
CHECK_DEADLOCK FALSE

SPECIFICATION Spec
CONSTANTS
    Slots = {s1, s2}
    NoClosure = NoClosure
SYMMETRY SlotSymmetry
INVARIANT SnapshotConsistent
CHECK_DEADLOCK FALSE

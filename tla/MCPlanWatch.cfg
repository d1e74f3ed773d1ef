SPECIFICATION Spec
CONSTANTS
    Gets = {g1, g2}
    NoGet = NoGet
    EditKeys = {"apply"}
    MaxVersion = 4
SYMMETRY GetSymmetry
INVARIANTS TypeOK BannerTellsNewest
PROPERTY ReloadsAdvance

SPECIFICATION LiveSpec
CONSTANTS
    MaxPages = 2
    NBlocks = 2
    v1 = v1
    None = None
    w1 = w1
    Vals = {v1}
    Kinds = {"huge"}
    Modes = {"huge", "page"}
    Sweeps = {w1}
    BatchMax = 2
    BatchSizes = {0, 1, 3}
    Limits = {3}
    Unit = 2
    Wrap = 8
    Secondary = FALSE
    Reading = FALSE
    Overlap = {}
INVARIANTS
    TypeOK
    TableAlive
    BlocksAccounted
    WithinBudget
PROPERTIES
    SweepEnds

SPECIFICATION Spec
CONSTANTS
    MaxPages = 1
    NBlocks = 2
    v1 = v1
    v2 = v2
    None = None
    w1 = w1
    w2 = w2
    Vals = {v1, v2}
    Kinds = {"comp", "huge"}
    Modes = {"idle"}
    Sweeps = {w1, w2}
    BatchMax = 1
    BatchSizes = {}
    Limits = {}
    Unit = 1
    Wrap = 8
    Secondary = TRUE
    Reading = TRUE
    Overlap = {"sweep"}
SYMMETRY Interchangeable
INVARIANTS
    ReadsBack
    UnderWbOwned
    CountersExact
    CtlAlive
PROPERTIES
    ServesPages

SPECIFICATION Spec
CONSTANTS
    MaxPages = 1
    NBlocks = 1
    v1 = v1
    None = None
    w1 = w1
    Vals = {v1}
    Kinds = {"comp"}
    Modes = {"idle"}
    Sweeps = {w1}
    BatchMax = 1
    BatchSizes = {}
    Limits = {}
    Unit = 1
    Wrap = 8
    Secondary = FALSE
    Reading = TRUE
    Overlap = {}
INVARIANT
    ReadsReturnPage

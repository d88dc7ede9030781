SPECIFICATION FairSpec
CONSTANTS
    NPages = 3
    Sizes = {3}
    Secondaries = {1}
    Huge = 3
    Contents <- TwoContents
    Nodes = {"sync"}
    Caps = {1}
    MarkEvery = 2
    Requests <- NoRequests
    MaxStores = 3
    MaxFails = 0
    MaxJobs = 1
    Overlap = FALSE
PROPERTIES
    MarkedReached

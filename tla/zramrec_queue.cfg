SPECIFICATION FairSpec
CONSTANTS
    NPages = 2
    Sizes = {2}
    Secondaries = {1}
    Huge = 3
    Contents <- TwoContents
    Nodes = {"async"}
    Caps = {1}
    MarkEvery = 0
    Requests <- OtherRequests
    MaxStores = 2
    MaxFails = 1
    MaxJobs = 1
    Overlap = FALSE
INVARIANTS
    TypeOK
    JobsAlive
PROPERTIES
    AwayUntouched
    MarkedReached
    ResetEnds

SPECIFICATION Spec
CONSTANTS
    NoFile = NoFile
    Created = Created
    Files <- FewFiles
    Atoms <- FewAtoms
    Trees <- FewTrees
    Children <- FewChildren
    AddressC = "address.c"
    AddressGate <- MCGate
    AddressText <- MCAddress
    MoonC = "moon_kmsg.c"
    MoonTexts <- MCMoon
    MoonMakefile = "drivers/Makefile"
    MoonMarker <- MCMarker
    Targets = {0, 1, 2}
    MayDry = FALSE
    MayRollback = TRUE
    Families = {TRUE, FALSE}
    Faults = {"write", "crash"}
    MaxFaults = 2
    MaxRuns = 3
INVARIANTS
    TypeOK
    SnapshotsSound
    RollbackRestores
    DependenciesMet
CHECK_DEADLOCK FALSE

SPECIFICATION Spec
CONSTANTS
    NoFile = NoFile
    Created = Created
    Files <- ShapeFiles
    Atoms <- ShapeAtoms
    Trees <- ShapeTrees
    Children <- ShapeChildren
    AddressC = "address.c"
    AddressGate <- MCGate
    AddressText <- MCAddress
    MoonC = "moon_kmsg.c"
    MoonTexts <- MCMoon
    MoonMakefile = "drivers/Makefile"
    MoonMarker <- MCMarker
    Targets = {0, 1, 2, 3}
    MayDry = FALSE
    MayRollback = TRUE
    Families = {TRUE, FALSE}
    Faults = {"snapshot", "crash", "newfile"}
    MaxFaults = 2
    MaxRuns = 3
PROPERTY
    SnapshotNeverOverwritten
CHECK_DEADLOCK FALSE

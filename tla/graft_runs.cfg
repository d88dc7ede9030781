SPECIFICATION Spec
CONSTANTS
    NoFile = NoFile
    Created = Created
    Files <- AllFiles
    Atoms <- AllAtoms
    Trees <- AllTrees
    Children <- AllChildren
    AddressC = "address.c"
    AddressGate <- MCGate
    AddressText <- MCAddress
    MoonC = "moon_kmsg.c"
    MoonTexts <- MCOneMoon
    MoonMakefile = "drivers/Makefile"
    MoonMarker <- MCMarker
    Targets = {0, 1}
    MayDry = TRUE
    MayRollback = FALSE
    Families = {TRUE}
    Faults = {}
    MaxFaults = 0
    MaxRuns = 2
INVARIANTS
    SecondPassStable
    WholeGroups
    DryRunForecasts
    GroupsLandWhole
    ReportsEveryEdit
    DegradedLeavesNoTrace
    DependenciesMet
CHECK_DEADLOCK FALSE

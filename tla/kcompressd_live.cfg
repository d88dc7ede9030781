SPECIFICATION FairSpec
CONSTANTS
    p1 = p1
    p2 = p2
    s1 = s1
    s2 = s2
    Pages = {p1, p2}
    Slots = {s1, s2}
    FifoSize = 1
    Thresholds = {0, 1}
    WbPin = TRUE
    Nobody = Nobody
PROPERTIES
    WritebackEnds
    TeardownEnds
    KswapdReturns

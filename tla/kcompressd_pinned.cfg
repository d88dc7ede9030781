SPECIFICATION Spec
CONSTANTS
    p1 = p1
    p2 = p2
    p3 = p3
    s1 = s1
    s2 = s2
    s3 = s3
    Pages = {p1, p2, p3}
    Slots = {s1, s2, s3}
    FifoSize = 2
    Thresholds = {0, 1, 2}
    WbPin = TRUE
    Nobody = Nobody
SYMMETRY Interchangeable
INVARIANTS
    TypeOK
    SwappedOutIsReadable
    SlotPinned
    RefsBalanced
    NoSelfLock
    RingAlive

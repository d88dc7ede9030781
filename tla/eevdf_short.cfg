SPECIFICATION Spec
CHECK_DEADLOCK FALSE
CONSTANTS
    None = None
    a = a
    b = b
    c = c
    Entities = {a, b, c}
    Weights = {2}
    Nice0 = 2
    MinGran = 2
    Requests = {1}
    TickNsec = 1
    Thresh = 1
    Below = 1
    Deltas = {1}
    Horizon = 3
    MaxMoves = 2
SYMMETRY Interchangeable
PROPERTIES
    ShortRequestPreempts

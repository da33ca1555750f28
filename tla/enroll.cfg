CONSTANTS
    Clients = {c1, c2}
    Sizes = {3, 4}
    Ttl = 1
    MaxRestarts = 1
    NoOne = NoOne
    NoSession = NoSession
    NoFile = NoFile
    Torn = Torn
SPECIFICATION Spec
SYMMETRY Symmetry
CHECK_DEADLOCK FALSE
INVARIANTS
    TypeOK
    PointerValid
    FrameBound
    FramesBelong
PROPERTY OkMeansSaved

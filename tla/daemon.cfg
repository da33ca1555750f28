CONSTANTS
    Conns = {c1}
    Signals = {s1, s2}
    Faults = {"poll", "accept", "thread"}
SPECIFICATION FairSpec
CHECK_DEADLOCK FALSE
INVARIANTS
    TypeOK
    StopFindsServer
    JoinedBeforeDestroyed
PROPERTIES
    StopEndsLoops
    StopEndsProcess

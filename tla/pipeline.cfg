CONSTANTS
    Conns = {c1, c2}
    Policies = {"lazy", "idle_keep", "warm"}
    Window = 1
    Requests = {"auth", "test", "enroll_frame", "enroll_finish", "plain", "broken"}
    NoOne = NoOne
SPECIFICATION FairSpec
INVARIANTS
    TypeOK
    MutexHeld
    StreamTimed
    LitIsAttended
PROPERTIES
    PrewarmNeverReopens
    OnlyWatchdogCloses
    LedGoesDark
    EveryConnectionEnds

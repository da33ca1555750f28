CONSTANTS
    Logins = {c1, c2}
    Labels = {l1}
    Timeout = 1
    MaxSignals = 1
    NoOne = NoOne
SPECIFICATION FairSpec
CHECK_DEADLOCK FALSE
INVARIANTS
    TypeOK
    GrantIsEarned
    LoginBounded
PROPERTY LoginEnds

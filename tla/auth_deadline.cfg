CONSTANTS
    Logins = {c1}
    Labels = {l1}
    Timeout = 2
    MaxSignals = 0
    NoOne = NoOne
SPECIFICATION Spec
CHECK_DEADLOCK FALSE
INVARIANT TotalDeadline

CONSTANTS
    Threads = {t1, t2}
    Labels = {l1}
    NoOne = NoOne
    NoLabel = NoLabel
    NoFile = NoFile
    MaxTime = 1
    Faults = {}
    SharedLabel = "yes"
SPECIFICATION Spec
SYMMETRY Symmetry
CHECK_DEADLOCK FALSE
INVARIANT FilesAreComplete

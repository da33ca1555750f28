CONSTANTS
    Threads = {t1, t2, t3}
    Labels = {l1, l2}
    NoOne = NoOne
    NoLabel = NoLabel
    NoFile = NoFile
    MaxTime = 1
    Faults = {"open", "write", "flush", "rename", "unlink", "opendir", "readdir", "stat",
              "read", "slash", "power"}
    SharedLabel = "no"
SPECIFICATION Spec
SYMMETRY Symmetry
CHECK_DEADLOCK FALSE
INVARIANTS
    TypeOK
    NeverMixed
    CacheCoherent
    ReadsAreExact
PROPERTY
    ImplementsCredentialStore

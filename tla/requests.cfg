CONSTANTS
    c1 = c1
    c2 = c2
    Clients = {c1, c2}
    Jobs <- MCJobs
    Users <- MCUsers
    s1 = s1
    s2 = s2
    Labels = {"face", "success", "door"}
    BadLabels = {"a/b", "../2/door"}
    Reach <- MCReach
    Sessions = {s1, s2}
    Foreign <- MCForeign
    Enrolled <- MCEnrolled
    Width = 3
    Prefix = 1
    Payload = 2
    Garbage = Garbage
    None = None
    Gone = Gone
SPECIFICATION FairSpec
CHECK_DEADLOCK FALSE
INVARIANTS
    TypeOK
    HandledIsSent
    AnswersAreTrue
PROPERTIES
    ChangesAreAuthorised
    ConnectionsEnd

SPECIFICATION Spec
CONSTANTS
    Callers = {"c1", "c2"}
    GuardTtl = 1
    UnavailableTtl = 1
    Attempts = 1
    QueryTimeout = 1
    Changes = 2
    Workloads <- MCWorkloads
    Kinds <- MCKinds
    Servers <- MCServers
    Replies <- MCReplies
    MaxQueries = 3
    MaxAdvice = 2
    MaxTotal = 2
    MaxErrors = 2
    MaxTotalErrors = 1
    MaxReasons = 1
    Pipe = 0
INVARIANTS NothingForgotten NothingAskedIsDropped
PROPERTIES UnavailableIsRecent NothingHangs
CHECK_DEADLOCK FALSE

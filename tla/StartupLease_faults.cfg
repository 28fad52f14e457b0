CONSTANTS
    Procs = {p1, p2}
    None = None
    Ttl = 2
    Heartbeat = 1
    AcquireTimeout = 1
    Delay = 0
    ProbeMode = "FailFast"
    SkipChoices = {FALSE, TRUE}
SPECIFICATION Spec
SYMMETRY Symmetry
INVARIANTS TypeOK AtMostOneStaleRow RunTellsItsStory SkippedWasCompleted

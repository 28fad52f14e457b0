CONSTANTS
    Procs = {p1, p2, p3}
    None = None
    Ttl = 4
    Heartbeat = 1
    AcquireTimeout = 1
    Delay = 1
    ProbeMode = "Warn"
    SkipChoices = {FALSE}
SPECIFICATION TimelySpec
SYMMETRY Symmetry
VIEW WithoutJournal
INVARIANTS OneHolderAtATime
PROPERTIES LiveLeaseEndsByItsOwner

CONSTANTS
    Procs = {p1, p2}
    None = None
    Ttl = 2
    Heartbeat = 1
    AcquireTimeout = 1
    Delay = 0
    ProbeMode = "Warn"
    SkipChoices = {FALSE}
SPECIFICATION FairSpec
VIEW WithoutJournal
PROPERTIES StartupSettles DeadLeaseLapses

CONSTANTS
    Calls <- MCCalls
    Loads <- MCLoads
    Threshold = 2
    Cooldown = 2
    MaxEntries = 2
    Ttl = 1
    MaxJobs = 5
    MaxTime = 4
SPECIFICATION Spec
INVARIANTS FullTableIsSafe
PROPERTIES OpensOnStreak CircuitCloses EvictionIsFair

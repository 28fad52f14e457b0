CONSTANTS
    Cancelers = {c1, c2}
    Waiters = {w1}
    Starters = {"query_start", "query_job_start", "enqueue_task"}
    Callers = {t1, t2}
    Kinds = {"begin", "select"}
    IdleTtl = 2
    MaxUses = 2
    MaxBack = 1
SPECIFICATION BothSpec
CHECK_DEADLOCK FALSE
INVARIANTS NoMissedUpdate CanceledWorkIsAborted SessionHasItsTimer
PROPERTIES KeepsPromise WaitersAreAnswered IdleSessionsExpire

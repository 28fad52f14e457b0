CONSTANTS
    Cancelers = {c1}
    Waiters = {w1}
    Starters = {"query_job_start"}
SPECIFICATION FairSpec
CHECK_DEADLOCK FALSE
PROPERTIES JobStatusIsAnswered

--------------------------- MODULE MCJobAndSession ---------------------------
(* The two things that outlive a call and that timers and other calls reach  *)
(* for: an asynchronous job (QueryJobHandle) and a pinned session            *)
(* (PinnedSession). They share no state, so a behaviour uses one of them     *)
(* only: the session is gone before the job starts, or it is opened when a   *)
(* job that nobody asked for or canceled has succeeded.                      *)
EXTENDS QueryJobHandle, PinnedSession

SessionIsGone ==
    /\ opening = "done" /\ present = FALSE /\ alive = FALSE /\ driverFailed = FALSE
    /\ expiresIn = 0 /\ generation = 0 /\ txn = "none" /\ timers = {}
    /\ caller = [c \in Callers |-> "idle"] /\ stmt = [c \in Callers |-> "select"]
    /\ age = [c \in Callers |-> 0] /\ uses = MaxUses /\ back = MaxBack

NobodyAsks ==
    /\ starter = "enqueue_task" /\ state = "pending" /\ response = "none"
    /\ revision = 0 /\ slot = FALSE /\ aborted = FALSE
    /\ launcher = "created" /\ doomed = FALSE
    /\ worker = "unspawned" /\ outcome = "failed"
    /\ canceler = [c \in Cancelers |-> "over"]
    /\ waiter = [w \in Waiters |-> "answered"] /\ mode = [w \in Waiters |-> "Immediate"]
    /\ seen = [w \in Waiters |-> "pending"]
    /\ seenRev = [w \in Waiters |-> 0] /\ readRev = [w \in Waiters |-> 0]
    /\ notified = {}

JobSucceeded == worker = "over" /\ state = "succeeded"

BothInit == (Init /\ SessionIsGone) \/ (NobodyAsks /\ SessionInit)
BothNext ==
    \/ Next /\ UNCHANGED sessionVars
    \/ JobSucceeded /\ SessionNext /\ UNCHANGED vars
BothSpec == BothInit /\ [][BothNext]_<<vars, sessionVars>> /\ Fairness /\ SessionFairness
=============================================================================

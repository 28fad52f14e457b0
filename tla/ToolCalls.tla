------------------------------ MODULE ToolCalls ------------------------------
(***************************************************************************)
(* Tool calls between the circuit breaker (CircuitBreaker) and the table   *)
(* of jobs (QueryJobRegistry): call_tool, enqueue_task and tasks/* of      *)
(* src/server.rs, query_job_start of src/tools/query_surface.rs.           *)
(*                                                                         *)
(* A full table is a retryable failure like one of the database, and       *)
(* query_job_start shares its circuit with query_sql. The jobs themselves, *)
(* and tasks, call their tools past the breaker.                           *)
(***************************************************************************)
EXTENDS CircuitBreaker, QueryJobRegistry

\* Bounds: [calls, jobs, time], the calls that may overlap, the jobs made and the table's clock
\* in one behaviour.
CONSTANT Loads

VARIABLES
    granted,   \* what the table answered to the query_job_start of a call, if it did
    load       \* the bounds of this behaviour

vars == <<breakerVars, registryVars, granted, load>>

Init ==
    /\ BreakerInit /\ RegistryInit
    /\ granted = [c \in Calls |-> "none"] /\ load \in Loads

-----------------------------------------------------------------------------

\* call_tool finds the circuit closed.
Begin(c, t) ==
    /\ c \in load.calls /\ Admit(c, t)
    /\ UNCHANGED <<registryVars, granted, load>>

MakeJob == nextId <= load.jobs /\ Create

\* query_job_start asks the table for a job.
AskForJob(c) ==
    /\ tool[c] = "query_job_start" /\ granted[c] = "none"
    /\ \/ MakeJob /\ granted' = [granted EXCEPT ![c] = "job"]
       \/ Refuse /\ granted' = [granted EXCEPT ![c] = "full"]
    /\ UNCHANGED <<breakerVars, load>>

\* classify_outcome and classify_retryable_error. query_job_start asks the database nothing
\* itself: without an answer of the table its arguments were bad.
OutcomesOf(c) ==
    IF tool[c] # "query_job_start" THEN Outcomes
    ELSE CASE granted[c] = "job" -> {"Success"}
           [] granted[c] = "full" -> {"RetryableFailure"}
           [] OTHER -> {"NonRetryableFailure"}

Return(c) ==
    /\ \E outcome \in OutcomesOf(c) : Finish(c, outcome)
    /\ granted' = [granted EXCEPT ![c] = "none"]
    /\ UNCHANGED <<registryVars, load>>

\* enqueue_task asks the table, and never the breaker.
EnqueueTask == (MakeJob \/ Refuse) /\ UNCHANGED <<breakerVars, granted, load>>

\* Statuses, lists, ends and cancellations of jobs and tasks: nothing of it is recorded.
ManageJobs == (Look \/ \E j \in Ids : End(j)) /\ UNCHANGED <<breakerVars, granted, load>>

\* The breaker's clock is monotonic, the table's is not.
TimePasses ==
    \/ Tick /\ UNCHANGED <<registryVars, granted, load>>
    \/ ClockMoves /\ now' <= load.time /\ UNCHANGED <<breakerVars, granted, load>>

Next ==
    \/ \E c \in Calls : AskForJob(c) \/ Return(c) \/ \E t \in Tools : Begin(c, t)
    \/ EnqueueTask \/ ManageJobs \/ TimePasses

\* Monotonic time passes, and a tool that runs returns (statement and request timeouts). No
\* job need end, and no client need ask again.
Fairness == WF_breakerVars(Tick) /\ \A c \in Calls : WF_vars(Return(c))

Spec == Init /\ [][Next]_vars /\ Fairness

-----------------------------------------------------------------------------

\* Containment and recovery: late failures may put the end of the cooldown off, but the calls
\* that can still report run out, and every open circuit closes, also when it was opened by a
\* table that stays full for ever.
CircuitCloses == \A g \in Groups : IsOpen(g) ~> ~IsOpen(g)
=============================================================================

--------------------------- MODULE CircuitBreaker ---------------------------
(***************************************************************************)
(* The circuit breaker around call_tool (src/server.rs): retryable failures *)
(* in a row open the circuit of a tool's group, calls of the group are then *)
(* refused until the cooldown is over.                                     *)
(*                                                                         *)
(* Admission and recording are two critical sections of one mutex, and the *)
(* tool runs between them: calls admitted before the circuit opened report *)
(* afterwards. Time is kept as what is left of the cooldown.               *)
(***************************************************************************)
EXTENDS Integers

CONSTANTS
    Calls,      \* concurrent tool calls, each slot used again and again
    Threshold,  \* failure_threshold
    Cooldown    \* cooldown, in ticks

ASSUME ConfigAccepted == Threshold \in Nat \ {0} /\ Cooldown \in Nat \ {0}

VARIABLES
    failures,   \* consecutive_retryable_failures of each group
    openLeft,   \* open_until minus now, or Closed
    tool,       \* the tool that each call runs, or Idle
    streak      \* history: retryable failures the group had in a row, up to Threshold

breakerVars == <<failures, openLeft, tool, streak>>

-----------------------------------------------------------------------------

\* Two tools of the SQL surface, and one that has its circuit for itself.
Tools == {"query_sql", "query_job_start", "list_objects"}
Idle == "idle"

\* circuit_group_key.
GroupKey(t) == IF t \in {"query_sql", "query_job_start"} THEN "sql_surface" ELSE t

Groups == {"sql_surface", "list_objects"}

Closed == -1
Outcomes == {"Success", "NonRetryableFailure", "RetryableFailure"}

BreakerTypeOK ==
    /\ failures \in [Groups -> 0..(Threshold - 1)]
    /\ openLeft \in [Groups -> Closed..Cooldown]
    /\ tool \in [Calls -> Tools \cup {Idle}]
    /\ streak \in [Groups -> 0..Threshold]

BreakerInit ==
    /\ failures = [g \in Groups |-> 0]
    /\ openLeft = [g \in Groups |-> Closed]
    /\ tool = [c \in Calls |-> Idle]
    /\ streak = [g \in Groups |-> 0]

-----------------------------------------------------------------------------

IsOpen(g) == openLeft[g] > 0

\* What both critical sections do with a cooldown that is over.
LeftNow(g) == IF IsOpen(g) THEN openLeft[g] ELSE Closed
FailuresNow(g) == IF openLeft[g] = 0 THEN 0 ELSE failures[g]

\* Mutant: nobody asks whether the circuit is open.
AdmitAlways(c, t) ==
    /\ tool[c] = Idle
    /\ failures' = [failures EXCEPT ![GroupKey(t)] = FailuresNow(GroupKey(t))]
    /\ openLeft' = [openLeft EXCEPT ![GroupKey(t)] = LeftNow(GroupKey(t))]
    /\ tool' = [tool EXCEPT ![c] = t]
    /\ UNCHANGED streak

\* circuit_open_retry_after_ms finds the circuit closed; a call it refuses changes
\* nothing.
Admit(c, t) ==
    /\ tool[c] = Idle
    /\ ~IsOpen(GroupKey(t))
    /\ failures' = [failures EXCEPT ![GroupKey(t)] = FailuresNow(GroupKey(t))]
    /\ openLeft' = [openLeft EXCEPT ![GroupKey(t)] = LeftNow(GroupKey(t))]
    /\ tool' = [tool EXCEPT ![c] = t]
    /\ UNCHANGED streak

\* Mutant: only a success ends the run of failures.
RecordOnlySuccess(g, outcome) ==
    IF outcome # "RetryableFailure"
    THEN /\ failures' = [failures EXCEPT ![g] = IF outcome = "Success" THEN 0 ELSE FailuresNow(g)]
         /\ openLeft' = [openLeft EXCEPT ![g] = LeftNow(g)]
    ELSE IF FailuresNow(g) + 1 >= Threshold
    THEN /\ failures' = [failures EXCEPT ![g] = 0]
         /\ openLeft' = [openLeft EXCEPT ![g] = Cooldown]
    ELSE /\ failures' = [failures EXCEPT ![g] = FailuresNow(g) + 1]
         /\ openLeft' = [openLeft EXCEPT ![g] = LeftNow(g)]

\* record_tool_outcome: a failure that completes a run opens the circuit, and puts
\* the end of an open one off.
Record(g, outcome) ==
    IF outcome # "RetryableFailure"
    THEN /\ failures' = [failures EXCEPT ![g] = 0]
         /\ openLeft' = [openLeft EXCEPT ![g] = LeftNow(g)]
    ELSE IF FailuresNow(g) + 1 >= Threshold
    THEN /\ failures' = [failures EXCEPT ![g] = 0]
         /\ openLeft' = [openLeft EXCEPT ![g] = Cooldown]
    ELSE /\ failures' = [failures EXCEPT ![g] = FailuresNow(g) + 1]
         /\ openLeft' = [openLeft EXCEPT ![g] = LeftNow(g)]

\* The tool returns and its outcome is recorded.
Finish(c, outcome) ==
    /\ tool[c] # Idle
    /\ Record(GroupKey(tool[c]), outcome)
    /\ streak' = [streak EXCEPT ![GroupKey(tool[c])] =
                     IF outcome # "RetryableFailure" THEN 0
                     ELSE IF @ < Threshold THEN @ + 1 ELSE @]
    /\ tool' = [tool EXCEPT ![c] = Idle]

Tick ==
    /\ openLeft' = [g \in Groups |-> IF IsOpen(g) THEN openLeft[g] - 1 ELSE openLeft[g]]
    /\ UNCHANGED <<failures, tool, streak>>

BreakerNext ==
    \/ \E c \in Calls, t \in Tools : Admit(c, t)
    \/ \E c \in Calls, outcome \in Outcomes : Finish(c, outcome)
    \/ Tick

BreakerSpec == BreakerInit /\ [][BreakerNext]_breakerVars

-----------------------------------------------------------------------------

\* "Consecutive retryable failures trip the per-tool circuit breaker": a circuit
\* opens, or is held open longer, only when the outcomes its group recorded last
\* are Threshold retryable failures, whatever calls of whatever tools overlapped.
OpensOnStreak ==
    [][ \A g \in Groups : openLeft'[g] > openLeft[g] /\ openLeft'[g] > 0
            => streak'[g] = Threshold ]_breakerVars
=============================================================================

---------------------------- MODULE PinnedSession ----------------------------
(***************************************************************************)
(* One pinned database session (PinnedSessionEntry and                     *)
(* PinnedSessionRegistry of src/server.rs, PinnedDbSession of src/db.rs):  *)
(* the calls that run statements on it, the touch that follows each, and   *)
(* the timers that expire it when it is idle.                              *)
(*                                                                         *)
(* Sessions share nothing but the map they are in, so one is enough. Times *)
(* are kept relative to the present: expiresIn is expires_at_unix_ms minus *)
(* unix_time_ms(), and a timer holds what is left of its sleep. The sleep  *)
(* is monotonic; the clock of expires_at may be set back.                  *)
(***************************************************************************)
EXTENDS Integers

CONSTANTS
    Callers,   \* tool calls on the session, each may be sent again
    Kinds,     \* the kinds of statements they send
    IdleTtl,       \* idle_ttl, in ticks
    MaxUses,   \* bound: statements and describes in a behaviour
    MaxBack    \* bound: ticks the wall clock is set back

\* Statements as PostgreSQL's transaction block tells them apart.
Statements == {"select", "begin", "commit", "rollback"}

ASSUME BoundsAccepted ==
    /\ Kinds \subseteq Statements
    /\ IdleTtl \in Nat \ {0} /\ MaxUses \in Nat /\ MaxBack \in Nat

VARIABLES
    opening,     \* where open_pinned_session is
    present,     \* the entry is in the registry's map
    alive,       \* the connection's driver task runs
    driverFailed,  \* driver_failed
    expiresIn,   \* expires_at_unix_ms - now
    generation,
    txn,         \* PostgreSQL's transaction block: none, open or aborted
    timers,      \* the expiry tasks
    caller,      \* where each call is
    stmt,        \* its statement
    age,         \* ticks since its touch read the clock
    uses,        \* statements sent so far
    back         \* ticks the clock was set back so far

sessionVars == <<opening, present, alive, driverFailed, expiresIn, generation, txn, timers, caller,
          stmt, age, uses, back>>

entryVars == <<expiresIn, generation>>
dbVars == <<alive, driverFailed, txn>>
callVars == <<caller, stmt, age, uses>>

-----------------------------------------------------------------------------

\* Those of a call that holds the execution lock.
Locked == {"budget", "executing"}

CallerPlaces == {"idle", "queued", "ran", "refused", "clock", "expiry", "bump", "schedule",
                 "dismiss"} \cup Locked

TimerStages == {"asleep", "matched", "expired"}

SessionTypeOK ==
    /\ opening \in {"connecting", "inserted", "done"}
    /\ present \in BOOLEAN /\ alive \in BOOLEAN /\ driverFailed \in BOOLEAN
    /\ expiresIn \in 0..(IdleTtl + MaxBack)
    /\ generation \in Nat
    /\ txn \in {"none", "open", "aborted"}
    /\ timers \subseteq [gen : Nat, left : 0..IdleTtl, stage : TimerStages]
    /\ caller \in [Callers -> CallerPlaces]
    /\ stmt \in [Callers -> Statements]
    /\ age \in [Callers -> (-MaxBack)..IdleTtl]
    /\ uses \in 0..MaxUses
    /\ back \in 0..MaxBack

SessionInit ==
    /\ opening = "connecting"
    /\ present = FALSE /\ alive = TRUE /\ driverFailed = FALSE
    /\ expiresIn = 0 /\ generation = 0 /\ txn = "none"
    /\ timers = {}
    /\ caller = [c \in Callers |-> "idle"]
    /\ stmt = [c \in Callers |-> "select"]
    /\ age = [c \in Callers |-> 0]
    /\ uses = 0
    /\ back = 0

Larger(a, b) == IF a > b THEN a ELSE b
Smaller(a, b) == IF a < b THEN a ELSE b

-----------------------------------------------------------------------------
(* open_pinned_session: insert, then schedule the first expiry              *)

Insert ==
    /\ opening = "connecting"
    /\ opening' = "inserted"
    /\ present' = TRUE
    /\ expiresIn' = IdleTtl
    /\ UNCHANGED <<dbVars, generation, timers, callVars, back>>

\* Mutant: the sleep ends before the time to live.
ShortTimer(gen) == [gen |-> gen, left |-> IdleTtl - 1, stage |-> "asleep"]

NewTimer(gen) == [gen |-> gen, left |-> IdleTtl, stage |-> "asleep"]

ScheduleFirst ==
    /\ opening = "inserted"
    /\ opening' = "done"
    /\ timers' = timers \cup {NewTimer(0)}
    /\ UNCHANGED <<present, dbVars, entryVars, callVars, back>>

-----------------------------------------------------------------------------
(* A statement: look the session up, wait for its execution lock, run       *)

Move(c, place) == caller' = [caller EXCEPT ![c] = place]

\* pinned_session hands out the connection; the id is known once it is open. An
\* empty text, a bad parameter or the restricted policy ends the call unsent.
Send(c) ==
    /\ caller[c] = "idle" /\ opening = "done" /\ present /\ uses < MaxUses
    /\ Move(c, "queued") \/ Move(c, "ran")
    /\ \E s \in Kinds : stmt' = [stmt EXCEPT ![c] = s]
    /\ uses' = uses + 1
    /\ UNCHANGED <<opening, present, dbVars, entryVars, timers, age, back>>

\* The execution lock is taken; ensure_open refuses a session whose driver failed.
LockAndCheck(c) ==
    /\ caller[c] = "queued"
    /\ \A d \in Callers : caller[d] \notin Locked
    /\ Move(c, IF driverFailed THEN "dismiss" ELSE "budget")
    /\ UNCHANGED <<opening, present, dbVars, entryVars, timers, stmt, age, uses, back>>

\* apply_pinned_session_budget: SETs ahead of the statement. PostgreSQL refuses them,
\* as any command but a rollback or a commit, in an aborted transaction block; a
\* timeout or a closed connection ends the call too.
ApplyBudget(c) ==
    /\ caller[c] = "budget"
    /\ \/ alive /\ Move(c, IF txn = "aborted" THEN "refused" ELSE "executing")
       \/ Move(c, "ran")
    /\ UNCHANGED <<opening, present, dbVars, entryVars, timers, stmt, age, uses, back>>

\* What PostgreSQL's transaction block may be after a statement, which succeeds or
\* fails; a client that gave up or lost the connection may have changed nothing.
TxnsAfter(s) ==
    CASE s = "begin" -> {txn, "open"}
      [] s \in {"commit", "rollback"} -> {txn, "none"}
      [] OTHER -> IF txn = "open" THEN {"open", "aborted"} ELSE {txn}

ExecuteStatement(c) ==
    /\ caller[c] = "executing"
    /\ Move(c, "ran")
    /\ txn' \in {txn} \cup (IF alive THEN TxnsAfter(stmt[c]) ELSE {})
    /\ UNCHANGED <<opening, present, alive, driverFailed, entryVars, timers, stmt, age, uses, back>>

\* DB_SESSION_CLOSED: close_pinned_session.
Dismiss(c) ==
    /\ caller[c] = "dismiss"
    /\ Move(c, "idle")
    /\ present' = FALSE
    /\ alive' = FALSE
    /\ UNCHANGED <<opening, driverFailed, txn, entryVars, timers, stmt, age, uses, back>>

-----------------------------------------------------------------------------
(* touch_pinned_session, after success and failure alike                    *)

\* The entry is looked up again; a session that is gone is not touched.
TouchGet(c) ==
    /\ caller[c] \in {"ran", "refused"}
    /\ Move(c, IF present THEN "clock" ELSE "idle")
    /\ UNCHANGED <<opening, present, dbVars, entryVars, timers, stmt, age, uses, back>>

TouchReadsClock(c) ==
    /\ caller[c] = "clock"
    /\ age' = [age EXCEPT ![c] = 0]
    /\ Move(c, "expiry")
    /\ UNCHANGED <<opening, present, dbVars, entryVars, timers, stmt, uses, back>>

\* last_used and expires_at are stored.
TouchStoresExpiry(c) ==
    /\ caller[c] = "expiry"
    /\ expiresIn' = Larger(IdleTtl - age[c], 0)
    /\ age' = [age EXCEPT ![c] = 0]
    /\ Move(c, "bump")
    /\ UNCHANGED <<opening, present, dbVars, generation, timers, stmt, uses, back>>

TouchBumpsGeneration(c) ==
    /\ caller[c] = "bump"
    /\ generation' = generation + 1
    /\ Move(c, "schedule")
    /\ UNCHANGED <<opening, present, dbVars, expiresIn, timers, stmt, age, uses, back>>

\* Mutant: the timer of a touch is armed with the generation of its predecessor.
SchedulesLast(c) ==
    /\ caller[c] = "schedule"
    /\ timers' = timers \cup {NewTimer(generation - 1)}
    /\ stmt' = [stmt EXCEPT ![c] = "select"]
    /\ Move(c, "idle")
    /\ UNCHANGED <<opening, present, dbVars, entryVars, age, uses, back>>

\* schedule_pinned_session_expiry for the generation that is current by now.
TouchSchedules(c) ==
    /\ caller[c] = "schedule"
    /\ timers' = timers \cup {NewTimer(generation)}
    /\ stmt' = [stmt EXCEPT ![c] = "select"]
    /\ Move(c, "idle")
    /\ UNCHANGED <<opening, present, dbVars, entryVars, age, uses, back>>

-----------------------------------------------------------------------------
(* expire_if_generation_matches, when a timer's sleep is over               *)

Advance(t, stage) == timers' = (timers \ {t}) \cup {[t EXCEPT !.stage = stage]}
Discard(t) == timers' = timers \ {t}

TimerMatches(t) ==
    /\ t.stage = "asleep" /\ t.left = 0
    /\ IF present /\ generation = t.gen THEN Advance(t, "matched") ELSE Discard(t)
    /\ UNCHANGED <<opening, present, dbVars, entryVars, callVars, back>>

TimerComparesTime(t) ==
    /\ t.stage = "matched"
    /\ IF expiresIn > 0 THEN Discard(t) ELSE Advance(t, "expired")
    /\ UNCHANGED <<opening, present, dbVars, entryVars, callVars, back>>

\* The entry is removed and its driver aborted, unless someone was faster.
TimerCloses(t) ==
    /\ t.stage = "expired"
    /\ Discard(t)
    /\ present' = FALSE
    /\ alive' = (alive /\ ~present)
    /\ UNCHANGED <<opening, driverFailed, txn, entryVars, callVars, back>>

-----------------------------------------------------------------------------
(* session_close, a lost connection, and time                               *)

\* session_close.
Close ==
    /\ opening = "done" /\ present
    /\ present' = FALSE
    /\ alive' = FALSE
    /\ UNCHANGED <<opening, driverFailed, txn, entryVars, timers, callVars, back>>

\* The connection ends; the driver records an error, not an orderly end.
ConnectionEnds ==
    /\ alive /\ opening # "connecting"
    /\ alive' = FALSE
    /\ driverFailed' \in BOOLEAN
    /\ UNCHANGED <<opening, present, txn, entryVars, timers, callVars, back>>

\* A tick of both clocks. Nothing reads an age beyond the time to live.
SessionTick ==
    /\ expiresIn' = Larger(expiresIn - 1, 0)
    /\ timers' = {[t EXCEPT !.left = Larger(@ - 1, 0)] : t \in timers}
    /\ age' = [c \in Callers |-> IF caller[c] = "expiry" THEN Smaller(age[c] + 1, IdleTtl) ELSE age[c]]
    /\ UNCHANGED <<opening, present, dbVars, generation, caller, stmt, uses, back>>

\* The wall clock is set back by a tick, the sleeping timers do not notice.
ClockSetBack ==
    /\ back < MaxBack
    /\ back' = back + 1
    /\ expiresIn' = Smaller(expiresIn + 1, IdleTtl + MaxBack)
    /\ age' = [c \in Callers |->
                  IF caller[c] = "expiry" THEN Larger(age[c] - 1, -MaxBack) ELSE age[c]]
    /\ UNCHANGED <<opening, present, dbVars, generation, timers, caller, stmt, uses>>

-----------------------------------------------------------------------------

Open == Insert \/ ScheduleFirst

Touch(c) ==
    \/ TouchGet(c) \/ TouchReadsClock(c) \/ TouchStoresExpiry(c)
    \/ TouchBumpsGeneration(c) \/ TouchSchedules(c)

Expire(t) == TimerMatches(t) \/ TimerComparesTime(t) \/ TimerCloses(t)

Run(c) == LockAndCheck(c) \/ ApplyBudget(c) \/ ExecuteStatement(c) \/ Dismiss(c) \/ Touch(c)

SessionNext ==
    \/ Open
    \/ \E c \in Callers : Send(c) \/ Run(c)
    \/ \E t \in timers : Expire(t)
    \/ Close \/ ConnectionEnds
    \/ SessionTick \/ ClockSetBack

SessionSpec == SessionInit /\ [][SessionNext]_sessionVars

\* Time passes, spawned timers run when their sleep is over, a call that began goes
\* on and its statement ends (statement_timeout); nobody need close the session.
SessionFairness ==
    /\ WF_sessionVars(Open) /\ WF_sessionVars(SessionTick)
    /\ \A c \in Callers : WF_sessionVars(Run(c))
    /\ WF_sessionVars(\E t \in timers : Expire(t))

SessionFairSpec == SessionSpec /\ SessionFairness

-----------------------------------------------------------------------------

Touching == {"clock", "expiry", "bump", "schedule"}

\* A timer that will find the session's generation and its time to live over.
Covers(t) == t.gen = generation /\ (t.stage = "expired" \/ t.left >= expiresIn)

\* The session cannot be forgotten: unless a touch is under way that will schedule
\* one, or the clock was set back, some timer is armed with the generation the
\* session has and sleeps until its expiry at least, whatever touches and timers
\* overlapped before.
SessionHasItsTimer ==
    present /\ opening = "done" /\ back = 0 /\ (\A c \in Callers : caller[c] \notin Touching)
        => \E t \in timers : Covers(t)

\* "Idle sessions expire automatically after the configured timeout": a session that
\* is open is not open for ever once its callers have stopped using it, nor after any
\* race of touches and timers; only a clock that is set back can keep it.
IdleSessionsExpire ==
    (opening = "done" /\ present) ~> (~present \/ back > 0)
=============================================================================

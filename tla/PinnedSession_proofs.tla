------------------------ MODULE PinnedSession_proofs ------------------------
(* Theorems of PinnedSession, for any number of calls and any time to live. *)
EXTENDS PinnedSession, TLAPS

-----------------------------------------------------------------------------
(* Type correctness                                                        *)

\* The session and its connection.
FlagTypeOK ==
    /\ opening \in {"connecting", "inserted", "done"}
    /\ present \in BOOLEAN /\ alive \in BOOLEAN /\ driverFailed \in BOOLEAN
    /\ txn \in {"none", "open", "aborted"}

\* Its times and its generation.
NumberTypeOK ==
    /\ expiresIn \in 0..(IdleTtl + MaxBack)
    /\ generation \in Nat
    /\ back \in 0..MaxBack

\* The calls on it.
CallTypeOK ==
    /\ caller \in [Callers -> CallerPlaces]
    /\ stmt \in [Callers -> Statements]
    /\ age \in [Callers -> (-MaxBack)..IdleTtl]
    /\ uses \in 0..MaxUses

TimerTypeOK == timers \subseteq [gen : Nat, left : 0..IdleTtl, stage : TimerStages]

\* The type invariant is the four together, now and after a step.
LEMMA TypeParts ==
    /\ SessionTypeOK <=> FlagTypeOK /\ NumberTypeOK /\ CallTypeOK /\ TimerTypeOK
    /\ SessionTypeOK' <=> FlagTypeOK' /\ NumberTypeOK' /\ CallTypeOK' /\ TimerTypeOK'
<1>1. SessionTypeOK <=> FlagTypeOK /\ NumberTypeOK /\ CallTypeOK /\ TimerTypeOK
    BY DEF SessionTypeOK, FlagTypeOK, NumberTypeOK, CallTypeOK, TimerTypeOK
<1>2. SessionTypeOK' <=> FlagTypeOK' /\ NumberTypeOK' /\ CallTypeOK' /\ TimerTypeOK'
    BY DEF SessionTypeOK, FlagTypeOK, NumberTypeOK, CallTypeOK, TimerTypeOK
<1> QED BY <1>1, <1>2

\* A timer that is armed is well typed.
LEMMA NewTimerType ==
    ASSUME NEW gen \in Nat
    PROVE  NewTimer(gen) \in [gen : Nat, left : 0..IdleTtl, stage : TimerStages]
BY BoundsAccepted DEF NewTimer, TimerStages

\* So is one that goes through expire_if_generation_matches.
LEMMA StageType ==
    ASSUME TimerTypeOK, NEW t \in timers, NEW stage \in TimerStages
    PROVE  /\ Advance(t, stage) => TimerTypeOK'
           /\ Discard(t) => TimerTypeOK'
BY DEF TimerTypeOK, Advance, Discard

\* The session that is being opened is well typed.
LEMMA InitType == SessionInit => SessionTypeOK
<1> SUFFICES ASSUME SessionInit PROVE SessionTypeOK
    OBVIOUS
<1>1. FlagTypeOK
    BY DEF SessionInit, FlagTypeOK
<1>2. NumberTypeOK
    BY BoundsAccepted DEF SessionInit, NumberTypeOK
<1>3. CallTypeOK
    BY BoundsAccepted DEF SessionInit, CallTypeOK, CallerPlaces, Statements
<1>4. TimerTypeOK
    BY DEF SessionInit, TimerTypeOK
<1> QED BY <1>1, <1>2, <1>3, <1>4, TypeParts

\* Opening keeps the types.
LEMMA OpenType == ASSUME SessionTypeOK, Open PROVE SessionTypeOK'
<1>1. FlagTypeOK /\ NumberTypeOK /\ CallTypeOK /\ TimerTypeOK
    BY TypeParts
<1>2. FlagTypeOK'
    BY <1>1 DEF Open, Insert, ScheduleFirst, FlagTypeOK, dbVars
<1>3. NumberTypeOK'
    BY <1>1, BoundsAccepted DEF Open, Insert, ScheduleFirst, NumberTypeOK, entryVars
<1>4. CallTypeOK'
    BY <1>1 DEF Open, Insert, ScheduleFirst, CallTypeOK, callVars
<1>5. TimerTypeOK'
    BY <1>1, NewTimerType DEF Open, Insert, ScheduleFirst, TimerTypeOK
<1> QED BY <1>2, <1>3, <1>4, <1>5, TypeParts

\* A call keeps the types.
LEMMA CallType ==
    ASSUME SessionTypeOK, NEW c \in Callers, Send(c) \/ Run(c) PROVE SessionTypeOK'
<1>1. FlagTypeOK /\ NumberTypeOK /\ CallTypeOK /\ TimerTypeOK
    BY TypeParts
<1> USE DEF Run, Touch
<1>2. FlagTypeOK'
  <2>1. CASE ExecuteStatement(c)
    <3>1. txn' \in {"none", "open", "aborted"}
        BY <1>1, <2>1 DEF FlagTypeOK, ExecuteStatement, TxnsAfter
    <3> QED BY <1>1, <2>1, <3>1 DEF FlagTypeOK, ExecuteStatement
  <2>2. CASE Dismiss(c)
      BY <1>1, <2>2 DEF FlagTypeOK, Dismiss
  <2>3. CASE ~ExecuteStatement(c) /\ ~Dismiss(c)
    <3>1. UNCHANGED <<opening, present, dbVars>>
        BY <2>3
        DEF Send, LockAndCheck, ApplyBudget, TouchGet, TouchReadsClock, TouchStoresExpiry,
            TouchBumpsGeneration, TouchSchedules
    <3> QED BY <1>1, <3>1 DEF FlagTypeOK, dbVars
  <2> QED BY <2>1, <2>2, <2>3
<1>3. NumberTypeOK'
  <2>1. age[c] \in (-MaxBack)..IdleTtl
      BY <1>1 DEF CallTypeOK
  <2>2. CASE TouchStoresExpiry(c)
      BY <1>1, <2>1, <2>2, BoundsAccepted DEF TouchStoresExpiry, Larger, NumberTypeOK
  <2>3. CASE TouchBumpsGeneration(c)
      BY <1>1, <2>3 DEF TouchBumpsGeneration, NumberTypeOK
  <2>4. CASE ~TouchStoresExpiry(c) /\ ~TouchBumpsGeneration(c)
    <3>1. UNCHANGED <<entryVars, back>>
        BY <2>4
        DEF Send, LockAndCheck, ApplyBudget, ExecuteStatement, Dismiss, TouchGet, TouchReadsClock,
            TouchSchedules
    <3> QED BY <1>1, <3>1 DEF NumberTypeOK, entryVars
  <2> QED BY <2>2, <2>3, <2>4
<1>4. CallTypeOK'
  <2>1. caller' \in [Callers -> CallerPlaces]
      BY <1>1
      DEF CallTypeOK, Send, LockAndCheck, ApplyBudget, ExecuteStatement, Dismiss, TouchGet,
          TouchReadsClock, TouchStoresExpiry, TouchBumpsGeneration, TouchSchedules, Move,
          CallerPlaces, Locked
  <2>2. stmt' \in [Callers -> Statements]
      BY <1>1, BoundsAccepted
      DEF CallTypeOK, Send, LockAndCheck, ApplyBudget, ExecuteStatement, Dismiss, TouchGet,
          TouchReadsClock, TouchStoresExpiry, TouchBumpsGeneration, TouchSchedules, Statements
  <2>3. age' \in [Callers -> (-MaxBack)..IdleTtl]
      BY <1>1, BoundsAccepted
      DEF CallTypeOK, Send, LockAndCheck, ApplyBudget, ExecuteStatement, Dismiss, TouchGet,
          TouchReadsClock, TouchStoresExpiry, TouchBumpsGeneration, TouchSchedules
  <2>4. uses' \in 0..MaxUses
      BY <1>1, BoundsAccepted
      DEF CallTypeOK, Send, LockAndCheck, ApplyBudget, ExecuteStatement, Dismiss, TouchGet,
          TouchReadsClock, TouchStoresExpiry, TouchBumpsGeneration, TouchSchedules
  <2> QED BY <2>1, <2>2, <2>3, <2>4 DEF CallTypeOK
<1>5. TimerTypeOK'
  <2>1. generation \in Nat
      BY <1>1 DEF NumberTypeOK
  <2> QED
      BY <1>1, <2>1, NewTimerType
      DEF TimerTypeOK, Send, LockAndCheck, ApplyBudget, ExecuteStatement, Dismiss, TouchGet,
          TouchReadsClock, TouchStoresExpiry, TouchBumpsGeneration, TouchSchedules
<1> QED BY <1>2, <1>3, <1>4, <1>5, TypeParts

\* A timer keeps the types.
LEMMA ExpireType ==
    ASSUME SessionTypeOK, NEW t \in timers, Expire(t) PROVE SessionTypeOK'
<1>1. FlagTypeOK /\ NumberTypeOK /\ CallTypeOK /\ TimerTypeOK
    BY TypeParts
<1> USE DEF Expire
<1>2. FlagTypeOK'
  <2>1. CASE TimerCloses(t)
      BY <1>1, <2>1 DEF FlagTypeOK, TimerCloses
  <2>2. CASE ~TimerCloses(t)
      BY <1>1, <2>2 DEF FlagTypeOK, TimerMatches, TimerComparesTime, dbVars
  <2> QED BY <2>1, <2>2
<1>3. NumberTypeOK'
    BY <1>1 DEF NumberTypeOK, TimerMatches, TimerComparesTime, TimerCloses, entryVars
<1>4. CallTypeOK'
    BY <1>1 DEF CallTypeOK, TimerMatches, TimerComparesTime, TimerCloses, callVars
<1>5. "matched" \in TimerStages /\ "expired" \in TimerStages
    BY DEF TimerStages
<1>6. TimerTypeOK'
    BY <1>1, <1>5, StageType DEF TimerMatches, TimerComparesTime, TimerCloses
<1> QED BY <1>2, <1>3, <1>4, <1>6, TypeParts

\* The end of the session or of its connection, and time, keep the types.
LEMMA RestType ==
    ASSUME SessionTypeOK, Close \/ ConnectionEnds \/ SessionTick \/ ClockSetBack PROVE SessionTypeOK'
<1>1. FlagTypeOK /\ NumberTypeOK /\ CallTypeOK /\ TimerTypeOK
    BY TypeParts
<1>2. FlagTypeOK'
    BY <1>1 DEF FlagTypeOK, Close, ConnectionEnds, SessionTick, ClockSetBack, dbVars
<1>3. NumberTypeOK'
    BY <1>1, BoundsAccepted
    DEF NumberTypeOK, Close, ConnectionEnds, SessionTick, ClockSetBack, Larger, Smaller, entryVars
<1>4. CallTypeOK'
  <2>1. caller' = caller /\ stmt' = stmt /\ uses' = uses
      BY DEF Close, ConnectionEnds, SessionTick, ClockSetBack, callVars
  <2>2. age' \in [Callers -> (-MaxBack)..IdleTtl]
      BY <1>1, BoundsAccepted
      DEF CallTypeOK, Close, ConnectionEnds, SessionTick, ClockSetBack, Larger, Smaller, callVars
  <2> QED BY <1>1, <2>1, <2>2 DEF CallTypeOK
<1>5. TimerTypeOK'
  <2>1. CASE SessionTick
    <3> SUFFICES ASSUME NEW t \in timers
                 PROVE  [t EXCEPT !.left = Larger(@ - 1, 0)]
                            \in [gen : Nat, left : 0..IdleTtl, stage : TimerStages]
        BY <2>1 DEF SessionTick, TimerTypeOK
    <3>1. t \in [gen : Nat, left : 0..IdleTtl, stage : TimerStages]
        BY <1>1 DEF TimerTypeOK
    <3>2. Larger(t.left - 1, 0) \in 0..IdleTtl
        BY <3>1, BoundsAccepted DEF Larger
    <3> QED BY <3>1, <3>2
  <2>2. CASE ~SessionTick
      BY <1>1, <2>2 DEF Close, ConnectionEnds, ClockSetBack, TimerTypeOK
  <2> QED BY <2>1, <2>2
<1> QED BY <1>2, <1>3, <1>4, <1>5, TypeParts

\* Every step keeps the types.
LEMMA NextType == SessionTypeOK /\ [SessionNext]_sessionVars => SessionTypeOK'
<1> SUFFICES ASSUME SessionTypeOK, [SessionNext]_sessionVars PROVE SessionTypeOK'
    OBVIOUS
<1>1. CASE UNCHANGED sessionVars
    BY <1>1 DEF sessionVars, SessionTypeOK
<1> QED BY <1>1, OpenType, CallType, ExpireType, RestType DEF SessionNext

\* Every variable keeps its type.
THEOREM TypeCorrect == SessionSpec => []SessionTypeOK
    BY InitType, NextType, PTL DEF SessionSpec

-----------------------------------------------------------------------------
(* The session is never forgotten                                          *)

\* Nothing uses or touches a session before it is open.
OpeningInv ==
    opening # "done" => generation = 0 /\ \A c \in Callers : caller[c] = "idle"

\* With an honest clock no expiry is further away than the time to live.
ClockInv == back = 0 => expiresIn <= IdleTtl /\ \A c \in Callers : age[c] >= 0

\* A timer that woke up has nothing left to sleep.
WokenInv == \A t \in timers : t.stage # "asleep" => t.left = 0

TimerInv == OpeningInv /\ ClockInv /\ WokenInv /\ SessionHasItsTimer

\* A call that is not being touched leaves the touch of another alone.
LEMMA MoveKeepsTouching ==
    ASSUME SessionTypeOK, NEW c \in Callers, NEW place, Move(c, place),
           caller[c] \notin Touching,
           \A d \in Callers : caller'[d] \notin Touching
    PROVE  \A d \in Callers : caller[d] \notin Touching
BY DEF SessionTypeOK, Move

\* The condition that the session has its timer: it is open, its clock honest, and
\* no touch is under way.
Waiting == present /\ opening = "done" /\ back = 0 /\ \A c \in Callers : caller[c] \notin Touching

Covered == \E t \in timers : Covers(t)

\* A step that arms nothing and changes no time keeps the timer, if it does not
\* turn the condition on.
LEMMA QuietStep ==
    ASSUME SessionHasItsTimer, Waiting' => Waiting,
           UNCHANGED <<expiresIn, generation, timers>>
    PROVE  SessionHasItsTimer'
<1>1. Waiting => Covered
    BY DEF SessionHasItsTimer, Waiting, Covered
<1>2. Covered => Covered'
    BY DEF Covered, Covers
<1> QED BY <1>1, <1>2 DEF SessionHasItsTimer, Waiting, Covered

\* The timer armed for the present generation sleeps until the expiry at least.
LEMMA FreshTimerCovers ==
    ASSUME SessionTypeOK, expiresIn <= IdleTtl PROVE Covers(NewTimer(generation))
BY BoundsAccepted DEF SessionTypeOK, Covers, NewTimer

\* Opening leaves a session with its first timer.
LEMMA OpenTimerInv == ASSUME SessionTypeOK, TimerInv, Open PROVE TimerInv'
<1> USE DEF TimerInv
<1>1. CASE Insert
  <2>1. OpeningInv' /\ ClockInv'
      BY <1>1, BoundsAccepted DEF OpeningInv, ClockInv, Insert, callVars
  <2>2. WokenInv'
      BY <1>1 DEF WokenInv, Insert
  <2>3. SessionHasItsTimer'
      BY <1>1 DEF SessionHasItsTimer, Insert
  <2> QED BY <2>1, <2>2, <2>3
<1>2. CASE ScheduleFirst
  <2>1. OpeningInv' /\ ClockInv'
      BY <1>2 DEF OpeningInv, ClockInv, ScheduleFirst, callVars, entryVars
  <2>2. WokenInv'
      BY <1>2 DEF WokenInv, ScheduleFirst, NewTimer
  <2>3. generation = 0 /\ NewTimer(0) \in timers' /\ UNCHANGED <<expiresIn, generation, back>>
      BY <1>2 DEF OpeningInv, ScheduleFirst, entryVars
  <2>4. ASSUME Waiting' PROVE Covered'
    <3>1. Covers(NewTimer(generation))
        BY <2>3, <2>4, FreshTimerCovers DEF Waiting, ClockInv
    <3> QED BY <2>3, <3>1 DEF Covered, Covers
  <2>5. SessionHasItsTimer'
      BY <2>4 DEF SessionHasItsTimer, Waiting, Covered
  <2> QED BY <2>1, <2>2, <2>5
<1> QED BY <1>1, <1>2 DEF Open

\* A call that ends its touch arms a timer for the session as it is.
LEMMA CallTimerInv ==
    ASSUME SessionTypeOK, TimerInv, NEW c \in Callers, Send(c) \/ Run(c) PROVE TimerInv'
<1> USE DEF Run, Touch
<1>1. opening = "done" /\ opening' = "done" /\ back' = back
  <2>1. caller[c] # "idle" \/ opening = "done"
      BY DEF Send, LockAndCheck, ApplyBudget, ExecuteStatement, Dismiss, TouchGet, TouchReadsClock,
             TouchStoresExpiry, TouchBumpsGeneration, TouchSchedules
  <2>2. UNCHANGED <<opening, back>>
      BY DEF Send, LockAndCheck, ApplyBudget, ExecuteStatement, Dismiss, TouchGet, TouchReadsClock,
             TouchStoresExpiry, TouchBumpsGeneration, TouchSchedules
  <2> QED BY <2>1, <2>2 DEF TimerInv, OpeningInv
<1>2. OpeningInv'
    BY <1>1 DEF OpeningInv
<1>3. ClockInv'
  <2>1. age \in [Callers -> (-MaxBack)..IdleTtl]
      BY DEF SessionTypeOK
  <2>2. CASE TouchStoresExpiry(c)
      BY <1>1, <2>1, <2>2, BoundsAccepted DEF TimerInv, ClockInv, TouchStoresExpiry, Larger
  <2>3. CASE TouchReadsClock(c)
      BY <1>1, <2>1, <2>3 DEF TimerInv, ClockInv, TouchReadsClock, entryVars
  <2>4. CASE ~TouchStoresExpiry(c) /\ ~TouchReadsClock(c)
    <3>1. UNCHANGED <<expiresIn, age>>
        BY <2>4
        DEF Send, LockAndCheck, ApplyBudget, ExecuteStatement, Dismiss, TouchGet, TouchBumpsGeneration,
            TouchSchedules, entryVars
    <3> QED BY <1>1, <3>1 DEF TimerInv, ClockInv
  <2> QED BY <2>2, <2>3, <2>4
<1>4. CASE TouchSchedules(c)
  <2>1. WokenInv'
      BY <1>4 DEF TimerInv, WokenInv, TouchSchedules, NewTimer
  <2>2. NewTimer(generation) \in timers' /\ UNCHANGED <<expiresIn, generation>>
      BY <1>4 DEF TouchSchedules, entryVars
  <2>3. ASSUME Waiting' PROVE Covered'
    <3>1. Covers(NewTimer(generation))
        BY <1>1, <2>3, FreshTimerCovers DEF Waiting, TimerInv, ClockInv
    <3> QED BY <2>2, <3>1 DEF Covered, Covers
  <2>4. SessionHasItsTimer'
      BY <2>3 DEF SessionHasItsTimer, Waiting, Covered
  <2> QED BY <1>2, <1>3, <2>1, <2>4 DEF TimerInv
<1>5. CASE ~TouchSchedules(c)
  <2>1. timers' = timers
      BY <1>5
      DEF Send, LockAndCheck, ApplyBudget, ExecuteStatement, Dismiss, TouchGet, TouchReadsClock,
          TouchStoresExpiry, TouchBumpsGeneration
  <2>2. WokenInv'
      BY <2>1 DEF TimerInv, WokenInv
  <2>3. CASE TouchReadsClock(c) \/ TouchStoresExpiry(c) \/ TouchBumpsGeneration(c)
    <3>1. caller'[c] \in Touching
        BY <2>3
        DEF SessionTypeOK, TouchReadsClock, TouchStoresExpiry, TouchBumpsGeneration, Move, Touching
    <3> QED BY <1>2, <1>3, <2>2, <3>1 DEF TimerInv, SessionHasItsTimer
  <2>4. CASE Send(c) \/ LockAndCheck(c) \/ ApplyBudget(c) \/ ExecuteStatement(c) \/ Dismiss(c) \/ TouchGet(c)
    <3>1. UNCHANGED <<expiresIn, generation>>
        BY <2>4 DEF Send, LockAndCheck, ApplyBudget, ExecuteStatement, Dismiss, TouchGet, entryVars
    <3>2. caller[c] \notin Touching /\ \E place : Move(c, place)
        BY <2>4
        DEF Send, LockAndCheck, ApplyBudget, ExecuteStatement, Dismiss, TouchGet, Touching
    <3>3. present' => present
        BY <2>4 DEF Send, LockAndCheck, ApplyBudget, ExecuteStatement, Dismiss, TouchGet
    <3>4. Waiting' => Waiting
        BY <1>1, <3>2, <3>3, MoveKeepsTouching DEF Waiting
    <3>5. SessionHasItsTimer'
        BY <2>1, <3>1, <3>4, QuietStep DEF TimerInv
    <3> QED BY <1>2, <1>3, <2>2, <3>5 DEF TimerInv
  <2> QED BY <1>5, <2>3, <2>4
<1> QED BY <1>4, <1>5

\* A timer that the session needs goes through its stages and closes it.
LEMMA ExpireTimerInv ==
    ASSUME SessionTypeOK, TimerInv, NEW t \in timers, Expire(t) PROVE TimerInv'
<1>1. UNCHANGED <<opening, expiresIn, generation, caller, age, back>>
    BY DEF Expire, TimerMatches, TimerComparesTime, TimerCloses, entryVars, callVars
<1>2. OpeningInv' /\ ClockInv'
    BY <1>1 DEF TimerInv, OpeningInv, ClockInv
<1>3. t \in [gen : Nat, left : 0..IdleTtl, stage : TimerStages] /\ expiresIn \in Nat
  <2>1. timers \subseteq [gen : Nat, left : 0..IdleTtl, stage : TimerStages]
      BY DEF SessionTypeOK
  <2>2. expiresIn \in 0..(IdleTtl + MaxBack)
      BY DEF SessionTypeOK
  <2> QED BY <2>1, <2>2, BoundsAccepted
<1>4. WokenInv'
    BY <1>3
    DEF TimerInv, WokenInv, Expire, TimerMatches, TimerComparesTime, TimerCloses, Advance, Discard
<1>5. ASSUME Waiting' PROVE Covered'
  <2>1. Waiting /\ present'
      BY <1>1, <1>5 DEF Waiting, Expire, TimerMatches, TimerComparesTime, TimerCloses
  <2>2. PICK u \in timers : Covers(u)
      BY <2>1 DEF TimerInv, SessionHasItsTimer, Waiting
  <2>3. CASE u # t
    <3>1. u \in timers'
        BY <2>3
        DEF Expire, TimerMatches, TimerComparesTime, TimerCloses, Advance, Discard
    <3> QED BY <1>1, <3>1, <2>2 DEF Covered, Covers
  <2>4. CASE u = t
    <3>1. CASE TimerMatches(t)
      <4>1. [t EXCEPT !.stage = "matched"] \in timers'
          BY <2>1, <2>2, <2>4, <3>1 DEF TimerMatches, Advance, Covers, Waiting
      <4>2. Covers([t EXCEPT !.stage = "matched"])
          BY <1>3, <2>2, <2>4, <3>1 DEF TimerMatches, Covers
      <4> QED BY <1>1, <4>1, <4>2 DEF Covered, Covers
    <3>2. CASE TimerComparesTime(t)
      <4>1. expiresIn = 0
          BY <1>3, <2>2, <2>4, <3>2 DEF TimerComparesTime, Covers, TimerInv, WokenInv
      <4>2. [t EXCEPT !.stage = "expired"] \in timers'
          BY <4>1, <3>2 DEF TimerComparesTime, Advance
      <4>3. Covers([t EXCEPT !.stage = "expired"])
          BY <1>3, <2>2, <2>4 DEF Covers
      <4> QED BY <1>1, <4>2, <4>3 DEF Covered, Covers
    <3>3. CASE TimerCloses(t)
        BY <2>1, <3>3 DEF TimerCloses
    <3> QED BY <3>1, <3>2, <3>3 DEF Expire
  <2> QED BY <2>3, <2>4
<1>6. SessionHasItsTimer'
    BY <1>5 DEF SessionHasItsTimer, Waiting, Covered
<1> QED BY <1>2, <1>4, <1>6 DEF TimerInv

\* Time takes as much off the sleep as off the expiry.
LEMMA TickTimerInv == ASSUME SessionTypeOK, TimerInv, SessionTick PROVE TimerInv'
<1>1. UNCHANGED <<opening, present, generation, caller, back>>
    BY DEF SessionTick
<1>2. OpeningInv'
    BY <1>1 DEF TimerInv, OpeningInv
<1>3. /\ timers \subseteq [gen : Nat, left : 0..IdleTtl, stage : TimerStages]
      /\ expiresIn \in 0..(IdleTtl + MaxBack)
      /\ age \in [Callers -> (-MaxBack)..IdleTtl]
    BY DEF SessionTypeOK
<1>4. ClockInv'
    BY <1>1, <1>3, BoundsAccepted DEF TimerInv, ClockInv, SessionTick, Larger, Smaller
<1> DEFINE Later(t) == [t EXCEPT !.left = Larger(@ - 1, 0)]
<1>5. timers' = {Later(t) : t \in timers}
    BY DEF SessionTick
<1>6. WokenInv'
  <2> SUFFICES ASSUME NEW t \in timers, Later(t).stage # "asleep" PROVE Later(t).left = 0
      BY <1>5 DEF WokenInv
  <2>1. t.stage # "asleep" /\ t \in [gen : Nat, left : 0..IdleTtl, stage : TimerStages]
      BY <1>3
  <2>2. t.left = 0
      BY <2>1 DEF TimerInv, WokenInv
  <2> QED BY <2>1, <2>2 DEF Larger
<1>7. ASSUME Waiting' PROVE Covered'
  <2>1. PICK u \in timers : Covers(u)
      BY <1>1, <1>7 DEF TimerInv, SessionHasItsTimer, Waiting
  <2>2. u \in [gen : Nat, left : 0..IdleTtl, stage : TimerStages]
      BY <1>3
  <2>3. Later(u) \in timers'
      BY <1>5
  <2>4. expiresIn' = Larger(expiresIn - 1, 0)
      BY DEF SessionTick
  <2>5. Later(u).gen = generation' /\ (Later(u).stage = "expired" \/ Later(u).left >= expiresIn')
      BY <1>1, <1>3, <2>1, <2>2, <2>4, BoundsAccepted DEF Covers, Larger
  <2> QED BY <2>3, <2>5 DEF Covered, Covers
<1>8. SessionHasItsTimer'
    BY <1>7 DEF SessionHasItsTimer, Waiting, Covered
<1> QED BY <1>2, <1>4, <1>6, <1>8 DEF TimerInv

\* The end of the session ends the need for a timer, and so does a dishonest clock.
LEMMA RestTimerInv ==
    ASSUME SessionTypeOK, TimerInv, Close \/ ConnectionEnds \/ ClockSetBack PROVE TimerInv'
<1> USE DEF TimerInv
<1>1. opening' = opening /\ UNCHANGED <<generation, timers, caller>>
    BY DEF Close, ConnectionEnds, ClockSetBack, entryVars, callVars
<1>2. OpeningInv' /\ WokenInv'
    BY <1>1 DEF OpeningInv, WokenInv
<1>3. CASE ClockSetBack
  <2>1. back' # 0
      BY <1>3, BoundsAccepted DEF SessionTypeOK, ClockSetBack
  <2> QED BY <1>2, <2>1 DEF ClockInv, SessionHasItsTimer
<1>4. CASE Close \/ ConnectionEnds
  <2>1. UNCHANGED <<expiresIn, age, back>> /\ (present' => present)
      BY <1>4 DEF Close, ConnectionEnds, entryVars, callVars
  <2>2. ClockInv'
      BY <2>1 DEF ClockInv
  <2>3. SessionHasItsTimer'
      BY <1>1, <2>1, QuietStep DEF Waiting
  <2> QED BY <1>2, <2>2, <2>3
<1> QED BY <1>3, <1>4

\* While the clock is honest, a session that is open and not being touched always has
\* a timer that will find it expired: no race of touches and timers forgets it.
THEOREM NeverForgotten == SessionSpec => []SessionHasItsTimer
<1>1. SessionInit => TimerInv
  <2> SUFFICES ASSUME SessionInit PROVE TimerInv
      OBVIOUS
  <2>1. ClockInv
      BY BoundsAccepted DEF SessionInit, ClockInv
  <2>2. OpeningInv /\ WokenInv /\ SessionHasItsTimer
      BY DEF SessionInit, OpeningInv, WokenInv, SessionHasItsTimer
  <2> QED BY <2>1, <2>2 DEF TimerInv
<1>2. SessionTypeOK /\ TimerInv /\ [SessionNext]_sessionVars => TimerInv'
  <2> SUFFICES ASSUME SessionTypeOK, TimerInv, [SessionNext]_sessionVars PROVE TimerInv'
      OBVIOUS
  <2>1. CASE UNCHANGED sessionVars
      BY <2>1
      DEF sessionVars, TimerInv, OpeningInv, ClockInv, WokenInv, SessionHasItsTimer, Covers
  <2> QED
      BY <2>1, OpenTimerInv, CallTimerInv, ExpireTimerInv, TickTimerInv, RestTimerInv DEF SessionNext
<1>3. TimerInv => SessionHasItsTimer
    BY DEF TimerInv
<1> QED BY <1>1, <1>2, <1>3, TypeCorrect, PTL DEF SessionSpec
=============================================================================

------------------------ MODULE StartupLease_proofs ------------------------
(* Theorems of StartupLease, for every set of attempts and every accepted   *)
(* configuration.                                                           *)
EXTENDS StartupLease, TLAPS

\* What p does, outside of time and of its abandoned statements.
StepOf(p) == Run(p) \/ Beat(p) \/ BeatFails(p) \/ StatementFails(p) \/ Crash(p)

-----------------------------------------------------------------------------
(* Type correctness                                                        *)

\* An update at one point keeps a function's type.
LEMMA Update ==
    ASSUME NEW S, NEW T, NEW f \in [S -> T], NEW x, NEW y \in T
    PROVE  [f EXCEPT ![x] = y] \in [S -> T]
    OBVIOUS

\* The values timers are set to, by ConfigAccepted.
LEMMA TimerValues ==
    /\ {0, Delay, Heartbeat + Delay} \subseteq 0..(Heartbeat + Delay)
    /\ AcquireTimeout \in 0..AcquireTimeout
    BY ConfigAccepted, DelayIsShort

\* A lease always has its three fields, so it equals the record of them.
LEMMA LeaseUpdates ==
    ASSUME TypeOK
    PROVE  /\ Renewed \in [owner: Procs \cup {None}, fence: Nat, left: 0..Ttl]
           /\ \A p \in Procs : Taken(p) \in [owner: Procs \cup {None}, fence: Nat, left: 0..Ttl]
           /\ \A p, f : Deleted(p, f) \in [owner: Procs \cup {None}, fence: Nat, left: 0..Ttl]
<1>1. Ttl \in 0..Ttl /\ 0 \in 0..Ttl
    BY ConfigAccepted
<1>2. lease \in [owner: Procs \cup {None}, fence: Nat, left: 0..Ttl]
    BY DEF TypeOK
<1>3. Renewed \in [owner: Procs \cup {None}, fence: Nat, left: 0..Ttl]
    BY <1>1, <1>2 DEF Renewed
<1>4. \A p \in Procs : Taken(p) \in [owner: Procs \cup {None}, fence: Nat, left: 0..Ttl]
    BY <1>1, <1>2 DEF Taken
<1>5. NoRow \in [owner: Procs \cup {None}, fence: Nat, left: 0..Ttl]
    BY <1>1 DEF NoRow
<1> QED BY <1>2, <1>3, <1>4, <1>5 DEF Deleted

\* The statements an attempt may leave behind are well-formed.
LEMMA LeftBehind ==
    ASSUME TypeOK, NEW p \in Procs
    PROVE  /\ InFlight(p) \subseteq Statements
           /\ BeatOf(p) \subseteq Statements
           /\ RowOf(p) \in Rows
<1>1. RowOf(p) \in Rows
    BY DEF TypeOK, RowOf, Rows
<1>2. InFlight(p) \subseteq Statements
    BY <1>1 DEF TypeOK, InFlight, Statements
<1>3. BeatOf(p) \subseteq Statements
    BY DEF TypeOK, BeatOf, Statements
<1> QED BY <1>1, <1>2, <1>3

\* Dropping a guard keeps the types.
LEMMA DropGuardType ==
    ASSUME TypeOK, NEW p \in Procs, DropGuard(p)
    PROVE  /\ phase' \in [Procs -> PhaseIds]
           /\ event' \in [Procs -> Events]
           /\ token' \in [Procs -> Nat]
           /\ fenceLost' \in [Procs -> BOOLEAN]
           /\ beat' \in [Procs -> Beats]
           /\ timer' \in [Procs -> 0..(Heartbeat + Delay)]
           /\ patience' \in [Procs -> 0..AcquireTimeout]
<1>1. Acquired \in PhaseIds /\ "started" \in Events
    BY DEF PhaseIds, Acquired, LastPhase, Events
<1>2. /\ phase' \in [Procs -> PhaseIds]
      /\ event' \in [Procs -> Events]
      /\ token' \in [Procs -> Nat]
    BY <1>1, Update DEF TypeOK, DropGuard
<1>3. /\ fenceLost' \in [Procs -> BOOLEAN]
      /\ beat' \in [Procs -> Beats]
    BY Update DEF TypeOK, DropGuard, Beats
<1>4. /\ timer' \in [Procs -> 0..(Heartbeat + Delay)]
      /\ patience' \in [Procs -> 0..AcquireTimeout]
    BY TimerValues, Update DEF TypeOK, DropGuard
<1> QED BY <1>2, <1>3, <1>4

\* A step that ends an attempt keeps the types.
LEMMA AbortType ==
    ASSUME TypeOK, NEW p \in Procs, NEW place \in Dead, Abort(p, place),
           UNCHANGED <<lease, journal, staleRows>>
    PROVE  TypeOK'
<1>1. wire' \subseteq Statements
    BY LeftBehind DEF TypeOK, Abort
<1>2. pc' \in [Procs -> Places]
    BY DEF TypeOK, Abort, Places
<1> QED BY <1>1, <1>2, DropGuardType DEF TypeOK, Abort

\* A row written to the journal keeps the types.
LEMMA WriteType ==
    ASSUME TypeOK, NEW row \in Rows, Write(row)
    PROVE  journal' \in Seq(Rows) /\ staleRows' \in [Procs -> Nat]
<1>1. journal' \in Seq(Rows)
    BY DEF TypeOK, Write
<1>2. row.owner \in Procs
    BY DEF Rows
<1>3. staleRows' \in [Procs -> Nat]
  <2>1. staleRows \in [Procs -> Nat] /\ staleRows[row.owner] + 1 \in Nat
      BY <1>2 DEF TypeOK
  <2> QED BY <1>2, <2>1, Update DEF Write
<1> QED BY <1>1, <1>3

\* Writing a row on behalf of a live attempt keeps the types.
LEMMA InsertRowType ==
    ASSUME TypeOK, NEW p \in Procs, InsertRow(p)
    PROVE  TypeOK'
<1>1. journal' \in Seq(Rows) /\ staleRows' \in [Procs -> Nat]
    BY LeftBehind, WriteType DEF InsertRow
<1>2. lease' = lease
    BY DEF InsertRow
<1>3. CASE AfterStarted(p)
  <2>1. pc' \in [Procs -> Places]
      BY <1>3 DEF TypeOK, AfterStarted, Places, Active, Asking, InPhases
  <2>2. event' \in [Procs -> Events]
    <3>1. event \in [Procs -> Events] /\ "completed" \in Events
        BY DEF TypeOK, Events
    <3> QED BY <1>3, <3>1, Update DEF AfterStarted
  <2> QED BY <1>1, <1>2, <1>3, <2>1, <2>2 DEF TypeOK, AfterStarted
<1>4. CASE AfterDone(p)
  <2>1. pc' \in [Procs -> Places]
    <3>1. {"stopping", "lookup", "assert"} \subseteq Places
        BY DEF Places, Active, Asking, InPhases
    <3> QED BY <1>4, <3>1 DEF TypeOK, AfterDone
  <2>2. event' \in [Procs -> Events]
    <3>1. event \in [Procs -> Events] /\ "started" \in Events
        BY DEF TypeOK, Events
    <3> QED BY <1>4, <3>1, Update DEF AfterDone
  <2>3. phase' \in [Procs -> PhaseIds]
    <3>1. phase \in [Procs -> PhaseIds]
        BY DEF TypeOK
    <3>2. phase[p] # LastPhase => phase[p] + 1 \in PhaseIds
        BY <3>1 DEF PhaseIds, Acquired, LastPhase
    <3> QED BY <1>4, <3>1, <3>2, Update DEF AfterDone
  <2> QED BY <1>1, <1>2, <1>4, <2>1, <2>2, <2>3 DEF TypeOK, AfterDone
<1>5. CASE AfterFailed(p)
  <2>1. wire' \subseteq Statements
      BY <1>5, LeftBehind DEF TypeOK, AfterFailed
  <2>2. pc' \in [Procs -> Places]
      BY <1>5 DEF TypeOK, AfterFailed, Places, Dead
  <2> QED BY <1>1, <1>2, <1>5, <2>1, <2>2, DropGuardType DEF TypeOK, AfterFailed
<1> QED BY <1>3, <1>4, <1>5 DEF InsertRow

\* The steps of a live attempt keep the types.
LEMMA RunType ==
    ASSUME TypeOK, NEW p \in Procs, Run(p)
    PROVE  TypeOK'
<1> USE DEF Places, Active, Asking, InPhases, Dead
<1>1. CASE Begin(p)
    BY <1>1 DEF TypeOK, Begin
<1>2. CASE Grant(p)
  <2>1. lease' \in [owner: Procs \cup {None}, fence: Nat, left: 0..Ttl]
      BY <1>2, LeaseUpdates DEF Grant
  <2>2. token' \in [Procs -> Nat]
    <3>1. token \in [Procs -> Nat] /\ lease.fence + 1 \in Nat
        BY DEF TypeOK
    <3> QED BY <1>2, <3>1, Update DEF Grant
  <2>3. timer' \in [Procs -> 0..(Heartbeat + Delay)]
    <3>1. timer \in [Procs -> 0..(Heartbeat + Delay)]
        BY DEF TypeOK
    <3> QED BY <1>2, <3>1, Update, TimerValues DEF Grant
  <2>4. patience' \in [Procs -> 0..AcquireTimeout]
    <3>1. patience \in [Procs -> 0..AcquireTimeout]
        BY DEF TypeOK
    <3> QED BY <1>2, <3>1, Update, TimerValues DEF Grant
  <2>5. pc' \in [Procs -> Places]
      BY <1>2 DEF TypeOK, Grant
  <2> QED BY <1>2, <2>1, <2>2, <2>3, <2>4, <2>5 DEF TypeOK, Grant
<1>12. CASE Refuse(p)
    BY <1>12 DEF TypeOK, Refuse
<1>13. CASE StartGuard(p)
  <2>1. timer' \in [Procs -> 0..(Heartbeat + Delay)]
    <3>1. timer \in [Procs -> 0..(Heartbeat + Delay)]
        BY DEF TypeOK
    <3> QED BY <1>13, <3>1, Update, TimerValues DEF StartGuard
  <2>2. pc' \in [Procs -> Places] /\ beat' \in [Procs -> Beats]
    <3>1. pc \in [Procs -> Places] /\ beat \in [Procs -> Beats] /\ "asleep" \in Beats
        BY DEF TypeOK, Beats
    <3> QED BY <1>13, <3>1, Update DEF StartGuard
  <2> QED BY <1>13, <2>1, <2>2 DEF TypeOK, StartGuard
<1>3. CASE Busy(p)
  <2>1. pc' \in [Procs -> Places]
      BY <1>3 DEF TypeOK, Busy
  <2>2. patience' \in [Procs -> 0..AcquireTimeout]
    <3>1. patience \in [Procs -> 0..AcquireTimeout]
        BY DEF TypeOK
    <3> QED BY <1>3, <3>1, Update, TimerValues DEF Busy
  <2> QED BY <1>3, <2>1, <2>2 DEF TypeOK, Busy
<1>4. CASE Retry(p)
    BY <1>4 DEF TypeOK, Retry
<1>5. CASE LookupPhase(p)
  <2>1. event' \in [Procs -> Events]
      BY <1>5 DEF TypeOK, LookupPhase, Events
  <2>2. pc' \in [Procs -> Places]
      BY <1>5 DEF TypeOK, LookupPhase
  <2> QED BY <1>5, <2>1, <2>2 DEF TypeOK, LookupPhase
<1>6. CASE AssertHeld(p)
    BY <1>6 DEF TypeOK, AssertHeld
<1>7. CASE AssertLost(p)
    BY <1>7, AbortType DEF AssertLost
<1>8. CASE InsertRow(p)
    BY <1>8, InsertRowType
<1>9. CASE Work(p)
  <2>1. event' \in [Procs -> Events]
      BY <1>9 DEF TypeOK, Work, Events
  <2> QED BY <1>9, <2>1 DEF TypeOK, Work
<1>10. CASE StopHeartbeat(p)
  <2>1. timer' \in [Procs -> 0..(Heartbeat + Delay)] /\ beat' \in [Procs -> Beats]
      BY <1>10, TimerValues, Update DEF TypeOK, StopHeartbeat, Beats
  <2>2. pc' \in [Procs -> Places]
      BY <1>10, Update DEF TypeOK, StopHeartbeat, Places, Active
  <2> QED BY <1>10, <2>1, <2>2 DEF TypeOK, StopHeartbeat
<1>11. CASE Release(p)
  <2>1. pc' \in [Procs -> Places]
      BY <1>11 DEF TypeOK, Release
  <2> QED BY <1>11, <2>1, LeaseUpdates, DropGuardType DEF TypeOK, Release
<1> QED BY <1>1, <1>2, <1>3, <1>4, <1>5, <1>6, <1>7, <1>8, <1>9, <1>10, <1>11,
          <1>12, <1>13
       DEF Run

\* The steps of a heartbeat task keep the types.
LEMMA BeatType ==
    ASSUME TypeOK, NEW p \in Procs, Beat(p) \/ BeatFails(p)
    PROVE  TypeOK'
<1> USE DEF Beats
<1>0. beat \in [Procs -> Beats] /\ timer \in [Procs -> 0..(Heartbeat + Delay)]
    BY DEF TypeOK
<1>1. CASE BeatRenews(p)
  <2>1. beat' \in [Procs -> Beats] /\ timer' \in [Procs -> 0..(Heartbeat + Delay)]
      BY <1>0, <1>1, Update, TimerValues DEF BeatRenews
  <2> QED BY <1>1, <2>1, LeaseUpdates DEF TypeOK, BeatRenews
<1>2. CASE BeatMisses(p)
  <2>1. beat' \in [Procs -> Beats] /\ timer' \in [Procs -> 0..(Heartbeat + Delay)]
      BY <1>0, <1>2, Update, TimerValues DEF BeatMisses
  <2> QED BY <1>2, <2>1 DEF TypeOK, BeatMisses
<1>3. ASSUME Sleeps(p)
      PROVE  beat' \in [Procs -> Beats] /\ timer' \in [Procs -> 0..(Heartbeat + Delay)]
    BY <1>0, <1>3, Update, TimerValues DEF Sleeps
<1>4. CASE BeatOk(p)
    BY <1>3, <1>4 DEF TypeOK, BeatOk
<1>5. CASE BeatLost(p)
  <2>1. /\ fenceLost' \in [Procs -> BOOLEAN]
        /\ beat' \in [Procs -> Beats]
        /\ timer' \in [Procs -> 0..(Heartbeat + Delay)]
      BY <1>5, TimerValues, Update DEF TypeOK, BeatLost
  <2> QED BY <1>5, <2>1 DEF TypeOK, BeatLost
<1>6. CASE BeatFails(p)
  <2>1. wire' \subseteq Statements
      BY <1>6, LeftBehind DEF TypeOK, BeatFails
  <2> QED BY <1>3, <1>6, <2>1 DEF TypeOK, BeatFails
<1> QED BY <1>1, <1>2, <1>4, <1>5, <1>6 DEF Beat

\* A late statement keeps the types.
LEMMA LandType ==
    ASSUME TypeOK, NEW s \in wire, Land(s)
    PROVE  TypeOK'
<1>1. s \in Statements
    BY DEF TypeOK
<1>2. wire' \subseteq Statements
    BY DEF TypeOK, Land
<1>3. CASE LandAcquire(s)
  <2>1. s.owner \in Procs
      BY <1>1, <1>3 DEF LandAcquire, Statements
  <2> QED BY <1>2, <1>3, <2>1, LeaseUpdates DEF TypeOK, Land, LandAcquire
<1>4. CASE LandBeat(s)
    BY <1>2, <1>4, LeaseUpdates DEF TypeOK, Land, LandBeat
<1>5. CASE LandRelease(s)
    BY <1>2, <1>5, LeaseUpdates DEF TypeOK, Land, LandRelease
<1>6. CASE LandInsert(s)
  <2>1. s.row \in Rows
      BY <1>1, <1>6 DEF LandInsert, Statements
  <2> QED BY <1>2, <1>6, <2>1, WriteType DEF TypeOK, Land, LandInsert
<1> QED BY <1>3, <1>4, <1>5, <1>6 DEF Land

\* Time keeps the types.
LEMMA TickType ==
    ASSUME TypeOK, Tick
    PROVE  TypeOK'
<1>1. \A m \in Nat : \A n \in 0..m : Less(n) \in 0..m
    BY DEF Less
<1>2. lease' \in [owner: Procs \cup {None}, fence: Nat, left: 0..Ttl]
  <2>1. lease \in [owner: Procs \cup {None}, fence: Nat, left: 0..Ttl]
      BY DEF TypeOK
  <2>2. Less(lease.left) \in 0..Ttl
      BY <1>1, <2>1, ConfigAccepted
  <2> QED BY <2>1, <2>2 DEF Tick
<1>3. timer' \in [Procs -> 0..(Heartbeat + Delay)]
  <2>1. \A p \in Procs : timer[p] \in 0..(Heartbeat + Delay)
      BY DEF TypeOK
  <2>2. \A p \in Procs : Less(timer[p]) \in 0..(Heartbeat + Delay)
      BY <1>1, <2>1, ConfigAccepted, DelayIsShort
  <2> QED BY <2>1, <2>2 DEF Tick
<1>4. patience' \in [Procs -> 0..AcquireTimeout]
  <2>1. \A p \in Procs : patience[p] \in 0..AcquireTimeout
      BY DEF TypeOK
  <2>2. \A p \in Procs : Less(patience[p]) \in 0..AcquireTimeout
      BY <1>1, <2>1, ConfigAccepted
  <2> QED BY <2>1, <2>2 DEF Tick
<1> QED BY <1>2, <1>3, <1>4 DEF TypeOK, Tick

\* The types hold at first.
LEMMA InitType == Init => TypeOK
    BY ConfigAccepted, TimerValues
    DEF Init, TypeOK, NoRow, PhaseIds, Acquired, LastPhase, Events, Places, Beats

\* Every step keeps them.
LEMMA NextType == TypeOK /\ [Next]_vars => TypeOK'
<1> SUFFICES ASSUME TypeOK, [Next]_vars PROVE TypeOK'
    OBVIOUS
<1>1. ASSUME NEW p \in Procs, Run(p) PROVE TypeOK'
    BY <1>1, RunType
<1>2. ASSUME NEW p \in Procs, Beat(p) \/ BeatFails(p) PROVE TypeOK'
    BY <1>2, BeatType
<1>3. ASSUME NEW p \in Procs, StatementFails(p) PROVE TypeOK'
    BY <1>3, AbortType DEF StatementFails, Dead
<1>4. ASSUME NEW p \in Procs, Crash(p) PROVE TypeOK'
    BY <1>4, AbortType DEF Crash, Dead
<1>5. ASSUME NEW s \in wire, Land(s) PROVE TypeOK'
    BY <1>5, LandType
<1>6. CASE Tick
    BY <1>6, TickType
<1>7. CASE UNCHANGED vars
    BY <1>7 DEF TypeOK, vars
<1> QED BY <1>1, <1>2, <1>3, <1>4, <1>5, <1>6, <1>7 DEF Next

\* Every variable keeps its type, for every set of attempts and configuration.
THEOREM TypeCorrect == Spec => []TypeOK
    BY InitType, NextType, PTL DEF Spec

-----------------------------------------------------------------------------
(* What a step can change                                                  *)

\* The places of an attempt that exclude each other.
LEMMA PlacesApart ==
    /\ \A x \in Dead : x \notin InPhases \cup {"idle", "releasing", "insert"} \cup Asking
    /\ InPhases \cap Asking = {}
    /\ "insert" \in InPhases /\ "assert" \in InPhases /\ "failed" \in Dead /\ "crashed" \in Dead
    /\ \A x \in {"idle", "stopping", "releasing", "serving"} : x \notin InPhases \cup Asking
    BY DEF Dead, InPhases, Asking

\* An attempt leaves only its own statements on the wire.
LEMMA LeftBehindIsOwn ==
    ASSUME NEW p \in Procs, NEW s \in InFlight(p) \cup BeatOf(p)
    PROVE  /\ s.op \in {"acquire", "release", "beat"} => s.owner = p
           /\ s.op = "insert" => s.row.owner = p
           /\ s \in BeatOf(p) => s.op = "beat"
           /\ s \in InFlight(p) /\ s.op = "insert" =>
                 pc[p] = "insert" /\ s = [op |-> "insert", row |-> RowOf(p)]
    BY DEF InFlight, BeatOf, RowOf

\* Who posted a statement is an attempt.
LEMMA Poster ==
    ASSUME TypeOK, NEW s \in wire
    PROVE  /\ s.op \in {"acquire", "beat", "release", "insert"}
           /\ s.op \in {"acquire", "beat", "release"} => s.owner \in Procs
           /\ s.op = "insert" => s.row \in Rows /\ s.row.owner \in Procs
                                 /\ s = [op |-> "insert", row |-> s.row]
           /\ s.op = "release" => s = [op |-> "release", owner |-> s.owner, fence |-> s.fence]
<1>1. s \in Statements
    BY DEF TypeOK
<1> QED BY <1>1 DEF Statements, Rows

\* Dropping a guard is a matter of its own attempt.
LEMMA DropGuardIsLocal ==
    ASSUME TypeOK, NEW p \in Procs, DropGuard(p), NEW q \in Procs, q # p
    PROVE  token'[q] = token[q] /\ beat'[q] = beat[q] /\ timer'[q] = timer[q]
    BY DEF TypeOK, DropGuard

\* A step of p leaves the other attempts alone, the dead stay dead, and a statement
\* is left on the wire by an attempt that ends or is a heartbeat.
LEMMA StepIsLocal ==
    ASSUME TypeOK, NEW p \in Procs, StepOf(p)
    PROVE  /\ \A q \in Procs \ {p} : /\ pc'[q] = pc[q] /\ token'[q] = token[q]
                                   /\ beat'[q] = beat[q] /\ timer'[q] = timer[q]
           /\ pc[p] \in Dead => pc'[p] = pc[p]
           /\ \A s \in wire' \ wire : s \in BeatOf(p) \/ (s \in InFlight(p) /\ pc'[p] \in Dead)
<1> DEFINE Local ==
        /\ \A q \in Procs \ {p} : /\ pc'[q] = pc[q] /\ token'[q] = token[q]
                                /\ beat'[q] = beat[q] /\ timer'[q] = timer[q]
        /\ pc[p] \in Dead => pc'[p] = pc[p]
        /\ \A s \in wire' \ wire : s \in BeatOf(p) \/ (s \in InFlight(p) /\ pc'[p] \in Dead)
<1>1. /\ pc \in [Procs -> Places] /\ token \in [Procs -> Nat]
      /\ beat \in [Procs -> Beats] /\ timer \in [Procs -> 0..(Heartbeat + Delay)]
    BY DEF TypeOK
<1>2. ASSUME NEW place \in Dead, Abort(p, place), pc[p] \notin Dead PROVE Local
  <2>1. \A q \in Procs \ {p} : pc'[q] = pc[q]
      BY <1>1, <1>2 DEF Abort
  <2>2. pc'[p] \in Dead
      BY <1>1, <1>2 DEF Abort
  <2> QED BY <1>2, <2>1, <2>2, DropGuardIsLocal DEF Abort
<1>3. CASE Begin(p)
    BY <1>1, <1>3 DEF Begin, Dead
<1>4. CASE Grant(p)
    BY <1>1, <1>4 DEF Grant, Dead
<1>5. CASE Busy(p)
    BY <1>1, <1>5 DEF Busy, Dead
<1>6. CASE Retry(p)
    BY <1>1, <1>6 DEF Retry, Dead
<1>7. CASE LookupPhase(p)
    BY <1>1, <1>7 DEF LookupPhase, Dead
<1>8. CASE AssertHeld(p)
    BY <1>1, <1>8 DEF AssertHeld, Dead
<1>9. CASE AssertLost(p)
    BY <1>2, <1>9, PlacesApart DEF AssertLost, Dead
<1>10. CASE InsertRow(p)
  <2>1. CASE AfterStarted(p)
      BY <1>1, <1>10, <2>1 DEF InsertRow, AfterStarted, Dead
  <2>2. CASE AfterDone(p)
      BY <1>1, <1>10, <2>2 DEF InsertRow, AfterDone, Dead
  <2>3. CASE AfterFailed(p)
      BY <1>1, <1>10, <2>3, DropGuardIsLocal DEF InsertRow, AfterFailed, Dead
  <2> QED BY <1>10, <2>1, <2>2, <2>3 DEF InsertRow
<1>11. CASE Work(p)
    BY <1>1, <1>11 DEF Work, Dead
<1>12. CASE StopHeartbeat(p)
    BY <1>1, <1>12 DEF StopHeartbeat, Dead
<1>13. CASE Release(p)
    BY <1>1, <1>13, DropGuardIsLocal DEF Release, Dead
<1>14. CASE BeatRenews(p) \/ BeatMisses(p) \/ BeatOk(p)
    BY <1>1, <1>14 DEF BeatRenews, BeatMisses, BeatOk, Sleeps
<1>15. CASE BeatLost(p)
    BY <1>1, <1>15 DEF BeatLost
<1>16. CASE BeatFails(p)
    BY <1>1, <1>16 DEF BeatFails, Sleeps
<1>17. CASE StatementFails(p)
    BY <1>2, <1>17, PlacesApart DEF StatementFails, Dead
<1>18. CASE Crash(p)
    BY <1>2, <1>18, PlacesApart DEF Crash, Active, Asking, InPhases, Dead
<1>19. CASE Refuse(p) \/ StartGuard(p)
    BY <1>1, <1>19 DEF Refuse, StartGuard, Dead
<1> QED
    BY <1>3, <1>4, <1>5, <1>6, <1>7, <1>8, <1>9, <1>10, <1>11, <1>12, <1>13, <1>14, <1>15,
       <1>16, <1>17, <1>18, <1>19
    DEF StepOf, Run, Beat

\* What a step of p does to the lease.
LEMMA LeaseOfStep ==
    ASSUME TypeOK, NEW p \in Procs, StepOf(p)
    PROVE  \/ lease' = lease
           \/ pc[p] = "acquiring" /\ Takeable(p) /\ lease' = Taken(p)
           \/ Matches(p, token[p]) /\ lease' = Renewed
           \/ pc[p] = "releasing" /\ pc'[p] = "serving" /\ lease' = Deleted(p, token[p])
<1>1. CASE Release(p)
    BY <1>1 DEF TypeOK, Release
<1>2. CASE ~Release(p)
    BY <1>2
    DEF StepOf, Run, Beat, Begin, Grant, Refuse, StartGuard, Busy, Retry, LookupPhase, AssertHeld, AssertLost,
        InsertRow, Work, StopHeartbeat, BeatRenews, BeatMisses, BeatOk, BeatLost, BeatFails, StatementFails, Crash
<1> QED BY <1>1, <1>2

\* What the updates leave of the owner and the fence.
LEMMA UpdatesOfLease ==
    ASSUME TypeOK
    PROVE  /\ Renewed.owner = lease.owner /\ Renewed.fence = lease.fence /\ Renewed.left = Ttl
           /\ \A p : Taken(p).owner = p /\ Taken(p).fence = lease.fence + 1 /\ Taken(p).left = Ttl
           /\ \A p, f : Deleted(p, f) = lease \/ (Matches(p, f) /\ Deleted(p, f) = NoRow)
           /\ NoRow.owner \notin Procs
    BY NoneIsNoProc DEF TypeOK, Renewed, Taken, Deleted, NoRow

\* What a late statement does to the lease.
LEMMA LeaseOfLand ==
    ASSUME NEW s \in wire, Land(s)
    PROVE  \/ lease' = lease
           \/ s.op = "acquire" /\ Takeable(s.owner) /\ lease' = Taken(s.owner)
           \/ s.op = "beat" /\ Matches(s.owner, s.fence) /\ lease' = Renewed
           \/ s.op = "release" /\ lease' = Deleted(s.owner, s.fence)
    BY DEF Land, LandAcquire, LandBeat, LandRelease, LandInsert

-----------------------------------------------------------------------------
(* A live lease ends by its owner                                          *)

\* The row of a live lease goes away only by a DELETE its owner sent.
THEOREM LeaseEndsByItsOwner == Spec => LiveLeaseEndsByItsOwner
<1> DEFINE Ends ==
        \A p \in Procs :
          lease.owner = p /\ lease.left > 0 /\ lease'.owner # p
            => \/ pc[p] = "releasing" /\ pc'[p] = "serving"
               \/ [op |-> "release", owner |-> p, fence |-> lease.fence] \in wire \ wire'
<1>1. ASSUME TypeOK, [Next]_vars PROVE Ends
  <2> SUFFICES ASSUME NEW p \in Procs, lease.owner = p, lease.left > 0, lease'.owner # p
               PROVE  \/ pc[p] = "releasing" /\ pc'[p] = "serving"
                      \/ [op |-> "release", owner |-> p, fence |-> lease.fence] \in wire \ wire'
      OBVIOUS
  <2>1. ASSUME NEW q \in Procs, StepOf(q)
        PROVE  pc[p] = "releasing" /\ pc'[p] = "serving"
    <3>1. ~(Takeable(q) /\ lease' = Taken(q))
        BY <1>1, UpdatesOfLease DEF TypeOK, Takeable
    <3>2. lease' # lease /\ lease' # Renewed
        BY <1>1, UpdatesOfLease
    <3>3. pc[q] = "releasing" /\ pc'[q] = "serving" /\ lease' = Deleted(q, token[q])
        BY <1>1, <2>1, <3>1, <3>2, LeaseOfStep
    <3> QED BY <1>1, <3>2, <3>3, UpdatesOfLease DEF Matches
  <2>2. ASSUME NEW s \in wire, Land(s)
        PROVE  [op |-> "release", owner |-> p, fence |-> lease.fence] \in wire \ wire'
    <3>1. s.op = "release" /\ Matches(s.owner, s.fence)
      <4>1. ~(Takeable(s.owner) /\ lease' = Taken(s.owner))
          BY <1>1, UpdatesOfLease DEF TypeOK, Takeable
      <4>2. lease' # lease /\ lease' # Renewed
          BY <1>1, UpdatesOfLease
      <4>3. s.op = "release" /\ lease' = Deleted(s.owner, s.fence)
          BY <2>2, <4>1, <4>2, LeaseOfLand
      <4> QED BY <1>1, <4>2, <4>3, UpdatesOfLease
    <3>2. s = [op |-> "release", owner |-> p, fence |-> lease.fence]
        BY <1>1, <3>1, Poster DEF Matches
    <3> QED BY <2>2, <3>2 DEF Land
  <2>3. CASE Tick
      BY <1>1, <2>3 DEF TypeOK, Tick
  <2>4. CASE UNCHANGED vars
      BY <2>4 DEF vars
  <2> QED BY <1>1, <2>1, <2>2, <2>3, <2>4 DEF Next, StepOf
<1>2. TypeOK /\ [Next]_vars => [Ends]_vars
    BY <1>1
<1> QED BY <1>2, TypeCorrect, PTL DEF Spec, LiveLeaseEndsByItsOwner

-----------------------------------------------------------------------------
(* One holder at a time, in timely executions                              *)

\* The wire of the dead: an attempt that posted an acquire or a DELETE nobody waits
\* for is dead and stays so.
LEMMA WireOfTheDeadStep ==
    ASSUME TypeOK, WireOfTheDead, [Next]_vars
    PROVE  WireOfTheDead'
<1>1. ASSUME NEW p \in Procs, StepOf(p) PROVE WireOfTheDead'
  <2> SUFFICES ASSUME NEW s \in wire', s.op \in {"acquire", "release"}
               PROVE  pc'[s.owner] \in Dead
      BY DEF WireOfTheDead
  <2>1. CASE s \in wire
      BY <1>1, <2>1, Poster, StepIsLocal DEF WireOfTheDead
  <2>2. CASE s \notin wire
    <3>1. s \in InFlight(p) /\ pc'[p] \in Dead
        BY <1>1, <2>2, StepIsLocal, LeftBehindIsOwn
    <3> QED BY <3>1, LeftBehindIsOwn
  <2> QED BY <2>1, <2>2
<1>2. ASSUME NEW s \in wire, Land(s) PROVE WireOfTheDead'
    BY <1>2 DEF Land, WireOfTheDead
<1>3. CASE Tick
    BY <1>3 DEF Tick, WireOfTheDead
<1>4. CASE UNCHANGED vars
    BY <1>4 DEF vars, WireOfTheDead
<1> QED BY <1>1, <1>2, <1>3, <1>4 DEF Next, StepOf

\* How an attempt can be in its phases after a step of its own.
LEMMA PhasesStep ==
    ASSUME TypeOK, NEW p \in Procs, pc'[p] \in InPhases,
           Run(p) \/ Beat(p) \/ StatementFails(p) \/ Crash(p)
    PROVE  \/ StartGuard(p) \/ Beat(p)
           \/ /\ pc[p] \in InPhases
              /\ UNCHANGED <<lease, token, beat, timer>>
<1>1. pc \in [Procs -> Places]
    BY DEF TypeOK
<1>2. ~(Begin(p) \/ Grant(p) \/ Refuse(p) \/ Busy(p) \/ Retry(p))
    BY <1>1 DEF Begin, Grant, Refuse, Busy, Retry, InPhases
<1>3. ~(AssertLost(p) \/ StopHeartbeat(p) \/ Release(p) \/ StatementFails(p) \/ Crash(p))
    BY <1>1 DEF AssertLost, StopHeartbeat, Release, StatementFails, Crash, Abort, InPhases
<1>4. CASE LookupPhase(p) \/ AssertHeld(p) \/ Work(p)
    BY <1>4 DEF LookupPhase, AssertHeld, Work, InPhases
<1>5. CASE InsertRow(p)
  <2>1. CASE AfterStarted(p) \/ AfterDone(p)
      BY <1>5, <2>1 DEF InsertRow, AfterStarted, AfterDone, InPhases
  <2>2. CASE AfterFailed(p)
      BY <1>1, <2>2, PlacesApart DEF AfterFailed
  <2> QED BY <1>5, <2>1, <2>2 DEF InsertRow
<1> QED BY <1>2, <1>3, <1>4, <1>5 DEF Run

\* What the answer of a grant hangs on is a matter of the grant alone.
LEMMA GrantedStep ==
    ASSUME TypeOK, NEW p \in Procs, pc'[p] = "granted",
           Run(p) \/ StatementFails(p) \/ Crash(p)
    PROVE  Grant(p)
<1>1. pc \in [Procs -> Places]
    BY DEF TypeOK
<1>2. ~(Begin(p) \/ Refuse(p) \/ StartGuard(p) \/ Busy(p) \/ Retry(p))
    BY <1>1 DEF Begin, Refuse, StartGuard, Busy, Retry
<1>3. ~(LookupPhase(p) \/ AssertHeld(p) \/ AssertLost(p) \/ Work(p) \/ StopHeartbeat(p)
          \/ Release(p) \/ StatementFails(p) \/ Crash(p))
    BY <1>1 DEF LookupPhase, AssertHeld, AssertLost, Work, StopHeartbeat, Release,
                StatementFails, Crash, Abort
<1>4. ~InsertRow(p)
    BY <1>1 DEF InsertRow, AfterStarted, AfterDone, AfterFailed
<1> QED BY <1>2, <1>3, <1>4 DEF Run

\* A timely step is a step.
LEMMA TimelyIsNext == [TimelyNext]_vars => [Next]_vars
    BY DEF TimelyNext, Next

\* Who has not got as far as a guard has no heartbeat task.
LEMMA NoTaskYet ==
    ASSUME TypeOK, HolderOutlivesSleep, NEW p \in Procs,
           Run(p) \/ Beat(p) \/ StatementFails(p) \/ Crash(p) \/ BeatFails(p),
           pc'[p] \in {"idle"} \cup Asking
    PROVE  beat'[p] = "off"
<1>1. pc \in [Procs -> Places] /\ beat \in [Procs -> Beats]
    BY DEF TypeOK
<1>2. CASE Begin(p) \/ Grant(p) \/ Refuse(p) \/ Busy(p) \/ Retry(p)
  <2>1. pc[p] \in {"idle"} \cup Asking /\ beat' = beat
      BY <1>2 DEF Begin, Grant, Refuse, Busy, Retry, Asking
  <2> QED BY <2>1 DEF HolderOutlivesSleep
<1>3. CASE Beat(p) \/ BeatFails(p)
  <2>1. pc' = pc /\ beat[p] # "off"
      BY <1>3 DEF Beat, BeatRenews, BeatMisses, BeatOk, BeatLost, BeatFails, BeatDue
  <2> QED BY <2>1 DEF HolderOutlivesSleep
<1>4. ~(StartGuard(p) \/ LookupPhase(p) \/ AssertHeld(p) \/ AssertLost(p) \/ Work(p)
          \/ StopHeartbeat(p) \/ Release(p) \/ StatementFails(p) \/ Crash(p))
    BY <1>1 DEF StartGuard, LookupPhase, AssertHeld, AssertLost, Work, StopHeartbeat, Release,
                StatementFails, Crash, Abort, Asking
<1>5. ~InsertRow(p)
    BY <1>1 DEF InsertRow, AfterStarted, AfterDone, AfterFailed, Asking
<1> QED BY <1>2, <1>3, <1>4, <1>5 DEF Run

\* The holder's lease outlives the time to its next heartbeat.
LEMMA HolderStep ==
    ASSUME TimelyInv, [TimelyNext]_vars
    PROVE  HolderOutlivesSleep'
<1> USE DEF TimelyInv
<1> DEFINE Holders == InPhases \cup {"granted"}
           Held(q) == /\ Matches(q, token[q]) /\ TimeToBeat(q) < lease.left
                      /\ pc[q] \in InPhases => beat[q] \in {"asleep", "renewed"}
           Off(q) == pc[q] \in {"idle"} \cup Asking => beat[q] = "off"
<1>0. /\ \A q \in Procs : timer[q] \in Nat /\ token[q] \in Nat
      /\ lease.left \in Nat /\ lease.fence \in Nat
      /\ Heartbeat \in Nat /\ Ttl \in Nat /\ Delay \in Nat /\ Heartbeat + 2 * Delay < Ttl
      /\ \A q \in Procs : TimeToBeat(q) \in Nat
    BY ConfigAccepted, DelayIsShort DEF TypeOK, TimeToBeat
<1>h. ASSUME NEW q \in Procs, pc[q] \in Holders
      PROVE  Held(q) /\ lease.left > 0
    BY <1>0, <1>h DEF HolderOutlivesSleep
<1>p. \A x \in Dead : x \notin Holders
    BY PlacesApart DEF Dead
\* The lease of a holder is alive, so nobody else can touch it.
<1>1. ASSUME NEW q \in Procs, pc[q] \in Holders, NEW r \in Procs, r # q
      PROVE  /\ ~Takeable(r)
             /\ \A f : ~Matches(r, f)
    BY <1>0, <1>1, <1>h DEF Takeable, Matches
<1>k. ASSUME NEW q \in Procs, pc[q] \in Holders, pc'[q] \in Holders,
             pc'[q] \in InPhases => beat[q] \in {"asleep", "renewed"},
             lease' = lease, UNCHANGED <<token[q], beat[q], timer[q]>>
      PROVE  Held(q)'
    BY <1>h, <1>k DEF Matches, TimeToBeat
<1>2. ASSUME NEW p \in Procs,
             \/ Run(p) \/ Beat(p) \/ StatementFails(p) \/ Crash(p)
             \/ lease.left > Heartbeat + Delay /\ BeatFails(p),
             NEW q \in Procs
      PROVE  (pc'[q] \in Holders => Held(q)') /\ Off(q)'
  <2>1. CASE q # p
    <3>1. pc'[q] = pc[q] /\ UNCHANGED <<token[q], beat[q], timer[q]>>
        BY <1>2, <2>1, StepIsLocal DEF StepOf
    <3>2. Off(q)'
        BY <3>1 DEF HolderOutlivesSleep
    <3>3. ASSUME pc'[q] \in Holders PROVE Held(q)'
      <4>1. lease' = lease
          BY <1>1, <1>2, <2>1, <3>1, <3>3, LeaseOfStep, UpdatesOfLease DEF StepOf
      <4>2. pc[q] \in Holders /\ (pc[q] \in InPhases => beat[q] \in {"asleep", "renewed"})
          BY <1>h, <3>1, <3>3
      <4> QED BY <1>k, <3>1, <3>3, <4>1, <4>2
    <3> QED BY <3>2, <3>3
  <2>2. CASE q = p
    <3>0. Off(p)'
        BY <1>2, NoTaskYet
    <3> SUFFICES ASSUME pc'[p] \in Holders PROVE Held(p)'
        BY <2>2, <3>0
    <3>1. CASE Grant(p)
      <4>1. /\ lease' = Taken(p) /\ token'[p] = lease.fence + 1 /\ timer'[p] = Delay
            /\ pc'[p] = "granted" /\ "granted" \notin InPhases
          BY <3>1 DEF TypeOK, Grant, InPhases
      <4>2. beat'[p] = "off"
          BY <3>0, <4>1 DEF Asking
      <4>3. TimeToBeat(p)' < Ttl
          BY <1>0, <4>1, <4>2 DEF TimeToBeat
      <4> QED BY <4>1, <4>3, UpdatesOfLease DEF Matches
    <3>2. CASE StartGuard(p)
      <4>1. /\ pc[p] = "granted" /\ lease' = lease /\ token' = token
            /\ beat'[p] = "asleep" /\ timer'[p] = Heartbeat + Delay
          BY <3>2 DEF TypeOK, StartGuard
      <4>2. beat[p] = "off" /\ Held(p)
          BY <1>h, <4>1 DEF HolderOutlivesSleep, Asking
      <4>3. TimeToBeat(p) = timer[p] + (Heartbeat + Delay) /\ TimeToBeat(p)' = Heartbeat + Delay
          BY <1>0, <4>1, <4>2 DEF TimeToBeat
      <4>4. Heartbeat + Delay < lease.left
          BY <1>0, <4>2, <4>3
      <4> QED BY <4>1, <4>2, <4>3, <4>4 DEF Matches
    <3>3. CASE BeatRenews(p)
      <4>1. /\ lease' = Renewed /\ timer'[p] = Delay /\ beat'[p] = "renewed" /\ token' = token
            /\ Matches(p, token[p])
          BY <3>3 DEF TypeOK, BeatRenews
      <4>2. TimeToBeat(p)' < Ttl
          BY <1>0, <4>1 DEF TimeToBeat
      <4> QED BY <4>1, <4>2, UpdatesOfLease DEF Matches
    <3>4. CASE BeatMisses(p) \/ BeatLost(p)
      <4>1. pc[p] \in Holders
          BY <3>4 DEF BeatMisses, BeatLost
      <4>2. pc[p] = "granted" => beat[p] = "off"
          BY DEF HolderOutlivesSleep, Asking
      <4> QED BY <1>h, <3>4, <4>1, <4>2 DEF BeatMisses, BeatLost, BeatDue
    <3>5. CASE BeatOk(p)
      <4>1. pc[p] \in Holders /\ lease' = lease /\ token' = token /\ beat[p] = "renewed"
          BY <3>5 DEF BeatOk
      <4>2. beat'[p] = "asleep" /\ timer'[p] = Heartbeat + Delay
          BY <3>5, <4>1, PlacesApart DEF TypeOK, BeatOk, Sleeps
      <4>3. TimeToBeat(p) = timer[p] + (Heartbeat + Delay) /\ TimeToBeat(p)' = Heartbeat + Delay
          BY <1>0, <4>1, <4>2 DEF TimeToBeat
      <4>4. Heartbeat + Delay < lease.left /\ Matches(p, token[p])
          BY <1>0, <1>h, <4>1, <4>3
      <4> QED BY <4>1, <4>2, <4>3, <4>4 DEF Matches
    <3>6. CASE lease.left > Heartbeat + Delay /\ BeatFails(p)
      <4>1. pc[p] \in Holders /\ lease' = lease /\ token' = token
          BY <3>6 DEF BeatFails
      <4>2. beat'[p] = "asleep" /\ timer'[p] = Heartbeat + Delay
          BY <3>6, <4>1, PlacesApart DEF TypeOK, BeatFails, Sleeps
      <4>3. TimeToBeat(p)' = Heartbeat + Delay
          BY <1>0, <4>2 DEF TimeToBeat
      <4>4. Heartbeat + Delay < lease.left /\ Matches(p, token[p])
          BY <1>0, <1>h, <3>6, <4>1
      <4> QED BY <4>1, <4>2, <4>3, <4>4 DEF Matches
    <3>7. CASE pc[p] \in InPhases /\ UNCHANGED <<lease, token, beat, timer>>
        BY <1>h, <1>k, <3>7
    <3>8. CASE pc'[p] = "granted" /\ (Run(p) \/ StatementFails(p) \/ Crash(p))
        BY <3>1, <3>8, GrantedStep
    <3>9. CASE pc'[p] \in InPhases /\ (Run(p) \/ Beat(p) \/ StatementFails(p) \/ Crash(p))
        BY <3>2, <3>3, <3>4, <3>5, <3>7, <3>9, PhasesStep DEF Beat
    <3> QED BY <1>2, <3>3, <3>4, <3>5, <3>6, <3>8, <3>9 DEF Beat
  <2> QED BY <2>1, <2>2
<1>3. ASSUME NEW s \in wire, Land(s), NEW q \in Procs
      PROVE  (pc'[q] \in Holders => Held(q)') /\ Off(q)'
  <2>0. UNCHANGED <<pc, token, beat, timer>>
      BY <1>3 DEF Land
  <2> SUFFICES ASSUME pc[q] \in Holders PROVE Held(q)'
      BY <2>0 DEF HolderOutlivesSleep
  <2>2. Held(q)
      BY <1>h
  <2>3. CASE lease' = lease
      BY <1>k, <2>0, <2>2, <2>3
  <2>4. CASE s.op = "acquire" /\ Takeable(s.owner) /\ lease' = Taken(s.owner)
    <3>1. s.owner \in Procs /\ pc[s.owner] \in Dead
        BY <2>4, Poster DEF WireOfTheDead
    <3>2. s.owner # q
        BY <1>p, <3>1
    <3> QED BY <1>1, <2>4, <3>1, <3>2
  <2>5. CASE s.op = "beat" /\ Matches(s.owner, s.fence) /\ lease' = Renewed
    <3>1. lease.left <= Ttl /\ TimeToBeat(q)' = TimeToBeat(q)
        BY <2>0 DEF TypeOK, TimeToBeat
    <3>2. TimeToBeat(q)' < Ttl
        BY <1>0, <2>2, <3>1 DEF TypeOK
    <3> QED BY <2>0, <2>2, <2>5, <3>2, UpdatesOfLease DEF Matches
  <2>6. CASE s.op = "release" /\ lease' = Deleted(s.owner, s.fence)
    <3>1. s.owner \in Procs /\ pc[s.owner] \in Dead
        BY <2>6, Poster DEF WireOfTheDead
    <3>2. s.owner # q
        BY <1>p, <3>1
    <3>3. lease' = lease
        BY <1>1, <2>6, <3>1, <3>2, UpdatesOfLease
    <3> QED BY <2>3, <3>3
  <2> QED BY <1>3, <2>3, <2>4, <2>5, <2>6, LeaseOfLand
<1>4. ASSUME \A p \in Procs : ~Overdue(p), Tick, NEW q \in Procs
      PROVE  (pc'[q] \in Holders => Held(q)') /\ Off(q)'
  <2>0. UNCHANGED <<pc, token, beat>>
      BY <1>4 DEF Tick
  <2> SUFFICES ASSUME pc[q] \in Holders PROVE Held(q)'
      BY <2>0 DEF HolderOutlivesSleep
  <2>1. Held(q) /\ timer[q] # 0
      BY <1>4, <1>h DEF Overdue
  <2>2. /\ lease'.owner = lease.owner /\ lease'.fence = lease.fence
        /\ lease'.left = Less(lease.left) /\ timer'[q] = Less(timer[q])
      BY <1>4 DEF TypeOK, Tick
  <2>3. lease'.left = lease.left - 1 /\ timer'[q] = timer[q] - 1
      BY <1>0, <2>1, <2>2, <1>h DEF Less
  <2>4. TimeToBeat(q)' = TimeToBeat(q) - 1
      BY <1>0, <2>0, <2>3 DEF TimeToBeat
  <2>5. TimeToBeat(q)' < lease'.left
      BY <1>0, <2>1, <2>3, <2>4
  <2> QED BY <2>0, <2>1, <2>2, <2>5 DEF Matches
<1>5. ASSUME UNCHANGED vars, NEW q \in Procs
      PROVE  (pc'[q] \in Holders => Held(q)') /\ Off(q)'
    BY <1>5, <1>h DEF vars, HolderOutlivesSleep, Matches, TimeToBeat
<1>6. \A q \in Procs : (pc'[q] \in Holders => Held(q)') /\ Off(q)'
    BY <1>2, <1>3, <1>4, <1>5 DEF TimelyNext
<1> QED BY <1>6 DEF HolderOutlivesSleep

\* In timely executions no two attempts are inside their phases together, whatever
\* crashes, fails or lands late: for every delay of the statements about the lease such
\* that a heartbeat interval and two delays are shorter than the ttl.
THEOREM OneHolder == TimelySpec => []OneHolderAtATime
<1>1. Init => TimelyInv
  <2>1. Init => WireOfTheDead
      BY DEF Init, WireOfTheDead
  <2>2. Init => HolderOutlivesSleep
      BY PlacesApart DEF Init, HolderOutlivesSleep, Asking
  <2> QED BY <2>1, <2>2, InitType DEF TimelyInv
<1>2. TimelyInv /\ [TimelyNext]_vars => TimelyInv'
    BY TimelyIsNext, NextType, WireOfTheDeadStep, HolderStep DEF TimelyInv
<1>3. TimelyInv => OneHolderAtATime
    BY PlacesApart, NoneIsNoProc DEF TimelyInv, HolderOutlivesSleep, OneHolderAtATime, Matches
<1> QED BY <1>1, <1>2, <1>3, PTL DEF TimelySpec

-----------------------------------------------------------------------------
(* At most one stale row, in every execution                               *)

\* A row not written by p leaves p's count alone; a row of p is stale or it is not.
LEMMA StaleOfWrite ==
    ASSUME TypeOK, NEW row \in Rows, Write(row)
    PROVE  /\ \A q \in Procs \ {row.owner} : staleRows'[q] = staleRows[q]
           /\ \/ staleRows'[row.owner] = staleRows[row.owner]
              \/ /\ staleRows'[row.owner] = staleRows[row.owner] + 1
                 /\ ~Matches(row.owner, row.fence)
<1>1. staleRows \in [Procs -> Nat] /\ row.owner \in Procs
    BY DEF TypeOK, Rows
<1> QED BY <1>1 DEF Write

\* A step of p that writes no row counts none.
LEMMA StaleOfStep ==
    ASSUME TypeOK, NEW p \in Procs, StepOf(p)
    PROVE  staleRows' = staleRows \/ InsertRow(p)
    BY DEF StepOf, Run, Beat, Begin, Grant, Refuse, StartGuard, Busy, Retry, LookupPhase, AssertHeld, AssertLost,
           Work, StopHeartbeat, Release, BeatRenews, BeatMisses, BeatOk, BeatLost, BeatFails, StatementFails, Crash

\* After its row an attempt looks at the lease again before the next one.
LEMMA AfterInsert ==
    ASSUME TypeOK, NEW p \in Procs, InsertRow(p)
    PROVE  /\ pc'[p] \notin {"idle", "insert"} \cup Asking
           /\ lease' = lease
           /\ pc'[p] \in InPhases => token'[p] = token[p]
           /\ \A s \in wire' \ wire : s \in BeatOf(p)
<1>1. pc \in [Procs -> Places]
    BY DEF TypeOK
<1>2. CASE AfterStarted(p)
    BY <1>1, <1>2 DEF InsertRow, AfterStarted, Asking
<1>3. CASE AfterDone(p)
    BY <1>1, <1>3 DEF InsertRow, AfterDone, Asking
<1>4. CASE AfterFailed(p)
    BY <1>1, <1>4, PlacesApart DEF InsertRow, AfterFailed
<1> QED BY <1>2, <1>3, <1>4 DEF InsertRow

\* An attempt gets to its INSERT through a lease that is still its own, and a guarded
\* attempt that is not granted a lease keeps its token.
LEMMA WayToInsert ==
    ASSUME TypeOK, NEW p \in Procs, StepOf(p),
           pc[p] \notin {"idle", "insert"} \cup Asking
    PROVE  /\ pc'[p] \notin {"idle"} \cup Asking
           /\ pc'[p] = "insert" => pc[p] \in InPhases /\ Matches(p, token[p])
           /\ pc'[p] \in InPhases => pc[p] \in InPhases /\ token'[p] = token[p]
           /\ InFlight(p) \subseteq [op: {"release"}, owner: Procs, fence: Nat]
<1>1. pc \in [Procs -> Places] /\ token[p] \in Nat
    BY DEF TypeOK
<1>2. InFlight(p) \subseteq [op: {"release"}, owner: Procs, fence: Nat]
    BY <1>1 DEF InFlight, Asking
<1>3. CASE LookupPhase(p) \/ Work(p)
    BY <1>1, <1>2, <1>3 DEF LookupPhase, Work, InPhases, Asking
<1>8. CASE Beat(p) \/ BeatFails(p)
    BY <1>1, <1>2, <1>8 DEF Beat, BeatRenews, BeatMisses, BeatOk, BeatLost, BeatFails
<1>4. CASE AssertHeld(p)
    BY <1>1, <1>2, <1>4 DEF AssertHeld, FenceHolds, InPhases, Asking
<1>5. CASE StopHeartbeat(p) \/ Release(p)
    BY <1>1, <1>2, <1>5, PlacesApart DEF StopHeartbeat, Release
<1>6. CASE AssertLost(p) \/ StatementFails(p) \/ Crash(p)
    BY <1>1, <1>2, <1>6, PlacesApart DEF AssertLost, StatementFails, Crash, Abort
<1>7. /\ ~Begin(p) /\ ~Grant(p) /\ ~Refuse(p) /\ ~StartGuard(p) /\ ~Busy(p) /\ ~Retry(p)
      /\ ~InsertRow(p)
    BY DEF Begin, Grant, Refuse, StartGuard, Busy, Retry, InsertRow, Asking
<1> QED BY <1>3, <1>4, <1>5, <1>6, <1>7, <1>8 DEF StepOf, Run

\* One insert per dead attempt stays on the wire.
LEMMA OneInsertStep ==
    ASSUME TypeOK, OneInsert, [Next]_vars
    PROVE  OneInsert'
<1>1. ASSUME NEW p \in Procs, StepOf(p) PROVE OneInsert'
  <2>1. ASSUME NEW s \in wire', s.op = "insert", s \notin wire
        PROVE  /\ s.row.owner = p /\ pc'[p] \in Dead /\ pc[p] = "insert"
               /\ s = [op |-> "insert", row |-> RowOf(p)]
      BY <1>1, <2>1, StepIsLocal, LeftBehindIsOwn
  <2>2. ASSUME NEW s \in wire, s.op = "insert"
        PROVE  pc'[s.row.owner] \in Dead /\ pc[s.row.owner] \in Dead /\ s.row.owner \in Procs
      BY <1>1, <2>2, StepIsLocal, Poster DEF OneInsert
  <2> SUFFICES ASSUME NEW s \in wire', s.op = "insert"
               PROVE  /\ pc'[s.row.owner] \in Dead
                      /\ \A t \in wire' : t.op = "insert" /\ t.row.owner = s.row.owner => t = s
      BY DEF OneInsert, InsertsOf
  <2>3. pc'[s.row.owner] \in Dead
      BY <2>1, <2>2
  <2>4. ASSUME NEW t \in wire', t.op = "insert", t.row.owner = s.row.owner
        PROVE  t = s
    <3>1. CASE s \in wire /\ t \in wire
        BY <2>4, <3>1 DEF OneInsert, InsertsOf
    <3>2. CASE s \notin wire /\ t \notin wire
        BY <2>1, <2>4, <3>2
    <3>3. CASE s \in wire /\ t \notin wire
        BY <2>1, <2>2, <2>4, <3>3, PlacesApart
    <3>4. CASE s \notin wire /\ t \in wire
        BY <2>1, <2>2, <2>4, <3>4, PlacesApart
    <3> QED BY <3>1, <3>2, <3>3, <3>4
  <2> QED BY <2>3, <2>4
<1>2. ASSUME NEW s \in wire, Land(s) PROVE OneInsert'
    BY <1>2 DEF Land, OneInsert, InsertsOf
<1>3. CASE Tick
    BY <1>3 DEF Tick, OneInsert, InsertsOf
<1>4. CASE UNCHANGED vars
    BY <1>4 DEF vars, OneInsert, InsertsOf
<1> QED BY <1>1, <1>2, <1>3, <1>4 DEF Next, StepOf

\* Who has written a stale row is past its last row.
LEMMA StaleIsLastStep ==
    ASSUME FenceInv, [Next]_vars
    PROVE  StaleIsLast'
<1> USE DEF FenceInv
<1> DEFINE Past(q) ==
        staleRows[q] # 0 =>
            /\ staleRows[q] = 1
            /\ pc[q] \notin {"idle", "insert"} \cup Asking
            /\ pc[q] \in InPhases => ~Matches(q, token[q])
            /\ InsertsOf(q) = {}
<1>0. /\ \A q \in Procs : Past(q)
      /\ \A q \in Procs : staleRows[q] \in Nat
    BY DEF StaleIsLast, TypeOK
\* A lease that is not q's does not become q's by a step of another.
<1>1. ASSUME NEW q \in Procs, NEW f, ~Matches(q, f),
             \/ lease' = lease \/ lease' = Renewed \/ \E r, g : lease' = Deleted(r, g)
             \/ \E r : r # q /\ lease' = Taken(r)
      PROVE  ~(lease'.owner = q /\ lease'.fence = f)
    BY <1>1, UpdatesOfLease DEF Matches
<1>2. ASSUME NEW p \in Procs, StepOf(p), NEW q \in Procs
      PROVE  Past(q)'
  <2>1. CASE q # p
    <3>1. pc'[q] = pc[q] /\ token'[q] = token[q]
        BY <1>2, <2>1, StepIsLocal
    <3>2. staleRows'[q] = staleRows[q]
      <4>1. ASSUME InsertRow(p) PROVE staleRows'[q] = staleRows[q]
        <5>1. RowOf(p) \in Rows /\ RowOf(p).owner = p
            BY LeftBehind DEF RowOf
        <5> QED BY <2>1, <4>1, <5>1, StaleOfWrite DEF InsertRow
      <4> QED BY <1>2, <4>1, StaleOfStep
    <3>3. InsertsOf(q) = {} => InsertsOf(q)' = {}
        BY <1>2, <2>1, StepIsLocal, LeftBehindIsOwn DEF InsertsOf
    <3>4. ~Matches(q, token[q]) => ~Matches(q, token[q])'
        BY <1>1, <1>2, <2>1, <3>1, LeaseOfStep DEF Matches
    <3> QED BY <1>0, <3>1, <3>2, <3>3, <3>4
  <2>2. CASE q = p /\ InsertRow(p)
    <3>1. pc[p] = "insert" /\ staleRows[p] = 0
        BY <1>0, <2>2 DEF InsertRow
    <3>2. RowOf(p) \in Rows /\ RowOf(p).owner = p /\ RowOf(p).fence = token[p]
        BY LeftBehind DEF RowOf
    <3>3. staleRows'[p] # 0 => staleRows'[p] = 1 /\ ~Matches(p, token[p])
        BY <2>2, <3>1, <3>2, StaleOfWrite DEF InsertRow
    <3>4. InsertsOf(p) = {}
        BY <3>1, PlacesApart DEF OneInsert, InsertsOf
    <3>5. InsertsOf(p)' = {}
        BY <2>2, <3>4, AfterInsert, LeftBehindIsOwn DEF InsertsOf
    <3> QED BY <2>2, <3>3, <3>5, AfterInsert DEF Matches
  <2>3. CASE q = p /\ ~InsertRow(p)
    <3>1. staleRows' = staleRows
        BY <1>2, <2>3, StaleOfStep
    <3> SUFFICES ASSUME staleRows[p] # 0
                 PROVE  /\ pc'[p] \notin {"idle", "insert"} \cup Asking
                        /\ pc'[p] \in InPhases => ~Matches(p, token[p])'
                        /\ InsertsOf(p)' = {}
        BY <1>0, <2>3, <3>1
    <3>2. /\ pc[p] \notin {"idle", "insert"} \cup Asking
          /\ pc[p] \in InPhases => ~Matches(p, token[p])
          /\ InsertsOf(p) = {}
        BY <1>0
    <3>3. pc'[p] \notin {"idle", "insert"} \cup Asking
        BY <1>2, <3>2, WayToInsert
    <3>4. ASSUME pc'[p] \in InPhases PROVE ~Matches(p, token[p])'
      <4>1. pc[p] \in InPhases /\ token'[p] = token[p]
          BY <1>2, <3>2, <3>4, WayToInsert
      <4>2. \/ lease' = lease \/ lease' = Renewed \/ \E r, g : lease' = Deleted(r, g)
          BY <1>2, <3>2, LeaseOfStep DEF Asking
      <4> QED BY <1>1, <3>2, <4>1, <4>2 DEF Matches
    <3>5. InsertsOf(p)' = {}
      <4>1. ASSUME NEW s \in wire' \ wire PROVE s.op # "insert"
          BY <1>2, <3>2, <4>1, StepIsLocal, LeftBehindIsOwn, WayToInsert
      <4> QED BY <3>2, <4>1 DEF InsertsOf
    <3> QED BY <3>3, <3>4, <3>5
  <2> QED BY <2>1, <2>2, <2>3
<1>3. ASSUME NEW s \in wire, Land(s), NEW q \in Procs
      PROVE  Past(q)'
  <2>1. UNCHANGED <<pc, token>> /\ wire' = wire \ {s}
      BY <1>3 DEF Land
  <2>2. ASSUME pc[q] \in InPhases, ~Matches(q, token[q]) PROVE ~Matches(q, token[q])'
    <3>1. ASSUME s.op = "acquire", lease' = Taken(s.owner) PROVE s.owner # q
        BY <2>2, <3>1, PlacesApart DEF WireOfTheDead
    <3> QED BY <1>1, <1>3, <2>1, <2>2, <3>1, LeaseOfLand DEF Matches
  <2>3. CASE s.op = "insert" /\ s.row.owner = q
    <3>1. s.row \in Rows /\ Write(s.row)
        BY <1>3, <2>3, Poster DEF Land, LandAcquire, LandBeat, LandRelease, LandInsert
    <3>2. InsertsOf(q) = {s} /\ pc[q] \in Dead
        BY <2>3 DEF OneInsert, InsertsOf
    <3>3. staleRows[q] = 0
        BY <1>0, <3>2
    <3>4. staleRows'[q] # 0 => staleRows'[q] = 1
        BY <2>3, <3>1, <3>3, StaleOfWrite
    <3>5. InsertsOf(q)' = {}
        BY <2>1, <3>2 DEF InsertsOf
    <3> QED BY <2>1, <3>2, <3>4, <3>5, PlacesApart
  <2>4. CASE ~(s.op = "insert" /\ s.row.owner = q)
    <3>1. staleRows'[q] = staleRows[q]
      <4>1. CASE s.op = "insert"
          BY <1>3, <2>4, <4>1, Poster, StaleOfWrite
          DEF Land, LandAcquire, LandBeat, LandRelease, LandInsert
      <4>2. CASE s.op # "insert"
          BY <1>3, <4>2 DEF Land, LandAcquire, LandBeat, LandRelease, LandInsert
      <4> QED BY <4>1, <4>2
    <3>2. InsertsOf(q) = {} => InsertsOf(q)' = {}
        BY <2>1 DEF InsertsOf
    <3> QED BY <1>0, <2>1, <2>2, <3>1, <3>2
  <2> QED BY <2>3, <2>4
<1>4. ASSUME Tick, NEW q \in Procs PROVE Past(q)'
  <2>1. lease'.owner = lease.owner /\ lease'.fence = lease.fence
        /\ UNCHANGED <<pc, token, wire, staleRows>>
      BY <1>4 DEF TypeOK, Tick
  <2> QED BY <1>0, <2>1 DEF Matches, InsertsOf
<1>5. ASSUME UNCHANGED vars, NEW q \in Procs PROVE Past(q)'
    BY <1>0, <1>5 DEF vars, Matches, InsertsOf
<1>6. \A q \in Procs : Past(q)'
    BY <1>2, <1>3, <1>4, <1>5 DEF Next, StepOf
<1> QED BY <1>6 DEF StaleIsLast

\* However late heartbeats and statements are, an attempt that has lost its lease
\* adds at most one more row to the journal.
THEOREM OneStaleRow == Spec => []AtMostOneStaleRow
<1>1. Init => FenceInv
  <2>1. Init => WireOfTheDead /\ OneInsert
      BY DEF Init, WireOfTheDead, OneInsert
  <2>2. Init => StaleIsLast
      BY DEF Init, StaleIsLast
  <2> QED BY <2>1, <2>2, InitType DEF FenceInv
<1>2. FenceInv /\ [Next]_vars => FenceInv'
    BY NextType, WireOfTheDeadStep, OneInsertStep, StaleIsLastStep DEF FenceInv
<1>3. FenceInv => AtMostOneStaleRow
  <2> SUFFICES ASSUME FenceInv, NEW p \in Procs PROVE staleRows[p] <= 1
      BY DEF AtMostOneStaleRow
  <2>1. staleRows[p] = 0 \/ staleRows[p] = 1
      BY DEF FenceInv, StaleIsLast
  <2> QED BY <2>1
<1> QED BY <1>1, <1>2, <1>3, PTL DEF Spec
-----------------------------------------------------------------------------
(* What is skipped was completed, in every execution                       *)

\* The phases that some attempt has completed.
DonePhases == {journal[i].phase : i \in {j \in DOMAIN journal : journal[j].event = "completed"}}

\* Who is about to write that it skipped its phase, at once or with a row left on the
\* wire, has seen it completed.
SkipInv ==
    /\ TypeOK
    /\ \A p \in Procs : event[p] = "skipped" => phase[p] \in DonePhases
    /\ \A s \in wire : s.op = "insert" /\ s.row.event = "skipped" => s.row.phase \in DonePhases
    /\ SkippedWasCompleted

\* A row at the end of the journal takes nothing away from it.
LEMMA JournalGrows ==
    ASSUME TypeOK, NEW row \in Rows, Write(row)
    PROVE  /\ DonePhases \subseteq DonePhases'
           /\ SkippedWasCompleted /\ (row.event = "skipped" => row.phase \in DonePhases)
                => SkippedWasCompleted'
<1>1. /\ journal \in Seq(Rows) /\ Len(journal) \in Nat
      /\ journal' = Append(journal, row)
    BY DEF TypeOK, Write
<1>2. /\ DOMAIN journal = 1..Len(journal)
      /\ DOMAIN journal' = 1..(Len(journal) + 1)
      /\ \A i \in DOMAIN journal : journal'[i] = journal[i]
      /\ journal'[Len(journal) + 1] = row
    BY <1>1
<1>3. DOMAIN journal \subseteq DOMAIN journal'
    BY <1>1, <1>2
<1>4. DonePhases \subseteq DonePhases'
    BY <1>2, <1>3 DEF DonePhases
<1>5. ASSUME SkippedWasCompleted, row.event = "skipped" => row.phase \in DonePhases
      PROVE  SkippedWasCompleted'
  <2> SUFFICES ASSUME NEW j \in DOMAIN journal', journal'[j].event = "skipped"
               PROVE  \E i \in 1..(j - 1) : /\ journal'[i].phase = journal'[j].phase
                                            /\ journal'[i].event = "completed"
      BY DEF SkippedWasCompleted
  <2>1. CASE j \in DOMAIN journal
    <3>1. PICK i \in 1..(j - 1) : /\ journal[i].phase = journal[j].phase
                                  /\ journal[i].event = "completed"
        BY <1>2, <1>5, <2>1 DEF SkippedWasCompleted
    <3>2. i \in DOMAIN journal
        BY <1>1, <1>2, <2>1, <3>1
    <3> QED BY <1>2, <2>1, <3>1, <3>2
  <2>2. CASE j = Len(journal) + 1
    <3>1. PICK i \in DOMAIN journal : journal[i].phase = row.phase /\ journal[i].event = "completed"
        BY <1>2, <1>5, <2>2 DEF DonePhases
    <3>2. i \in 1..(j - 1)
        BY <1>1, <1>2, <2>2, <3>1
    <3> QED BY <1>2, <2>2, <3>1, <3>2
  <2> QED BY <1>1, <1>2, <2>1, <2>2
<1> QED BY <1>4, <1>5

\* Only run_phase's look-up decides to skip, of the phase the attempt stays in.
LEMMA SkipIsLookedUp ==
    ASSUME TypeOK, NEW p \in Procs, StepOf(p), NEW q \in Procs, event'[q] = "skipped"
    PROVE  phase'[q] = phase[q] /\ (event[q] = "skipped" \/ phase[q] \in DonePhases)
<1>1. event \in [Procs -> Events] /\ phase \in [Procs -> PhaseIds]
    BY DEF TypeOK
<1>2. CASE DropGuard(p)
    BY <1>1, <1>2 DEF DropGuard
<1>3. CASE LookupPhase(p)
    BY <1>1, <1>3 DEF LookupPhase, CompletedBefore, DonePhases
<1>4. CASE Work(p)
    BY <1>1, <1>4 DEF Work
<1>5. CASE InsertRow(p) /\ ~DropGuard(p)
    BY <1>1, <1>5 DEF InsertRow, AfterStarted, AfterDone, AfterFailed
<1>6. CASE UNCHANGED <<phase, event>>
    BY <1>6
<1>7. DropGuard(p) \/ LookupPhase(p) \/ Work(p) \/ InsertRow(p) \/ UNCHANGED <<phase, event>>
    BY DEF StepOf, Run, Beat, Begin, Grant, Refuse, StartGuard, Busy, Retry, AssertHeld, AssertLost, StopHeartbeat,
           Release, BeatRenews, BeatMisses, BeatOk, BeatLost, BeatFails, StatementFails, Crash, Abort
<1> QED BY <1>2, <1>3, <1>4, <1>5, <1>6, <1>7

\* Every step keeps the invariant.
LEMMA SkipStep ==
    ASSUME SkipInv, [Next]_vars
    PROVE  SkipInv'
<1>0. TypeOK /\ TypeOK'
    BY NextType DEF SkipInv
<1>1. ASSUME NEW row \in Rows, Write(row), row.event = "skipped" => row.phase \in DonePhases
      PROVE  DonePhases \subseteq DonePhases' /\ SkippedWasCompleted'
    BY <1>0, <1>1, JournalGrows DEF SkipInv
<1>2. ASSUME journal' = journal
      PROVE  DonePhases \subseteq DonePhases' /\ SkippedWasCompleted'
    BY <1>2 DEF SkipInv, DonePhases, SkippedWasCompleted
<1>3. ASSUME NEW p \in Procs, StepOf(p) PROVE SkipInv'
  <2>1. DonePhases \subseteq DonePhases' /\ SkippedWasCompleted'
    <3>1. CASE InsertRow(p)
      <4>1. RowOf(p) \in Rows /\ RowOf(p).event = event[p] /\ RowOf(p).phase = phase[p]
          BY <1>0, LeftBehind DEF RowOf
      <4> QED BY <1>1, <3>1, <4>1 DEF InsertRow, SkipInv
    <3>2. CASE journal' = journal
        BY <1>2, <3>2
    <3>3. InsertRow(p) \/ journal' = journal
        BY <1>3
        DEF StepOf, Run, Beat, Begin, Grant, Refuse, StartGuard, Busy, Retry, LookupPhase, AssertHeld, AssertLost, Work,
            StopHeartbeat, Release, BeatRenews, BeatMisses, BeatOk, BeatLost, BeatFails, StatementFails, Crash
    <3> QED BY <3>1, <3>2, <3>3
  <2>2. ASSUME NEW q \in Procs, event'[q] = "skipped" PROVE phase'[q] \in DonePhases'
      BY <1>0, <1>3, <2>1, <2>2, SkipIsLookedUp DEF SkipInv
  <2>3. ASSUME NEW s \in wire', s.op = "insert", s.row.event = "skipped"
        PROVE  s.row.phase \in DonePhases'
    <3>1. CASE s \in wire
        BY <2>1, <2>3, <3>1 DEF SkipInv
    <3>2. CASE s \notin wire
      <4>1. s = [op |-> "insert", row |-> RowOf(p)]
          BY <1>0, <1>3, <2>3, <3>2, StepIsLocal, LeftBehindIsOwn
      <4>2. event[p] = "skipped" /\ s.row.phase = phase[p]
          BY <2>3, <4>1 DEF RowOf
      <4> QED BY <2>1, <4>2 DEF SkipInv
    <3> QED BY <3>1, <3>2
  <2> QED BY <1>0, <2>1, <2>2, <2>3 DEF SkipInv
<1>4. ASSUME NEW s \in wire, Land(s) PROVE SkipInv'
  <2>1. UNCHANGED <<event, phase>> /\ wire' \subseteq wire
      BY <1>4 DEF Land
  <2>2. DonePhases \subseteq DonePhases' /\ SkippedWasCompleted'
    <3>1. CASE LandInsert(s)
      <4>1. s.row \in Rows /\ (s.row.event = "skipped" => s.row.phase \in DonePhases)
          BY <1>0, <3>1, Poster DEF SkipInv, LandInsert
      <4> QED BY <1>1, <3>1, <4>1 DEF LandInsert
    <3>2. CASE ~LandInsert(s)
        BY <1>2, <1>4, <3>2 DEF Land, LandAcquire, LandBeat, LandRelease
    <3> QED BY <3>1, <3>2
  <2> QED BY <1>0, <2>1, <2>2 DEF SkipInv
<1>5. CASE Tick \/ UNCHANGED vars
  <2>1. UNCHANGED <<journal, event, phase, wire>>
      BY <1>5 DEF Tick, vars
  <2> QED BY <1>0, <1>2, <2>1 DEF SkipInv
<1> QED BY <1>3, <1>4, <1>5 DEF Next, StepOf

\* A phase is skipped only after an attempt completed it, whoever loses a lease between
\* the look-up in the journal and the row about it.
THEOREM SkippedIsDone == Spec => []SkippedWasCompleted
<1>1. Init => SkipInv
  <2> SUFFICES ASSUME Init PROVE SkipInv
      OBVIOUS
  <2>1. TypeOK
      BY InitType
  <2>2. DOMAIN journal = {} /\ wire = {} /\ \A p \in Procs : event[p] = "started"
      BY DEF Init
  <2> QED BY <2>1, <2>2 DEF SkipInv, SkippedWasCompleted
<1>2. SkipInv /\ [Next]_vars => SkipInv'
    BY SkipStep
<1> QED BY <1>1, <1>2, PTL DEF Spec, SkipInv
-----------------------------------------------------------------------------
(* What an attempt writes is one legal run, in every execution             *)

\* A row at the end of the journal is its owner's last, and nobody else's affair.
LEMMA RowIsLast ==
    ASSUME TypeOK, NEW row \in Rows, Write(row)
    PROVE  /\ LastRow(row.owner)' = {row}
           /\ \A q \in Procs \ {row.owner} :
                 LastRow(q)' = LastRow(q) /\ OwnRows(q)' = OwnRows(q)
           /\ \A q \in Procs \ {row.owner} : StoryHolds(q) => StoryHolds(q)'
<1> DEFINE n == Len(journal) + 1
<1>1. /\ journal \in Seq(Rows) /\ Len(journal) \in Nat
      /\ journal' = Append(journal, row)
    BY DEF TypeOK, Write
<1>2. /\ DOMAIN journal = 1..Len(journal) /\ DOMAIN journal' = 1..n
      /\ \A i \in DOMAIN journal : journal'[i] = journal[i] /\ i \in DOMAIN journal'
      /\ journal'[n] = row
    BY <1>1
<1>3. \A i \in OwnRows(row.owner)' : i \in Nat /\ i <= n
    BY <1>1, <1>2 DEF OwnRows
<1>4. n \in OwnRows(row.owner)' /\ n \in Nat
    BY <1>1, <1>2 DEF OwnRows
<1>5. LastRow(row.owner)' = {row}
  <2>1. ASSUME NEW k \in OwnRows(row.owner)', \A j \in OwnRows(row.owner)' : j <= k PROVE k = n
      BY <1>3, <1>4, <2>1
  <2> QED BY <1>2, <1>3, <1>4, <2>1 DEF LastRow
<1>6. ASSUME NEW q \in Procs, q # row.owner
      PROVE  /\ OwnRows(q)' = OwnRows(q) /\ LastRow(q)' = LastRow(q)
             /\ StoryHolds(q) => StoryHolds(q)'
  <2>1. OwnRows(q)' = OwnRows(q)
      BY <1>1, <1>2, <1>6 DEF OwnRows
  <2>2. \A i \in OwnRows(q) : journal'[i] = journal[i]
      BY <1>2 DEF OwnRows
  <2>3. LastRow(q)' = LastRow(q)
      BY <2>1, <2>2 DEF LastRow
  <2> QED BY <2>1, <2>2, <2>3 DEF StoryHolds
<1> QED BY <1>5, <1>6

\* A row that goes on with its owner's story makes a longer story.
LEMMA StoryGrows ==
    ASSUME TypeOK, NEW row \in Rows, Write(row), StoryHolds(row.owner),
           GoesOn(LastRow(row.owner), row),
           LastRow(row.owner) = {} => OwnRows(row.owner) = {}
    PROVE  StoryHolds(row.owner)'
<1> DEFINE n == Len(journal) + 1
           p == row.owner
<1>1. /\ journal \in Seq(Rows) /\ Len(journal) \in Nat
      /\ journal' = Append(journal, row)
    BY DEF TypeOK, Write
<1>2. /\ DOMAIN journal = 1..Len(journal) /\ DOMAIN journal' = 1..n
      /\ \A i \in DOMAIN journal : journal'[i] = journal[i]
      /\ journal'[n] = row /\ n \notin DOMAIN journal
    BY <1>1
<1>3. OwnRows(p)' = OwnRows(p) \cup {n}
    BY <1>1, <1>2 DEF OwnRows
<1>4. /\ \A i \in OwnRows(p) : i \in Nat /\ i < n /\ journal'[i] = journal[i]
      /\ n \in Nat
    BY <1>1, <1>2 DEF OwnRows
<1>5. ASSUME NEW i \in OwnRows(p)', \A j \in OwnRows(p)' : i <= j
      PROVE  Begins(journal'[i])
  <2>1. CASE i \in OwnRows(p)
      BY <1>3, <1>4, <1>5, <2>1 DEF StoryHolds
  <2>2. CASE i = n
    <3>1. OwnRows(p) = {}
        BY <1>3, <1>4, <1>5, <2>2
    <3>2. LastRow(p) = {}
        BY <3>1 DEF LastRow
    <3> QED BY <1>2, <2>2, <3>2 DEF GoesOn
  <2> QED BY <1>3, <2>1, <2>2
<1>6. ASSUME NEW i \in OwnRows(p)', NEW j \in OwnRows(p)', i < j,
             \A k \in OwnRows(p)' : k <= i \/ j <= k
      PROVE  Follows(journal'[i], journal'[j])
  <2>1. i \in OwnRows(p)
      BY <1>3, <1>4, <1>6
  <2>2. CASE j \in OwnRows(p)
      BY <1>3, <1>4, <1>6, <2>1, <2>2 DEF StoryHolds
  <2>3. CASE j = n
    <3>1. \A k \in OwnRows(p) : k <= i
        BY <1>3, <1>4, <1>6, <2>1, <2>3
    <3>2. journal[i] \in LastRow(p)
        BY <2>1, <3>1 DEF LastRow
    <3>3. Follows(journal[i], row)
        BY <3>2 DEF GoesOn
    <3> QED BY <1>2, <1>4, <2>1, <2>3, <3>3
  <2> QED BY <1>3, <2>2, <2>3
<1>7. /\ \A i \in OwnRows(p)' : (\A j \in OwnRows(p)' : i <= j) => Begins(journal'[i])
      /\ \A i, j \in OwnRows(p)' :
            i < j /\ (\A k \in OwnRows(p)' : k <= i \/ j <= k) => Follows(journal'[i], journal'[j])
    BY <1>5, <1>6
<1> QED BY <1>7 DEF StoryHolds

\* An attempt that writes nothing stays where its last row allows.
LEMMA PlaceStep ==
    ASSUME TypeOK, NEW p \in Procs, StepOf(p), ~InsertRow(p), journal' = journal, PlaceFitsStory(p)
    PROVE  PlaceFitsStory(p)'
<1>1. /\ pc \in [Procs -> Places] /\ phase \in [Procs -> PhaseIds]
      /\ event \in [Procs -> Events] /\ token \in [Procs -> Nat]
    BY DEF TypeOK
<1>2. LastRow(p)' = LastRow(p)
    BY DEF LastRow, OwnRows
<1>3. CASE Abort(p, "failed") \/ Abort(p, "crashed")
  <2>1. pc'[p] \in Dead
      BY <1>1, <1>3 DEF Abort, Dead
  <2> QED BY <2>1 DEF PlaceFitsStory, Asking, Dead
<1>4. CASE Begin(p) \/ Grant(p) \/ Refuse(p) \/ Busy(p) \/ Retry(p)
  <2>1. /\ pc[p] \in {"idle"} \cup Asking /\ pc'[p] \in Asking \cup {"failed"}
        /\ UNCHANGED <<phase, event>>
      BY <1>1, <1>4 DEF Begin, Grant, Refuse, Busy, Retry, Asking
  <2> QED BY <1>2, <2>1 DEF PlaceFitsStory, Asking
<1>5. CASE StartGuard(p)
  <2>1. pc[p] = "granted" /\ pc'[p] = "assert" /\ UNCHANGED <<phase, event>>
      BY <1>1, <1>5 DEF StartGuard
  <2> QED BY <1>2, <2>1 DEF PlaceFitsStory, GoesOn, Begins, RowOf, Asking
<1>6. CASE LookupPhase(p)
  <2>1. /\ pc[p] = "lookup" /\ pc'[p] = "assert" /\ phase' = phase
        /\ event'[p] \in {"skipped", "started"}
      BY <1>1, <1>6 DEF LookupPhase
  <2>2. LastRow(p) # {} /\ \A r \in LastRow(p) : Follows(r, RowOf(p)')
      BY <2>1 DEF PlaceFitsStory, Asking, Follows, RowOf
  <2> QED BY <1>2, <2>1, <2>2 DEF PlaceFitsStory, GoesOn, Asking
<1>7. CASE AssertHeld(p)
  <2>1. pc[p] = "assert" /\ pc'[p] = "insert" /\ UNCHANGED <<phase, event, token>>
      BY <1>1, <1>7 DEF AssertHeld
  <2> QED BY <1>2, <2>1 DEF PlaceFitsStory, Asking, RowOf
<1>8. CASE Work(p)
  <2>1. /\ pc[p] = "working" /\ pc'[p] = "assert" /\ phase' = phase
        /\ event'[p] = "completed" \/ (event'[p] = "failed" /\ MayFail(phase[p]))
      BY <1>1, <1>8 DEF Work
  <2>2. LastRow(p) # {} /\ \A r \in LastRow(p) : Follows(r, RowOf(p)')
      BY <2>1 DEF PlaceFitsStory, Asking, Follows, RowOf
  <2> QED BY <1>2, <2>1, <2>2 DEF PlaceFitsStory, Asking, GoesOn
<1>9. CASE StopHeartbeat(p) \/ Release(p)
  <2>1. pc[p] \in {"stopping", "releasing"} /\ pc'[p] \in {"releasing", "serving"}
      BY <1>1, <1>9 DEF StopHeartbeat, Release
  <2> QED BY <1>2, <2>1 DEF PlaceFitsStory, Asking
<1>10. CASE Beat(p) \/ BeatFails(p)
  <2>1. UNCHANGED <<pc, phase, event, token>>
      BY <1>10 DEF Beat, BeatRenews, BeatMisses, BeatOk, BeatLost, BeatFails
  <2> QED BY <1>2, <2>1 DEF PlaceFitsStory, Asking, RowOf
<1> QED BY <1>3, <1>4, <1>5, <1>6, <1>7, <1>8, <1>9, <1>10
        DEF StepOf, Run, AssertLost, StatementFails, Crash

\* After its row an attempt is where the row allows.
LEMMA PlaceAfterInsert ==
    ASSUME TypeOK, NEW p \in Procs, InsertRow(p)
    PROVE  PlaceFitsStory(p)'
<1>1. /\ pc \in [Procs -> Places] /\ phase \in [Procs -> PhaseIds]
      /\ event \in [Procs -> Events]
    BY DEF TypeOK
<1>2. LastRow(p)' = {RowOf(p)}
  <2>1. RowOf(p) \in Rows /\ RowOf(p).owner = p
      BY LeftBehind DEF RowOf
  <2> QED BY <2>1, RowIsLast DEF InsertRow
<1>3. RowOf(p).phase = phase[p] /\ RowOf(p).event = event[p] /\ phase[p] \in PhaseIds
    BY <1>1 DEF RowOf
<1>4. CASE AfterStarted(p) /\ phase[p] = Acquired
  <2>1. event[p] = "started" /\ event'[p] = "completed" /\ pc'[p] = "assert" /\ phase' = phase
      BY <1>1, <1>4 DEF InsertRow, AfterStarted
  <2>2. Follows(RowOf(p), RowOf(p)')
      BY <1>3, <2>1 DEF Follows, RowOf
  <2> QED BY <1>2, <2>1, <2>2 DEF PlaceFitsStory, Asking, GoesOn
<1>5. CASE AfterStarted(p) /\ phase[p] # Acquired
  <2>1. event[p] = "started" /\ pc'[p] = "working" /\ phase' = phase
      BY <1>1, <1>5 DEF InsertRow, AfterStarted
  <2> QED BY <1>2, <1>3, <1>5, <2>1 DEF PlaceFitsStory, Asking
<1>6. CASE AfterDone(p) /\ phase[p] = LastPhase
  <2>1. event[p] \in {"completed", "skipped"} /\ pc'[p] = "stopping"
      BY <1>1, <1>6 DEF InsertRow, AfterDone
  <2> QED BY <1>2, <1>3, <1>6, <2>1 DEF PlaceFitsStory, Asking
<1>7. CASE AfterDone(p) /\ phase[p] # LastPhase
  <2>1. /\ event[p] \in {"completed", "skipped"} /\ pc'[p] \in {"lookup", "assert"}
        /\ phase'[p] = phase[p] + 1 /\ event'[p] = "started"
      BY <1>1, <1>7 DEF InsertRow, AfterDone
  <2>2. Follows(RowOf(p), RowOf(p)')
      BY <1>3, <2>1 DEF Follows, RowOf
  <2> QED BY <1>2, <1>3, <2>1, <2>2 DEF PlaceFitsStory, Asking, GoesOn
<1>8. CASE AfterFailed(p)
  <2>1. pc'[p] = "failed"
      BY <1>1, <1>8 DEF InsertRow, AfterFailed
  <2> QED BY <2>1 DEF PlaceFitsStory, Asking
<1> QED BY <1>4, <1>5, <1>6, <1>7, <1>8 DEF InsertRow

\* Whoever writes a row in its turn keeps every story.
LEMMA StoryOfWrite ==
    ASSUME StoryInv, NEW row \in Rows, Write(row), GoesOn(LastRow(row.owner), row), NEW q \in Procs
    PROVE  StoryHolds(q)' /\ (LastRow(q)' = {} => OwnRows(q)' = {})
<1>1. TypeOK /\ row.owner \in Procs
    BY DEF StoryInv, Rows
<1>2. CASE q = row.owner
  <2>1. StoryHolds(row.owner) /\ (LastRow(row.owner) = {} => OwnRows(row.owner) = {})
      BY <1>1 DEF StoryInv
  <2> QED BY <1>1, <1>2, <2>1, RowIsLast, StoryGrows
<1>3. CASE q # row.owner
    BY <1>1, <1>3, RowIsLast DEF StoryInv
<1> QED BY <1>2, <1>3

\* A step that writes nothing keeps every story.
LEMMA StoryKept ==
    ASSUME StoryInv, journal' = journal, NEW q \in Procs
    PROVE  /\ StoryHolds(q)' /\ (LastRow(q)' = {} => OwnRows(q)' = {})
           /\ LastRow(q)' = LastRow(q)
    BY DEF StoryInv, StoryHolds, LastRow, OwnRows

\* Where q is fits its story while neither changes.
LEMMA PlaceKept ==
    ASSUME NEW q \in Procs, PlaceFitsStory(q), LastRow(q)' = LastRow(q), pc'[q] = pc[q],
           phase'[q] = phase[q], event'[q] = event[q]
    PROVE  PlaceFitsStory(q)'
<1>1. ASSUME GoesOn(LastRow(q), RowOf(q)) PROVE GoesOn(LastRow(q), RowOf(q)')
    BY <1>1 DEF GoesOn, Begins, Follows, RowOf
<1> QED BY <1>1 DEF PlaceFitsStory

\* A step of p leaves the phases and events of others alone.
LEMMA PhaseIsLocal ==
    ASSUME TypeOK, NEW p \in Procs, StepOf(p), NEW q \in Procs, q # p
    PROVE  phase'[q] = phase[q] /\ event'[q] = event[q]
<1>1. phase \in [Procs -> PhaseIds] /\ event \in [Procs -> Events]
    BY DEF TypeOK
<1>2. CASE DropGuard(p)
    BY <1>1, <1>2 DEF DropGuard
<1>3. CASE LookupPhase(p) \/ Work(p)
    BY <1>1, <1>3 DEF LookupPhase, Work
<1>4. CASE InsertRow(p) /\ ~DropGuard(p)
    BY <1>1, <1>4 DEF InsertRow, AfterStarted, AfterDone, AfterFailed
<1>5. CASE UNCHANGED <<phase, event>>
    BY <1>5
<1>6. DropGuard(p) \/ LookupPhase(p) \/ Work(p) \/ InsertRow(p) \/ UNCHANGED <<phase, event>>
    BY DEF StepOf, Run, Beat, Begin, Grant, Refuse, StartGuard, Busy, Retry, AssertHeld, AssertLost, StopHeartbeat,
           Release, BeatRenews, BeatMisses, BeatOk, BeatLost, BeatFails, StatementFails, Crash, Abort
<1> QED BY <1>2, <1>3, <1>4, <1>5, <1>6

\* A step of an attempt keeps the invariant.
LEMMA StoryStepOf ==
    ASSUME StoryInv, TypeOK', OneInsert', NEW p \in Procs, StepOf(p)
    PROVE  StoryInv'
<1>0. TypeOK
    BY DEF StoryInv
<1>1. InsertRow(p) \/ journal' = journal
    BY DEF StepOf, Run, Beat, Begin, Grant, Refuse, StartGuard, Busy, Retry, LookupPhase, AssertHeld, AssertLost, Work,
           StopHeartbeat, Release, BeatRenews, BeatMisses, BeatOk, BeatLost, BeatFails, StatementFails, Crash
<1>2. RowOf(p) \in Rows /\ RowOf(p).owner = p
    BY <1>0, LeftBehind DEF RowOf
<1>3. pc[p] = "insert" => GoesOn(LastRow(p), RowOf(p))
    BY DEF StoryInv, PlaceFitsStory
<1>4. InsertRow(p) => Write(RowOf(p)) /\ pc[p] = "insert"
    BY DEF InsertRow
<1>5. ASSUME NEW q \in Procs PROVE StoryHolds(q)' /\ (LastRow(q)' = {} => OwnRows(q)' = {})
  <2>1. CASE InsertRow(p)
      BY <1>2, <1>3, <1>4, <2>1, StoryOfWrite
  <2>2. CASE journal' = journal
      BY <2>2, StoryKept
  <2> QED BY <1>1, <2>1, <2>2
<1>6. ASSUME NEW q \in Procs, q # p PROVE LastRow(q)' = LastRow(q)
  <2>1. CASE InsertRow(p)
      BY <1>0, <1>2, <1>4, <1>6, <2>1, RowIsLast
  <2>2. CASE journal' = journal
      BY <2>2, StoryKept
  <2> QED BY <1>1, <2>1, <2>2
<1>7. ASSUME NEW q \in Procs PROVE PlaceFitsStory(q)'
  <2>1. CASE q # p
    <3>1. pc'[q] = pc[q] /\ PlaceFitsStory(q)
        BY <1>0, <2>1, StepIsLocal DEF StoryInv
    <3> QED BY <1>0, <1>6, <2>1, <3>1, PhaseIsLocal, PlaceKept
  <2>2. CASE q = p /\ InsertRow(p)
      BY <1>0, <2>2, PlaceAfterInsert
  <2>3. CASE q = p /\ ~InsertRow(p)
      BY <1>0, <1>1, <2>3, PlaceStep DEF StoryInv
  <2> QED BY <2>1, <2>2, <2>3
<1>8. ASSUME NEW s \in wire', s.op = "insert" PROVE GoesOn(LastRow(s.row.owner)', s.row)
  <2>1. CASE s \in wire
    <3>1. GoesOn(LastRow(s.row.owner), s.row) /\ s.row.owner \in Procs /\ pc[s.row.owner] \in Dead
        BY <1>0, <1>8, <2>1, Poster DEF StoryInv, OneInsert
    <3>2. CASE s.row.owner # p
        BY <1>6, <3>1, <3>2
    <3>3. CASE s.row.owner = p
      <4>1. journal' = journal
          BY <1>1, <1>4, <3>1, <3>3, PlacesApart
      <4> QED BY <3>1, <4>1, StoryKept
    <3> QED BY <3>2, <3>3
  <2>2. CASE s \notin wire
    <3>1. /\ s = [op |-> "insert", row |-> RowOf(p)] /\ s \in InFlight(p)
          /\ pc[p] = "insert" /\ pc'[p] \in Dead
        BY <1>0, <1>8, <2>2, StepIsLocal, LeftBehindIsOwn
    <3>2. ~InsertRow(p)
      <4>1. ASSUME InsertRow(p) PROVE s \in BeatOf(p)
          BY <1>0, <2>2, <4>1, AfterInsert
      <4> QED BY <1>8, <4>1, LeftBehindIsOwn
    <3>3. LastRow(p)' = LastRow(p)
        BY <1>1, <3>2, StoryKept
    <3> QED BY <1>2, <1>3, <3>1, <3>3
  <2> QED BY <2>1, <2>2
<1> QED BY <1>5, <1>7, <1>8 DEF StoryInv

\* Every step keeps the invariant.
LEMMA StoryStep ==
    ASSUME StoryInv, [Next]_vars
    PROVE  StoryInv'
<1>0. TypeOK /\ TypeOK' /\ OneInsert /\ OneInsert'
    BY NextType, OneInsertStep DEF StoryInv
<1>1. ASSUME NEW p \in Procs, StepOf(p) PROVE StoryInv'
    BY <1>0, <1>1, StoryStepOf
<1>2. ASSUME NEW s \in wire, LandInsert(s), Land(s) PROVE StoryInv'
  <2>1. /\ UNCHANGED <<pc, phase, event>> /\ wire' = wire \ {s}
        /\ s.op = "insert" /\ Write(s.row)
      BY <1>2 DEF Land, LandInsert
  <2>2. s.row \in Rows /\ s.row.owner \in Procs /\ GoesOn(LastRow(s.row.owner), s.row)
        /\ pc[s.row.owner] \in Dead
      BY <1>0, <2>1, Poster DEF StoryInv, OneInsert
  <2>3. ASSUME NEW q \in Procs PROVE StoryHolds(q)' /\ (LastRow(q)' = {} => OwnRows(q)' = {})
      BY <2>1, <2>2, StoryOfWrite
  <2>4. ASSUME NEW q \in Procs PROVE PlaceFitsStory(q)'
    <3>1. CASE q # s.row.owner
        BY <1>0, <2>1, <2>2, <3>1, RowIsLast, PlaceKept DEF StoryInv
    <3>2. CASE q = s.row.owner
        BY <2>1, <2>2, <3>2 DEF PlaceFitsStory, Asking, Dead
    <3> QED BY <3>1, <3>2
  <2>5. ASSUME NEW t \in wire', t.op = "insert" PROVE GoesOn(LastRow(t.row.owner)', t.row)
    <3>1. t \in wire /\ t # s /\ t.row.owner \in Procs
        BY <1>0, <2>1, <2>5, Poster
    <3>2. t.row.owner # s.row.owner
        BY <1>0, <2>1, <2>5, <3>1 DEF OneInsert, InsertsOf
    <3>3. LastRow(t.row.owner)' = LastRow(t.row.owner)
        BY <1>0, <2>1, <2>2, <3>1, <3>2, RowIsLast
    <3> QED BY <2>5, <3>1, <3>3 DEF StoryInv
  <2> QED BY <1>0, <2>3, <2>4, <2>5 DEF StoryInv
<1>3. ASSUME UNCHANGED <<journal, pc, phase, event>>, wire' \subseteq wire PROVE StoryInv'
  <2>1. ASSUME NEW q \in Procs PROVE PlaceFitsStory(q)'
      BY <1>3, StoryKept, PlaceKept DEF StoryInv
  <2>2. ASSUME NEW t \in wire', t.op = "insert" PROVE GoesOn(LastRow(t.row.owner)', t.row)
      BY <1>0, <1>3, <2>2, Poster, StoryKept DEF StoryInv
  <2> QED BY <1>0, <1>3, <2>1, <2>2, StoryKept DEF StoryInv
<1>4. ASSUME NEW s \in wire, Land(s), ~LandInsert(s) PROVE StoryInv'
    BY <1>3, <1>4 DEF Land, LandAcquire, LandBeat, LandRelease
<1>5. CASE Tick \/ UNCHANGED vars
    BY <1>3, <1>5 DEF Tick, vars
<1> QED BY <1>1, <1>2, <1>4, <1>5 DEF Next, StepOf

\* What an attempt leaves in the journal is the beginning of one legal run, whatever fails,
\* crashes or lands late, and it serves only after a run through every phase.
THEOREM StoryIsLegal == Spec => []RunTellsItsStory
<1>1. Init => StoryInv
  <2> SUFFICES ASSUME Init PROVE StoryInv
      OBVIOUS
  <2>1. TypeOK /\ OneInsert
      BY InitType DEF Init, OneInsert
  <2>2. wire = {} /\ \A p \in Procs : OwnRows(p) = {} /\ LastRow(p) = {}
      BY DEF Init, OwnRows, LastRow
  <2>3. \A p \in Procs : pc[p] = "idle" /\ phase[p] = Acquired /\ event[p] = "started"
      BY DEF Init
  <2> QED BY <2>1, <2>2, <2>3 DEF StoryInv, StoryHolds, PlaceFitsStory
<1>2. StoryInv /\ [Next]_vars => StoryInv'
    BY StoryStep
<1>3. StoryInv => RunTellsItsStory
    BY DEF StoryInv, RunTellsItsStory, PlaceFitsStory
<1> QED BY <1>1, <1>2, <1>3, PTL DEF Spec
=============================================================================

---------------------------- MODULE StartupLease ----------------------------
(***************************************************************************)
(* Startup coordination (src/startup_coordination.rs, driven by the        *)
(* coordinated path of src/main.rs): server processes that share one       *)
(* database run their startup phases under a lease row with a fence token, *)
(* a heartbeat task and a journal of phase events.                         *)
(*                                                                         *)
(* A member of Procs is one startup attempt: acquire draws a fresh         *)
(* owner_id, so a process that crashes and restarts is another member.     *)
(* Every SQL statement runs on a connection of its own, so the lease check *)
(* of record_phase_event and its INSERT are two steps, and a statement     *)
(* whose client gave up (error, timeout, crash) may still be executed by   *)
(* the database later: it is then on the wire.                             *)
(*                                                                         *)
(* Time is counted down: lease.left is lease_expires_at - now(), and a     *)
(* Tick takes one unit off every running timer.                            *)
(***************************************************************************)
EXTENDS Naturals, Sequences, FiniteSets

CONSTANTS
    Procs,            \* startup attempts, each with its own owner_id
    None,             \* owner of the lease when the table has no row
    Ttl,              \* lease_ttl
    Heartbeat,        \* heartbeat_interval
    AcquireTimeout,   \* acquire_timeout
    Delay,            \* what a timely statement about the lease takes at most, to be
                      \* executed and again to be answered
    ProbeMode,        \* startup_db_connect as run under coordination
    SkipChoices       \* what callers pass to run_phase as skip_if_completed

\* What from_parsed_options accepts, in the model's unit of time.
ASSUME ConfigAccepted ==
    /\ Ttl \in Nat /\ Heartbeat \in Nat /\ AcquireTimeout \in Nat
    /\ Heartbeat >= 1 /\ Heartbeat < Ttl /\ AcquireTimeout >= 1
    /\ ProbeMode \in {"Warn", "FailFast"}

\* A lease outlives a heartbeat interval and two delays.
ASSUME DelayIsShort == Delay \in Nat /\ Heartbeat + 2 * Delay < Ttl

ASSUME ChoicesKnown == SkipChoices \subseteq BOOLEAN /\ SkipChoices # {}

ASSUME NoneIsNoProc == None \notin Procs

VARIABLES
    lease,      \* the row of mcp_startup_leases: owner, fence token, time left
    journal,    \* the rows of mcp_startup_phase_events, by id
    wire,       \* write statements the database may still execute
    pc,         \* where each attempt is
    phase,      \* the phase it is in (an index of Phases)
    event,      \* the phase event it records next
    token,      \* its guard's fence_token, or the one in the answer on its way; else 0
    fenceLost,  \* its guard's fence_lost
    beat,       \* its heartbeat task: off, asleep, or waiting for the answer of a
                \* heartbeat that renewed the lease or missed its row
    timer,      \* time until the step its lease hangs on is late, see Overdue
    patience,   \* time until the acquire deadline
    staleRows   \* ghost: rows it wrote while another owner (or nobody) held the lease

vars == <<lease, journal, wire, pc, phase, event, token, fenceLost, beat,
          timer, patience, staleRows>>

-----------------------------------------------------------------------------

Phases == <<"startup_lease_acquired", "startup_db_connect_probe",
            "startup_dependency_validation">>
Acquired == 1
LastPhase == 3
PhaseIds == Acquired..LastPhase

Events == {"started", "completed", "failed", "skipped"}

Dead == {"failed", "crashed"}
InPhases == {"lookup", "assert", "insert", "working"}
\* Before the guard: granted and refused wait for the answer of the acquire statement.
Asking == {"acquiring", "granted", "refused", "backoff"}
Active == Asking \cup InPhases \cup {"stopping", "releasing"}
Places == {"idle", "serving"} \cup Active \cup Dead
Beats == {"off", "asleep", "renewed", "missed"}

Rows == [owner: Procs, fence: Nat, phase: PhaseIds, event: Events]

\* The write statements, each with what its WHERE clause or VALUES list carries.
Statements ==
    [op: {"acquire"}, owner: Procs]
    \cup [op: {"beat", "release"}, owner: Procs, fence: Nat]
    \cup [op: {"insert"}, row: Rows]

NoRow == [owner |-> None, fence |-> 0, left |-> 0]

TypeOK ==
    /\ lease \in [owner: Procs \cup {None}, fence: Nat, left: 0..Ttl]
    /\ journal \in Seq(Rows)
    /\ wire \subseteq Statements
    /\ pc \in [Procs -> Places]
    /\ phase \in [Procs -> PhaseIds]
    /\ event \in [Procs -> Events]
    /\ token \in [Procs -> Nat]
    /\ fenceLost \in [Procs -> BOOLEAN]
    /\ beat \in [Procs -> Beats]
    /\ timer \in [Procs -> 0..(Heartbeat + Delay)]
    /\ patience \in [Procs -> 0..AcquireTimeout]
    /\ staleRows \in [Procs -> Nat]

Init ==
    /\ lease = NoRow
    /\ journal = <<>>
    /\ wire = {}
    /\ pc = [p \in Procs |-> "idle"]
    /\ phase = [p \in Procs |-> Acquired]
    /\ event = [p \in Procs |-> "started"]
    /\ token = [p \in Procs |-> 0]
    /\ fenceLost = [p \in Procs |-> FALSE]
    /\ beat = [p \in Procs |-> "off"]
    /\ timer = [p \in Procs |-> 0]
    /\ patience = [p \in Procs |-> AcquireTimeout]
    /\ staleRows = [p \in Procs |-> 0]

-----------------------------------------------------------------------------
(* The SQL statements: their WHERE clauses and their effects.              *)

\* The row an owner's statements match: lease_key AND owner_id AND fence_token.
Matches(p, f) == lease.owner = p /\ lease.fence = f

\* Mutant: the lease may be taken when a heartbeat is due, before it has expired.
TakeableEarly(p) == lease.left <= Ttl - Heartbeat \/ lease.owner = p

\* INSERT ... ON CONFLICT DO UPDATE ... WHERE expired OR owner_id = EXCLUDED.owner_id.
\* An absent row is NoRow, so an insert and an update are one assignment.
Takeable(p) == lease.left = 0 \/ lease.owner = p
Taken(p) == [owner |-> p, fence |-> lease.fence + 1, left |-> Ttl]

\* Mutant: the expiry is moved on from where it was, not from now().
RenewedFromExpiry == [lease EXCEPT !.left = @ + Ttl]

Renewed == [lease EXCEPT !.left = Ttl]

\* Mutant: the flag alone is asked, not the table.
FlagHolds(p) == ~fenceLost[p]

\* SELECT 1 ... AND lease_expires_at > now(), behind the fence_lost flag.
FenceHolds(p) == ~fenceLost[p] /\ Matches(p, token[p]) /\ lease.left > 0

RowOf(p) == [owner |-> p, fence |-> token[p], phase |-> phase[p], event |-> event[p]]

\* The INSERT of a journal row; it names no lease, so it always succeeds.
Write(row) ==
    /\ journal' = Append(journal, row)
    /\ staleRows' = IF Matches(row.owner, row.fence) THEN staleRows
                    ELSE [staleRows EXCEPT ![row.owner] = @ + 1]

\* Mutant: the look-up forgets the phase in its WHERE clause.
AnyCompleted(ph) == journal # <<>> /\ journal[Len(journal)].event = "completed"

\* latest_phase_event(phase) = "completed".
CompletedBefore(ph) ==
    \E i \in DOMAIN journal :
        /\ journal[i].phase = ph /\ journal[i].event = "completed"
        /\ \A j \in DOMAIN journal : j > i => journal[j].phase # ph

\* The write statement p waits for, if it waits for one.
InFlight(p) ==
    CASE pc[p] = "acquiring" -> {[op |-> "acquire", owner |-> p]}
      [] pc[p] = "insert" -> {[op |-> "insert", row |-> RowOf(p)]}
      [] pc[p] = "releasing" -> {[op |-> "release", owner |-> p, fence |-> token[p]]}
      [] OTHER -> {}

\* A sleeping heartbeat task has Heartbeat + Delay on its timer: once no more than Delay
\* is left its sleep has ended, and the database may execute its statement.
BeatDue(p) == beat[p] = "asleep" /\ timer[p] <= Delay

\* The answer of a lease statement, or the next heartbeat, is late.
Overdue(p) == (pc[p] = "granted" \/ beat[p] # "off") /\ timer[p] = 0

BeatOf(p) == IF BeatDue(p) THEN {[op |-> "beat", owner |-> p, fence |-> token[p]]} ELSE {}

-----------------------------------------------------------------------------
(* acquire                                                                 *)

\* acquire: ensure_tables (idempotent), fresh ids, deadline.
Begin(p) ==
    /\ pc[p] = "idle"
    /\ pc' = [pc EXCEPT ![p] = "acquiring"]
    /\ UNCHANGED <<lease, journal, wire, phase, event, token, fenceLost, beat,
                   timer, patience, staleRows>>

\* The database executes the statement of try_acquire_lease ...
Grant(p) ==
    /\ pc[p] = "acquiring"
    /\ Takeable(p)
    /\ lease' = Taken(p)
    /\ token' = [token EXCEPT ![p] = lease.fence + 1]
    /\ timer' = [timer EXCEPT ![p] = Delay]
    /\ patience' = [patience EXCEPT ![p] = AcquireTimeout]
    /\ pc' = [pc EXCEPT ![p] = "granted"]
    /\ UNCHANGED <<journal, wire, phase, event, fenceLost, beat, staleRows>>

Refuse(p) ==
    /\ pc[p] = "acquiring"
    /\ ~Takeable(p)
    /\ pc' = [pc EXCEPT ![p] = "refused"]
    /\ UNCHANGED <<lease, journal, wire, phase, event, token, fenceLost, beat, timer,
                   patience, staleRows>>

\* ... and its answer arrives, any time later. A fence: the guard and the heartbeat task
\* start, the task with a whole sleep, whatever is left of the lease by now.
StartGuard(p) ==
    /\ pc[p] = "granted"
    /\ beat' = [beat EXCEPT ![p] = "asleep"]
    /\ timer' = [timer EXCEPT ![p] = Heartbeat + Delay]
    /\ pc' = [pc EXCEPT ![p] = "assert"]
    /\ UNCHANGED <<lease, journal, wire, phase, event, token, fenceLost, patience,
                   staleRows>>

\* No row came back: "lease busy" past the deadline, else sleep and retry.
Busy(p) ==
    /\ pc[p] = "refused"
    /\ \/ /\ patience[p] = 0
          /\ pc' = [pc EXCEPT ![p] = "failed"]
          /\ patience' = [patience EXCEPT ![p] = AcquireTimeout]
       \/ /\ patience[p] > 0
          /\ pc' = [pc EXCEPT ![p] = "backoff"]
          /\ UNCHANGED patience
    /\ UNCHANGED <<lease, journal, wire, phase, event, token, fenceLost, beat,
                   timer, staleRows>>

Retry(p) ==
    /\ pc[p] = "backoff"
    /\ pc' = [pc EXCEPT ![p] = "acquiring"]
    /\ UNCHANGED <<lease, journal, wire, phase, event, token, fenceLost, beat,
                   timer, patience, staleRows>>

-----------------------------------------------------------------------------
(* The guard: phases and their journal                                     *)

\* Mutant: no Drop, the detached heartbeat task lives on.
KeepsBeating(p) ==
    /\ phase' = [phase EXCEPT ![p] = Acquired]
    /\ event' = [event EXCEPT ![p] = "started"]
    /\ patience' = [patience EXCEPT ![p] = AcquireTimeout]
    /\ UNCHANGED <<token, fenceLost, beat, timer>>

\* The guard is gone, and with it what it knew.
DropGuard(p) ==
    /\ phase' = [phase EXCEPT ![p] = Acquired]
    /\ event' = [event EXCEPT ![p] = "started"]
    /\ token' = [token EXCEPT ![p] = 0]
    /\ fenceLost' = [fenceLost EXCEPT ![p] = FALSE]
    /\ beat' = [beat EXCEPT ![p] = "off"]
    /\ timer' = [timer EXCEPT ![p] = 0]
    /\ patience' = [patience EXCEPT ![p] = AcquireTimeout]

\* An error leaves main through `?`: the guard's Drop stops the heartbeat task,
\* and a statement the attempt or the task was waiting for may stay on the wire.
Abort(p, place) ==
    /\ pc' = [pc EXCEPT ![p] = place]
    /\ \E late \in SUBSET (InFlight(p) \cup BeatOf(p)) : wire' = wire \cup late
    /\ DropGuard(p)

\* run_phase(phase, skip_if_completed) begins.
LookupPhase(p) ==
    /\ pc[p] = "lookup"
    /\ event' = [event EXCEPT ![p] = IF CompletedBefore(phase[p]) THEN "skipped" ELSE "started"]
    /\ pc' = [pc EXCEPT ![p] = "assert"]
    /\ UNCHANGED <<lease, journal, wire, phase, token, fenceLost, beat, timer,
                   patience, staleRows>>

\* assert_fence passes; the INSERT is a later statement.
AssertHeld(p) ==
    /\ pc[p] = "assert"
    /\ FenceHolds(p)
    /\ pc' = [pc EXCEPT ![p] = "insert"]
    /\ UNCHANGED <<lease, journal, wire, phase, event, token, fenceLost, beat,
                   timer, patience, staleRows>>

\* Mutant: a lost lease is asked for again and again.
AsksAgain(p) ==
    /\ pc[p] = "assert"
    /\ ~FenceHolds(p)
    /\ fenceLost' = [fenceLost EXCEPT ![p] = TRUE]
    /\ UNCHANGED <<lease, journal, wire, pc, phase, event, token, beat, timer,
                   patience, staleRows>>

AssertLost(p) ==
    /\ pc[p] = "assert"
    /\ ~FenceHolds(p)
    /\ Abort(p, "failed")
    /\ UNCHANGED <<lease, journal, staleRows>>

\* Where the run goes once its row is in the journal.
AfterStarted(p) ==
    /\ event[p] = "started"
    /\ IF phase[p] = Acquired
       THEN /\ event' = [event EXCEPT ![p] = "completed"]
            /\ pc' = [pc EXCEPT ![p] = "assert"]
       ELSE /\ pc' = [pc EXCEPT ![p] = "working"]
            /\ UNCHANGED event
    /\ UNCHANGED <<wire, phase, token, fenceLost, beat, timer, patience>>

AfterDone(p) ==
    /\ event[p] \in {"completed", "skipped"}
    /\ IF phase[p] = LastPhase
       THEN /\ pc' = [pc EXCEPT ![p] = "stopping"]
            /\ UNCHANGED <<phase, event>>
       ELSE /\ phase' = [phase EXCEPT ![p] = @ + 1]
            /\ event' = [event EXCEPT ![p] = "started"]
            /\ \E skip \in SkipChoices :
                  pc' = [pc EXCEPT ![p] = IF skip THEN "lookup" ELSE "assert"]
    /\ UNCHANGED <<wire, token, fenceLost, beat, timer, patience>>

AfterFailed(p) ==
    /\ event[p] = "failed"
    /\ pc' = [pc EXCEPT ![p] = "failed"]
    /\ \E late \in SUBSET BeatOf(p) : wire' = wire \cup late
    /\ DropGuard(p)

\* record_phase_event's INSERT.
InsertRow(p) ==
    /\ pc[p] = "insert"
    /\ Write(RowOf(p))
    /\ AfterStarted(p) \/ AfterDone(p) \/ AfterFailed(p)
    /\ UNCHANGED lease

\* The probe in warn mode swallows its error; validation fails in every mode
\* (a missing relation or a query error).
MayFail(ph) == ph = LastPhase \/ ProbeMode = "FailFast"

Work(p) ==
    /\ pc[p] = "working"
    /\ \E outcome \in {"completed"} \cup (IF MayFail(phase[p]) THEN {"failed"} ELSE {}) :
          event' = [event EXCEPT ![p] = outcome]
    /\ pc' = [pc EXCEPT ![p] = "assert"]
    /\ UNCHANGED <<lease, journal, wire, phase, token, fenceLost, beat, timer,
                   patience, staleRows>>

-----------------------------------------------------------------------------
(* release                                                                 *)

\* stop_heartbeat signals the task and joins it, which takes as long as the answer of a
\* heartbeat that is out; then release sends its DELETE.
StopHeartbeat(p) ==
    /\ pc[p] = "stopping"
    /\ beat[p] \in {"off", "asleep"}
    /\ beat' = [beat EXCEPT ![p] = "off"]
    /\ timer' = [timer EXCEPT ![p] = 0]
    /\ pc' = [pc EXCEPT ![p] = "releasing"]
    /\ UNCHANGED <<lease, journal, wire, phase, event, token, fenceLost, patience,
                   staleRows>>

\* Mutant: the DELETE names the fence token alone.
DeletedByFence(p, f) == IF lease.fence = f THEN NoRow ELSE lease

\* DELETE ... WHERE lease_key AND owner_id AND fence_token.
Deleted(p, f) == IF Matches(p, f) THEN NoRow ELSE lease

Release(p) ==
    /\ pc[p] = "releasing"
    /\ lease' = Deleted(p, token[p])
    /\ pc' = [pc EXCEPT ![p] = "serving"]
    /\ DropGuard(p)
    /\ UNCHANGED <<journal, wire, staleRows>>

-----------------------------------------------------------------------------
(* The heartbeat task                                                      *)

\* The database executes the UPDATE of heartbeat_once, which does not ask whether the row
\* has expired ...
BeatRenews(p) ==
    /\ BeatDue(p)
    /\ Matches(p, token[p])
    /\ lease' = Renewed
    /\ beat' = [beat EXCEPT ![p] = "renewed"]
    /\ timer' = [timer EXCEPT ![p] = Delay]
    /\ UNCHANGED <<journal, wire, pc, phase, event, token, fenceLost, patience, staleRows>>

BeatMisses(p) ==
    /\ BeatDue(p)
    /\ ~Matches(p, token[p])
    /\ beat' = [beat EXCEPT ![p] = "missed"]
    /\ timer' = [timer EXCEPT ![p] = Delay]
    /\ UNCHANGED <<lease, journal, wire, pc, phase, event, token, fenceLost, patience,
                   staleRows>>

\* After a heartbeat the task takes the stop signal if it finds one, else it sleeps again.
Sleeps(p) ==
    LET stop == pc[p] = "stopping"
    IN /\ beat' = [beat EXCEPT ![p] = IF stop THEN "off" ELSE "asleep"]
       /\ timer' = [timer EXCEPT ![p] = IF stop THEN 0 ELSE Heartbeat + Delay]

\* ... and its answer arrives: the next sleep, a whole one, begins only now.
BeatOk(p) ==
    /\ beat[p] = "renewed"
    /\ Sleeps(p)
    /\ UNCHANGED <<lease, journal, wire, pc, phase, event, token, fenceLost, patience,
                   staleRows>>

BeatLost(p) ==
    /\ beat[p] = "missed"
    /\ fenceLost' = [fenceLost EXCEPT ![p] = TRUE]
    /\ beat' = [beat EXCEPT ![p] = "off"]
    /\ timer' = [timer EXCEPT ![p] = 0]
    /\ UNCHANGED <<lease, journal, wire, pc, phase, event, token, patience, staleRows>>

\* The statement failed for its client ("will retry"), executed, still to be executed or
\* never.
BeatFails(p) ==
    /\ BeatDue(p) \/ beat[p] \in {"renewed", "missed"}
    /\ \E late \in SUBSET BeatOf(p) : wire' = wire \cup late
    /\ Sleeps(p)
    /\ UNCHANGED <<lease, journal, pc, phase, event, token, fenceLost, patience, staleRows>>

-----------------------------------------------------------------------------
(* Failures and time                                                       *)

\* Mutant: an INSERT that errs is sent again.
InsertsAgain(p) ==
    /\ pc[p] = "insert"
    /\ wire' = wire \cup InFlight(p)
    /\ pc' = [pc EXCEPT ![p] = "assert"]
    /\ UNCHANGED <<lease, journal, phase, event, token, fenceLost, beat, timer,
                   patience, staleRows>>

\* A statement errs for its client: every caller propagates with `?`.
StatementFails(p) ==
    /\ pc[p] \in {"idle", "acquiring", "granted", "refused", "lookup", "assert", "insert",
                "releasing"}
    /\ Abort(p, "failed")
    /\ UNCHANGED <<lease, journal, staleRows>>

Crash(p) ==
    /\ pc[p] \in Active
    /\ Abort(p, "crashed")
    /\ UNCHANGED <<lease, journal, staleRows>>

\* The database executes a statement nobody waits for any more.
LandAcquire(s) ==
    /\ s.op = "acquire"
    /\ lease' = IF Takeable(s.owner) THEN Taken(s.owner) ELSE lease
    /\ UNCHANGED <<journal, staleRows>>

LandBeat(s) ==
    /\ s.op = "beat"
    /\ lease' = IF Matches(s.owner, s.fence) THEN Renewed ELSE lease
    /\ UNCHANGED <<journal, staleRows>>

LandRelease(s) ==
    /\ s.op = "release"
    /\ lease' = Deleted(s.owner, s.fence)
    /\ UNCHANGED <<journal, staleRows>>

LandInsert(s) ==
    /\ s.op = "insert"
    /\ Write(s.row)
    /\ UNCHANGED lease

Land(s) ==
    /\ s \in wire
    /\ wire' = wire \ {s}
    /\ LandAcquire(s) \/ LandBeat(s) \/ LandRelease(s) \/ LandInsert(s)
    /\ UNCHANGED <<pc, phase, event, token, fenceLost, beat, timer, patience>>

Less(n) == IF n = 0 THEN 0 ELSE n - 1

\* One unit of time: the lease, the timers and the acquire deadlines.
Tick ==
    /\ lease' = [lease EXCEPT !.left = Less(@)]
    /\ timer' = [p \in Procs |-> Less(timer[p])]
    /\ patience' = [p \in Procs |-> IF pc[p] \in {"acquiring", "refused", "backoff"}
                                    THEN Less(patience[p]) ELSE patience[p]]
    /\ UNCHANGED <<journal, wire, pc, phase, event, token, fenceLost, beat, staleRows>>

-----------------------------------------------------------------------------

Run(p) ==
    \/ Begin(p) \/ Grant(p) \/ Refuse(p) \/ StartGuard(p) \/ Busy(p) \/ Retry(p)
    \/ LookupPhase(p) \/ AssertHeld(p) \/ AssertLost(p) \/ InsertRow(p) \/ Work(p)
    \/ StopHeartbeat(p) \/ Release(p)

Beat(p) == BeatRenews(p) \/ BeatMisses(p) \/ BeatOk(p) \/ BeatLost(p)

Next ==
    \/ \E p \in Procs :
          Run(p) \/ Beat(p) \/ BeatFails(p) \/ StatementFails(p) \/ Crash(p)
    \/ \E s \in wire : Land(s)
    \/ Tick

Spec == Init /\ [][Next]_vars

\* The tokio scheduler and the database keep serving a live process, and time
\* passes; nothing forces an abandoned statement to be executed.
Fairness ==
    /\ \A p \in Procs : WF_vars(Run(p)) /\ WF_vars(Beat(p))
    /\ WF_vars(Tick)

FairSpec == Spec /\ Fairness

(***************************************************************************)
(* The timely executions: the answer of a grant and that of a heartbeat    *)
(* take at most Delay, a heartbeat is executed at most Delay after the     *)
(* sleep before it has ended, and one that fails leaves a lease that       *)
(* outlives the next. All else, the other statements, crashes and failures *)
(* included, is as in Spec.                                                *)
(***************************************************************************)
TimelyNext ==
    \/ \E p \in Procs :
          \/ Run(p) \/ Beat(p) \/ StatementFails(p) \/ Crash(p)
          \/ lease.left > Heartbeat + Delay /\ BeatFails(p)
    \/ \E s \in wire : Land(s)
    \/ (\A p \in Procs : ~Overdue(p)) /\ Tick

TimelySpec == Init /\ [][TimelyNext]_vars

-----------------------------------------------------------------------------
(* Inductive invariants, see StartupLease_proofs                           *)

\* Only a dead attempt has left an acquire or a DELETE on the wire.
WireOfTheDead ==
    \A s \in wire : s.op \in {"acquire", "release"} => pc[s.owner] \in Dead

\* What a timely attempt may let pass before its next heartbeat is executed.
TimeToBeat(p) == timer[p] + (IF beat[p] = "asleep" THEN 0 ELSE Heartbeat + Delay)

\* In a timely execution an attempt that was granted the lease owns it through all its
\* phases, and what is left of it is longer than the time to the next heartbeat.
HolderOutlivesSleep ==
    \A p \in Procs :
        /\ pc[p] \in InPhases \cup {"granted"} =>
              Matches(p, token[p]) /\ TimeToBeat(p) < lease.left
        /\ pc[p] \in InPhases => beat[p] \in {"asleep", "renewed"}
        /\ pc[p] \in {"idle"} \cup Asking => beat[p] = "off"

TimelyInv == TypeOK /\ WireOfTheDead /\ HolderOutlivesSleep

\* The rows p may still write without another look at the lease.
InsertsOf(p) == {s \in wire : s.op = "insert" /\ s.row.owner = p}

\* The row of an attempt is sent once, and only a dead one leaves it on the wire.
OneInsert ==
    \A s \in wire : s.op = "insert" =>
        /\ pc[s.row.owner] \in Dead
        /\ \A t \in InsertsOf(s.row.owner) : t = s

\* Who has written a stale row has lost the lease for good and has no row pending.
StaleIsLast ==
    \A p \in Procs : staleRows[p] # 0 =>
        /\ staleRows[p] = 1
        /\ pc[p] \notin {"idle", "insert"} \cup Asking
        /\ pc[p] \in InPhases => ~Matches(p, token[p])
        /\ InsertsOf(p) = {}

FenceInv == TypeOK /\ WireOfTheDead /\ OneInsert /\ StaleIsLast

\* Where p's rows are in the journal, and the last of them, if there is one.
OwnRows(p) == {i \in DOMAIN journal : journal[i].owner = p}
LastRow(p) == {journal[i] : i \in {k \in OwnRows(p) : \A j \in OwnRows(p) : j <= k}}

\* In the story of one run: it begins with the acquired lease; a phase that started is
\* completed or fails, after a phase that is done the next one starts or is skipped, after
\* a failure nothing comes.
Begins(row) == row.phase = Acquired /\ row.event = "started"
Follows(row, next) ==
    \/ /\ row.event = "started" /\ next.phase = row.phase
       /\ \/ next.event = "completed"
          \/ next.event = "failed" /\ row.phase # Acquired /\ MayFail(row.phase)
    \/ /\ row.event \in {"completed", "skipped"} /\ next.phase = row.phase + 1
       /\ next.event \in {"started", "skipped"}

StoryHolds(p) ==
    /\ \A i \in OwnRows(p) : (\A j \in OwnRows(p) : i <= j) => Begins(journal[i])
    /\ \A i, j \in OwnRows(p) :
          i < j /\ (\A k \in OwnRows(p) : k <= i \/ j <= k) => Follows(journal[i], journal[j])

\* The row goes on with the story that has come to the row of last, if any.
GoesOn(last, row) == IF last = {} THEN Begins(row) ELSE \A r \in last : Follows(r, row)

\* Where an attempt is agrees with the last row it wrote.
PlaceFitsStory(p) ==
    /\ pc[p] \in {"idle"} \cup Asking =>
          LastRow(p) = {} /\ phase[p] = Acquired /\ event[p] = "started"
    /\ pc[p] \in {"assert", "insert"} => GoesOn(LastRow(p), RowOf(p))
    /\ pc[p] \in {"lookup", "working", "stopping", "releasing", "serving"} => LastRow(p) # {}
    /\ \A r \in LastRow(p) :
          /\ pc[p] = "lookup" => r.event \in {"completed", "skipped"} /\ phase[p] = r.phase + 1
          /\ pc[p] = "working" => r.event = "started" /\ r.phase = phase[p] /\ r.phase # Acquired
          /\ pc[p] \in {"stopping", "releasing", "serving"} =>
                r.event \in {"completed", "skipped"} /\ r.phase = LastPhase

StoryInv ==
    /\ TypeOK /\ OneInsert
    /\ \A p \in Procs :
          /\ StoryHolds(p) /\ PlaceFitsStory(p)
          /\ LastRow(p) = {} => OwnRows(p) = {}
    /\ \A s \in wire : s.op = "insert" => GoesOn(LastRow(s.row.owner), s.row)

-----------------------------------------------------------------------------
(* Properties                                                              *)

\* "Prevent split ownership": in a timely execution whose ttl is longer than a heartbeat
\* interval and two delays, no two attempts are ever inside their phases together,
\* however slow either is between two statements, whoever crashes and whatever abandoned
\* statement lands late. With a slower answer two may be, Heartbeat < Ttl or not.
OneHolderAtATime ==
    \A p, q \in Procs : pc[p] \in InPhases /\ pc[q] \in InPhases => p = q

\* Without timeliness fencing still bounds the damage: the check in assert_fence
\* and the INSERT are two statements, so an attempt whose lease was taken may
\* add one row to the journal, and never a second.
AtMostOneStaleRow == \A p \in Procs : staleRows[p] <= 1

\* A release or a takeover never ends a lease that is another attempt's and alive:
\* the row of a live lease goes away only by a DELETE its own owner sent. Tokens
\* repeat (a DELETE makes the next lease start at 1 again), so this hangs on owner_id.
LiveLeaseEndsByItsOwner ==
    [][ \A p \in Procs :
          lease.owner = p /\ lease.left > 0 /\ lease'.owner # p
            => \/ pc[p] = "releasing" /\ pc'[p] = "serving"
               \/ [op |-> "release", owner |-> p, fence |-> lease.fence] \in wire \ wire' ]_vars

\* "Deterministic phase journal events": what an attempt leaves in the journal,
\* late rows included, is the beginning of one legal run, and a process serves only
\* after a run that got through every phase.
RunTellsItsStory ==
    \A p \in Procs :
        /\ StoryHolds(p)
        /\ pc[p] = "serving" =>
              \E row \in LastRow(p) : row.phase = LastPhase /\ row.event \in {"completed", "skipped"}

\* A phase is only skipped after some attempt completed it, even if that attempt's
\* lease, or the skipping one's, has been lost between the look-up and the row.
SkippedWasCompleted ==
    \A j \in DOMAIN journal : journal[j].event = "skipped" =>
        \E i \in 1..(j - 1) : journal[i].phase = journal[j].phase
                             /\ journal[i].event = "completed"

\* An attempt that began is served, fails or crashes, and that is where it stays: it
\* neither waits for the lease for ever nor hangs on a lease it has lost.
StartupSettles == <>[](\A p \in Procs : pc[p] \in {"idle", "serving"} \cup Dead)

\* Crash safety: once an attempt is dead its lease lapses for good, so that an
\* abandoned lease cannot block later attempts beyond its ttl.
DeadLeaseLapses ==
    <>[](\A p \in Procs : pc[p] \in Dead /\ lease.owner = p => lease.left = 0)
=============================================================================

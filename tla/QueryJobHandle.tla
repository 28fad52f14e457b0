--------------------------- MODULE QueryJobHandle ---------------------------
(***************************************************************************)
(* One asynchronous job (QueryJobHandle of src/server.rs) at the           *)
(* granularity of its locks and atomics: the call that launches it, the    *)
(* spawned worker, cancel requests and clients that wait for an update.    *)
(*                                                                         *)
(* query_start, the async row count, query_job_start and export_job_start  *)
(* register the worker's abort handle after spawning it; enqueue_task does *)
(* not. Only the workers of the first two heed mark_running's answer.      *)
(***************************************************************************)
EXTENDS Naturals, FiniteSets

CONSTANTS
    Cancelers,    \* cancel requests, each sent once
    Waiters,      \* status requests, each sent once
    Starters      \* the calls that may have created the job

ASSUME StartersKnown == Starters \subseteq {"query_start", "query_job_start", "enqueue_task"}

VARIABLES
    starter,     \* the call that created the job
    state,       \* snapshot.state
    response,    \* snapshot.response and tool_result
    revision,    \* update_revision
    slot,        \* the abort_handle mutex holds a handle
    aborted,     \* abort() was called on the worker's task
    launcher,    \* where the launching call is
    doomed,      \* its should_abort_after_registration
    worker,      \* where the spawned task is
    outcome,     \* what its work came to
    canceler,    \* where each cancel request is
    waiter,      \* where each status request is
    mode,        \* its wait mode
    seen,        \* the snapshot state it holds
    seenRev,     \* the revision it holds with it
    readRev,     \* revision_before of snapshot_with_revision
    notified     \* the waiters whose Notified future has been notified

vars == <<starter, state, response, revision, slot, aborted, launcher, doomed, worker,
          outcome, canceler, waiter, mode, seen, seenRev, readRev, notified>>

jobVars == <<state, response, revision, slot, aborted>>
launchVars == <<starter, launcher, doomed>>
workVars == <<worker, outcome>>
waitVars == <<waiter, mode, seen, seenRev, readRev>>

-----------------------------------------------------------------------------

Terminal == {"succeeded", "failed", "canceled"}
States == {"pending", "running"} \cup Terminal

ResponseOf(ending) ==
    CASE ending = "succeeded" -> "data"
      [] ending = "failed" -> "error"
      [] ending = "canceled" -> "QUERY_CANCELED"

Responses == {"none"} \cup {ResponseOf(e) : e \in Terminal}

LauncherPlaces == {"created", "check", "install", "recheck", "abort", "returned"}
WorkerPlaces == {"unspawned", "ready", "run.bump", "run.notify", "executing", "ending",
                 "end.take", "end.bump", "end.notify", "over"}
CancelerPlaces == {"idle", "take", "bump", "notify", "over"}
WaiterPlaces == {"idle", "read", "clone", "reread", "first", "create", "second",
                 "waiting", "answer", "answered"}

\* The wait modes of query_status, the wait loop of query_start_and_wait, and
\* wait_until_terminal of job_status.
Modes == {"Immediate", "Deadline", "UntilTerminal", "StartAndWait", "JobStatus"}

TypeOK ==
    /\ starter \in Starters
    /\ state \in States /\ response \in Responses
    /\ revision \in Nat
    /\ slot \in BOOLEAN /\ aborted \in BOOLEAN
    /\ launcher \in LauncherPlaces /\ doomed \in BOOLEAN
    /\ worker \in WorkerPlaces /\ outcome \in {"succeeded", "failed"}
    /\ canceler \in [Cancelers -> CancelerPlaces]
    /\ waiter \in [Waiters -> WaiterPlaces]
    /\ mode \in [Waiters -> Modes]
    /\ seen \in [Waiters -> States]
    /\ seenRev \in [Waiters -> Nat] /\ readRev \in [Waiters -> Nat]
    /\ notified \in SUBSET Waiters

\* create_internal has made the handle; the launching call goes on from there.
Init ==
    /\ starter \in Starters
    /\ state = "pending" /\ response = "none"
    /\ revision = 0
    /\ slot = FALSE /\ aborted = FALSE
    /\ launcher = "created" /\ doomed = FALSE
    /\ worker = "unspawned" /\ outcome = "failed"
    /\ canceler = [c \in Cancelers |-> "idle"]
    /\ waiter = [w \in Waiters |-> "idle"]
    /\ mode \in [Waiters -> Modes]
    /\ seen = [w \in Waiters |-> "pending"]
    /\ seenRev = [w \in Waiters |-> 0]
    /\ readRev = [w \in Waiters |-> 0]
    /\ notified = {}

-----------------------------------------------------------------------------
(* Publication of an update: update_revision, then notify_waiters           *)

Bump == revision' = revision + 1

\* notify_waiters reaches every Notified future that exists.
NotifyWaiters ==
    notified' = notified \cup {w \in Waiters : waiter[w] \in {"second", "waiting"}}

-----------------------------------------------------------------------------
(* The launching call: tokio::spawn, then register_abort_handle             *)

LaunchSpawn ==
    /\ launcher = "created"
    /\ worker' = "ready"
    /\ launcher' = IF starter = "enqueue_task" THEN "returned" ELSE "check"
    /\ UNCHANGED <<jobVars, starter, doomed, outcome, canceler, waitVars, notified>>

LaunchCheck ==
    /\ launcher = "check"
    /\ doomed' = (state = "canceled")
    /\ launcher' = "install"
    /\ UNCHANGED <<jobVars, starter, workVars, canceler, waitVars, notified>>

\* Mutant: no second look at the snapshot once the handle is installed.
InstallAndReturn ==
    /\ launcher = "install"
    /\ slot' = TRUE
    /\ launcher' = IF doomed THEN "abort" ELSE "returned"
    /\ UNCHANGED <<state, response, revision, aborted, starter, doomed, workVars, canceler,
                   waitVars, notified>>

LaunchInstall ==
    /\ launcher = "install"
    /\ slot' = TRUE
    /\ launcher' = IF doomed THEN "abort" ELSE "recheck"
    /\ UNCHANGED <<state, response, revision, aborted, starter, doomed, workVars, canceler,
                   waitVars, notified>>

LaunchRecheck ==
    /\ launcher = "recheck"
    /\ doomed' = (state = "canceled")
    /\ launcher' = IF state = "canceled" THEN "abort" ELSE "returned"
    /\ UNCHANGED <<jobVars, starter, workVars, canceler, waitVars, notified>>

LaunchAbort ==
    /\ launcher = "abort"
    /\ slot' = FALSE
    /\ aborted' = TRUE
    /\ launcher' = "returned"
    /\ UNCHANGED <<state, response, revision, starter, doomed, workVars, canceler, waitVars,
                   notified>>

-----------------------------------------------------------------------------
(* The worker. An abort takes effect where the task awaits.                 *)

\* mark_running: the worker of query_start returns if the job is canceled.
MarkRunning ==
    /\ worker = "ready"
    /\ IF state = "pending"
       THEN state' = "running" /\ worker' = "run.bump"
       ELSE /\ worker' = IF starter = "query_start" THEN "over" ELSE "executing"
            /\ UNCHANGED state
    /\ UNCHANGED <<response, revision, slot, aborted, launchVars, outcome, canceler, waitVars,
                   notified>>

RunBump ==
    /\ worker = "run.bump"
    /\ Bump
    /\ worker' = "run.notify"
    /\ UNCHANGED <<state, response, slot, aborted, launchVars, outcome, canceler, waitVars,
                   notified>>

RunNotify ==
    /\ worker = "run.notify"
    /\ NotifyWaiters
    /\ worker' = "executing"
    /\ UNCHANGED <<jobVars, launchVars, outcome, canceler, waitVars>>

Execute ==
    /\ worker = "executing"
    /\ outcome' \in {"succeeded", "failed"}
    /\ worker' = "ending"
    /\ UNCHANGED <<jobVars, launchVars, canceler, waitVars, notified>>

\* Mutant: completion overwrites an end that is already there.
CompleteAlways ==
    /\ worker = "ending"
    /\ state' = outcome
    /\ response' = ResponseOf(outcome)
    /\ worker' = "end.take"
    /\ UNCHANGED <<revision, slot, aborted, launchVars, outcome, canceler, waitVars, notified>>

\* complete_payloads, under the snapshot lock.
Complete ==
    /\ worker = "ending"
    /\ IF state \in Terminal
       THEN worker' = "over" /\ UNCHANGED <<state, response>>
       ELSE /\ state' = outcome
            /\ response' = ResponseOf(outcome)
            /\ worker' = "end.take"
    /\ UNCHANGED <<revision, slot, aborted, launchVars, outcome, canceler, waitVars, notified>>

CompleteTake ==
    /\ worker = "end.take"
    /\ slot' = FALSE
    /\ worker' = "end.bump"
    /\ UNCHANGED <<state, response, revision, aborted, launchVars, outcome, canceler, waitVars,
                   notified>>

CompleteBump ==
    /\ worker = "end.bump"
    /\ Bump
    /\ worker' = "end.notify"
    /\ UNCHANGED <<state, response, slot, aborted, launchVars, outcome, canceler, waitVars,
                   notified>>

CompleteNotify ==
    /\ worker = "end.notify"
    /\ NotifyWaiters
    /\ worker' = "over"
    /\ UNCHANGED <<jobVars, launchVars, outcome, canceler, waitVars>>

Aborted ==
    /\ aborted
    /\ worker \in {"ready", "executing"}
    /\ worker' = "over"
    /\ UNCHANGED <<jobVars, launchVars, outcome, canceler, waitVars, notified>>

-----------------------------------------------------------------------------
(* cancel                                                                   *)

CancelLock(c) ==
    /\ canceler[c] = "idle"
    /\ IF state \in Terminal
       THEN canceler' = [canceler EXCEPT ![c] = "over"] /\ UNCHANGED <<state, response>>
       ELSE /\ state' = "canceled"
            /\ response' = ResponseOf("canceled")
            /\ canceler' = [canceler EXCEPT ![c] = "take"]
    /\ UNCHANGED <<revision, slot, aborted, launchVars, workVars, waitVars, notified>>

CancelTake(c) ==
    /\ canceler[c] = "take"
    /\ slot' = FALSE
    /\ aborted' = (aborted \/ slot)
    /\ canceler' = [canceler EXCEPT ![c] = "bump"]
    /\ UNCHANGED <<state, response, revision, launchVars, workVars, waitVars, notified>>

CancelBump(c) ==
    /\ canceler[c] = "bump"
    /\ Bump
    /\ canceler' = [canceler EXCEPT ![c] = "notify"]
    /\ UNCHANGED <<state, response, slot, aborted, launchVars, workVars, waitVars, notified>>

CancelNotify(c) ==
    /\ canceler[c] = "notify"
    /\ NotifyWaiters
    /\ canceler' = [canceler EXCEPT ![c] = "over"]
    /\ UNCHANGED <<jobVars, launchVars, workVars, waitVars>>

-----------------------------------------------------------------------------
(* A status request: snapshot_with_revision and wait_for_update_since;      *)
(* job_status takes a snapshot first and then the revision.                 *)

LookAgain(w) == IF mode[w] = "JobStatus" THEN "clone" ELSE "read"

StatusBegin(w) ==
    /\ waiter[w] = "idle"
    /\ waiter' = [waiter EXCEPT ![w] = LookAgain(w)]
    /\ UNCHANGED <<jobVars, launchVars, workVars, canceler, mode, seen, seenRev, readRev,
                   notified>>

\* snapshot_with_revision: revision, snapshot, revision again.
ReadRevision(w) ==
    /\ waiter[w] = "read"
    /\ readRev' = [readRev EXCEPT ![w] = revision]
    /\ waiter' = [waiter EXCEPT ![w] = "clone"]
    /\ UNCHANGED <<jobVars, launchVars, workVars, canceler, mode, seen, seenRev, notified>>

CloneSnapshot(w) ==
    /\ waiter[w] = "clone"
    /\ seen' = [seen EXCEPT ![w] = state]
    /\ waiter' = [waiter EXCEPT ![w] = IF mode[w] = "JobStatus" /\ state \in Terminal
                                       THEN "answer" ELSE "reread"]
    /\ UNCHANGED <<jobVars, launchVars, workVars, canceler, mode, seenRev, readRev, notified>>

\* Mutant: the revision is taken after the snapshot, without comparing.
TakeRevision(w) ==
    /\ waiter[w] = "reread" /\ mode[w] # "JobStatus"
    /\ seenRev' = [seenRev EXCEPT ![w] = revision]
    /\ waiter' = [waiter EXCEPT ![w] = IF seen[w] \in Terminal \/ mode[w] = "Immediate"
                                       THEN "answered" ELSE "first"]
    /\ UNCHANGED <<jobVars, launchVars, workVars, canceler, mode, seen, readRev, notified>>

RereadRevision(w) ==
    /\ waiter[w] = "reread" /\ mode[w] # "JobStatus"
    /\ IF revision = readRev[w]
       THEN /\ seenRev' = [seenRev EXCEPT ![w] = revision]
            /\ waiter' = [waiter EXCEPT ![w] = IF seen[w] \in Terminal \/ mode[w] = "Immediate"
                                               THEN "answered" ELSE "first"]
       ELSE /\ waiter' = [waiter EXCEPT ![w] = "read"]
            /\ UNCHANGED seenRev
    /\ UNCHANGED <<jobVars, launchVars, workVars, canceler, mode, seen, readRev, notified>>

\* job.revision() of job_status: whatever was published since the snapshot is
\* in this revision already.
JobStatusRevision(w) ==
    /\ waiter[w] = "reread" /\ mode[w] = "JobStatus"
    /\ seenRev' = [seenRev EXCEPT ![w] = revision]
    /\ waiter' = [waiter EXCEPT ![w] = "first"]
    /\ UNCHANGED <<jobVars, launchVars, workVars, canceler, mode, seen, readRev, notified>>

\* An update was noticed: look again, or answer with one last snapshot.
Updated(w) ==
    waiter' = [waiter EXCEPT ![w] = IF mode[w] = "Deadline" THEN "answer" ELSE LookAgain(w)]

\* The first comparison of wait_for_update_since, and creation of the future.
FirstCheck(w) ==
    /\ waiter[w] = "first"
    /\ IF revision # seenRev[w]
       THEN Updated(w)
       ELSE waiter' = [waiter EXCEPT ![w] = "create"]
    /\ UNCHANGED <<jobVars, launchVars, workVars, canceler, mode, seen, seenRev, readRev,
                   notified>>

CreateNotified(w) ==
    /\ waiter[w] = "create"
    /\ notified' = notified \ {w}
    /\ waiter' = [waiter EXCEPT ![w] = "second"]
    /\ UNCHANGED <<jobVars, launchVars, workVars, canceler, mode, seen, seenRev, readRev>>

\* Mutant: no comparison between creating the future and awaiting it.
NoSecondCheck(w) ==
    /\ waiter[w] = "second"
    /\ waiter' = [waiter EXCEPT ![w] = "waiting"]
    /\ UNCHANGED <<jobVars, launchVars, workVars, canceler, mode, seen, seenRev, readRev,
                   notified>>

SecondCheck(w) ==
    /\ waiter[w] = "second"
    /\ IF revision # seenRev[w]
       THEN Updated(w)
       ELSE waiter' = [waiter EXCEPT ![w] = "waiting"]
    /\ UNCHANGED <<jobVars, launchVars, workVars, canceler, mode, seen, seenRev, readRev,
                   notified>>

WakeUp(w) ==
    /\ waiter[w] = "waiting"
    /\ w \in notified
    /\ Updated(w)
    /\ UNCHANGED <<jobVars, launchVars, workVars, canceler, mode, seen, seenRev, readRev,
                   notified>>

\* The deadline passes, or the 60 s round of an UntilTerminal wait: that one
\* waits on with the revision it had. job_status sets no timer.
WaitTimeout(w) ==
    /\ waiter[w] = "waiting" /\ mode[w] # "JobStatus"
    /\ waiter' = [waiter EXCEPT ![w] = IF mode[w] = "UntilTerminal" THEN "first" ELSE "answer"]
    /\ UNCHANGED <<jobVars, launchVars, workVars, canceler, mode, seen, seenRev, readRev,
                   notified>>

\* A deadline request and job_status answer with a fresh snapshot.
Answer(w) ==
    /\ waiter[w] = "answer"
    /\ seen' = [seen EXCEPT ![w] = state]
    /\ waiter' = [waiter EXCEPT ![w] = "answered"]
    /\ UNCHANGED <<jobVars, launchVars, workVars, canceler, mode, seenRev, readRev, notified>>

-----------------------------------------------------------------------------

Launch == LaunchSpawn \/ LaunchCheck \/ LaunchInstall \/ LaunchRecheck \/ LaunchAbort

Worker ==
    \/ MarkRunning \/ RunBump \/ RunNotify \/ Execute
    \/ Complete \/ CompleteTake \/ CompleteBump \/ CompleteNotify
    \/ Aborted

Cancel(c) == CancelTake(c) \/ CancelBump(c) \/ CancelNotify(c)

Wait(w) ==
    \/ ReadRevision(w) \/ CloneSnapshot(w) \/ RereadRevision(w) \/ JobStatusRevision(w)
    \/ FirstCheck(w) \/ CreateNotified(w) \/ SecondCheck(w) \/ WakeUp(w) \/ Answer(w)

Next ==
    \/ Launch \/ Worker
    \/ \E c \in Cancelers : CancelLock(c) \/ Cancel(c)
    \/ \E w \in Waiters : StatusBegin(w) \/ Wait(w) \/ WaitTimeout(w)

Spec == Init /\ [][Next]_vars

\* A call that runs goes on, and a query ends (statement_timeout); requests need
\* not come, and no answer may depend on a timer firing.
Fairness ==
    /\ WF_vars(Launch) /\ WF_vars(Worker)
    /\ \A c \in Cancelers : WF_vars(Cancel(c))
    /\ \A w \in Waiters : WF_vars(Wait(w))

FairSpec == Spec /\ Fairness

-----------------------------------------------------------------------------
(* Properties                                                              *)

\* The handle implements the promise: one end, one response, for good.
Promise == INSTANCE JobPromise WITH state <- state, response <- response
KeepsPromise == Promise!Spec

\* A change of the snapshot that is not published yet.
Unpublished ==
    \/ worker \in {"run.bump", "end.take", "end.bump"}
    \/ \E c \in Cancelers : canceler[c] \in {"take", "bump"}

\* No update is lost between a snapshot and its revision (snapshot_with_revision):
\* a request that holds an outdated state holds an outdated revision too, or the
\* bump is still to come.
NoMissedUpdate ==
    \A w \in Waiters :
        /\ mode[w] # "JobStatus"
        /\ waiter[w] \in {"first", "create", "second", "waiting"}
        /\ seen[w] # state
        => revision # seenRev[w] \/ Unpublished

\* The cancellation race of register_abort_handle: when the launching call and
\* every cancel request are done with the abort handle, the worker of a canceled
\* job has been aborted or is over, whichever came first. (A task's worker, which
\* registers none, goes on after its cancellation.)
CanceledWorkIsAborted ==
    starter # "enqueue_task" /\ state = "canceled" /\ launcher = "returned" /\ worker # "unspawned"
        /\ (\A c \in Cancelers : canceler[c] # "take")
        => aborted \/ worker = "over"

\* A query_status or query_start_and_wait request that waits for a terminal state
\* is answered with one, by the notifications alone: no wake-up is lost and no job
\* stays open for ever.
WaitersAreAnswered ==
    \A w \in Waiters :
        waiter[w] = "read" ~>
            waiter[w] = "answered" /\ (mode[w] = "UntilTerminal" => seen[w] \in Terminal)

\* job_status with wait_until_terminal is answered once the job has ended.
JobStatusIsAnswered ==
    \A w \in Waiters :
        mode[w] = "JobStatus" /\ waiter[w] = "clone" ~> waiter[w] = "answered"
=============================================================================

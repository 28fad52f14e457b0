----------------------- MODULE QueryJobHandle_proofs -----------------------
(* Theorems of QueryJobHandle, for any number of cancel and status requests. *)
EXTENDS QueryJobHandle, TLAPS

-----------------------------------------------------------------------------
(* Type correctness                                                        *)

\* The handle's own fields, the launching call and the worker.
JobTypeOK ==
    /\ starter \in Starters
    /\ state \in States /\ response \in Responses
    /\ revision \in Nat
    /\ slot \in BOOLEAN /\ aborted \in BOOLEAN
    /\ launcher \in LauncherPlaces /\ doomed \in BOOLEAN
    /\ worker \in WorkerPlaces /\ outcome \in {"succeeded", "failed"}

\* The requests.
RequestTypeOK ==
    /\ canceler \in [Cancelers -> CancelerPlaces]
    /\ waiter \in [Waiters -> WaiterPlaces]
    /\ mode \in [Waiters -> Modes]
    /\ seen \in [Waiters -> States]
    /\ seenRev \in [Waiters -> Nat] /\ readRev \in [Waiters -> Nat]
    /\ notified \in SUBSET Waiters

\* The type invariant is the two together, now and after a step.
LEMMA TypeParts ==
    /\ TypeOK <=> JobTypeOK /\ RequestTypeOK
    /\ TypeOK' <=> JobTypeOK' /\ RequestTypeOK'
<1>1. TypeOK => JobTypeOK /\ RequestTypeOK
    BY DEF TypeOK, JobTypeOK, RequestTypeOK
<1>2. JobTypeOK /\ RequestTypeOK => TypeOK
    BY DEF TypeOK, JobTypeOK, RequestTypeOK
<1>3. TypeOK' => JobTypeOK' /\ RequestTypeOK'
    BY DEF TypeOK, JobTypeOK, RequestTypeOK
<1>4. JobTypeOK' /\ RequestTypeOK' => TypeOK'
    BY DEF TypeOK, JobTypeOK, RequestTypeOK
<1> QED BY <1>1, <1>2, <1>3, <1>4

\* Every end has its response.
LEMMA ResponsesOfEnds ==
    \A e \in Terminal : e \in States /\ ResponseOf(e) \in Responses
    BY DEF Terminal, States, Responses

\* The handle create_internal makes is well typed.
LEMMA InitType == Init => TypeOK
<1> SUFFICES ASSUME Init PROVE TypeOK
    OBVIOUS
<1>1. JobTypeOK
    BY DEF Init, JobTypeOK, States, Responses, LauncherPlaces, WorkerPlaces
<1>2. RequestTypeOK
    BY DEF Init, RequestTypeOK, States, CancelerPlaces, WaiterPlaces
<1> QED BY <1>1, <1>2, TypeParts

\* The launching call keeps the types.
LEMMA LaunchType ==
    ASSUME TypeOK, Launch PROVE TypeOK'
<1>1. RequestTypeOK'
  <2>1. RequestTypeOK /\ UNCHANGED <<canceler, waiter, mode, seen, seenRev, readRev, notified>>
      BY DEF TypeOK, RequestTypeOK, Launch, LaunchSpawn, LaunchCheck, LaunchInstall,
             LaunchRecheck, LaunchAbort, waitVars
  <2> QED BY <2>1 DEF RequestTypeOK
<1>2. JobTypeOK'
  <2> JobTypeOK
      BY TypeParts
  <2> USE DEF JobTypeOK, LauncherPlaces, WorkerPlaces, jobVars, workVars
  <2>1. CASE LaunchSpawn
      BY <2>1 DEF LaunchSpawn
  <2>2. CASE LaunchCheck
      BY <2>2 DEF LaunchCheck
  <2>3. CASE LaunchInstall
      BY <2>3 DEF LaunchInstall
  <2>4. CASE LaunchRecheck
      BY <2>4 DEF LaunchRecheck
  <2>5. CASE LaunchAbort
      BY <2>5 DEF LaunchAbort
  <2> QED BY <2>1, <2>2, <2>3, <2>4, <2>5 DEF Launch
<1> QED BY <1>1, <1>2, TypeParts

\* The worker keeps the types.
LEMMA WorkerType ==
    ASSUME TypeOK, Worker PROVE TypeOK'
<1>1. RequestTypeOK'
  <2>1. RequestTypeOK /\ UNCHANGED <<canceler, waiter, mode, seen, seenRev, readRev>>
      BY TypeParts DEF Worker, MarkRunning, RunBump, RunNotify, Execute, Complete,
             CompleteTake, CompleteBump, CompleteNotify, Aborted, waitVars
  <2>2. notified' = notified \/ NotifyWaiters
      BY DEF Worker, MarkRunning, RunBump, RunNotify, Execute, Complete,
             CompleteTake, CompleteBump, CompleteNotify, Aborted
  <2> QED BY <2>1, <2>2 DEF RequestTypeOK, NotifyWaiters
<1>2. JobTypeOK'
  <2> JobTypeOK
      BY TypeParts
  <2> USE DEF JobTypeOK, WorkerPlaces, jobVars, launchVars
  <2>1. CASE MarkRunning
      BY <2>1 DEF MarkRunning, States
  <2>2. CASE RunBump
      BY <2>2 DEF RunBump, Bump
  <2>3. CASE RunNotify
      BY <2>3 DEF RunNotify
  <2>4. CASE Execute
      BY <2>4 DEF Execute
  <2>5. CASE Complete /\ state \in Terminal
      BY <2>5 DEF Complete
  <2>6. CASE Complete /\ state \notin Terminal
    <3>1. state' \in States /\ response' \in Responses
        BY <2>6, ResponsesOfEnds DEF Complete, Terminal
    <3> QED BY <2>6, <3>1 DEF Complete
  <2>7. CASE CompleteTake
      BY <2>7 DEF CompleteTake
  <2>8. CASE CompleteBump
      BY <2>8 DEF CompleteBump, Bump
  <2>9. CASE CompleteNotify
      BY <2>9 DEF CompleteNotify
  <2>10. CASE Aborted
      BY <2>10 DEF Aborted
  <2> QED BY <2>1, <2>2, <2>3, <2>4, <2>5, <2>6, <2>7, <2>8, <2>9, <2>10 DEF Worker
<1> QED BY <1>1, <1>2, TypeParts

\* A cancel request keeps the types.
LEMMA CancelType ==
    ASSUME TypeOK, NEW c \in Cancelers, CancelLock(c) \/ Cancel(c) PROVE TypeOK'
<1>1. JobTypeOK'
  <2> JobTypeOK
      BY TypeParts
  <2> USE DEF JobTypeOK, launchVars, workVars, jobVars
  <2>1. CASE CancelLock(c)
    <3>1. state' \in States /\ response' \in Responses
        BY <2>1, ResponsesOfEnds DEF CancelLock, Terminal
    <3> QED BY <2>1, <3>1 DEF CancelLock
  <2>2. CASE CancelTake(c)
      BY <2>2 DEF CancelTake
  <2>3. CASE CancelBump(c)
      BY <2>3 DEF CancelBump, Bump
  <2>4. CASE CancelNotify(c)
      BY <2>4 DEF CancelNotify
  <2> QED BY <2>1, <2>2, <2>3, <2>4 DEF Cancel
<1>2. RequestTypeOK'
  <2>1. RequestTypeOK /\ UNCHANGED <<waiter, mode, seen, seenRev, readRev>>
      BY TypeParts DEF CancelLock, Cancel, CancelTake, CancelBump, CancelNotify, waitVars
  <2>2. notified' = notified \/ NotifyWaiters
      BY DEF CancelLock, Cancel, CancelTake, CancelBump, CancelNotify
  <2>3. canceler' = canceler
        \/ \E place \in CancelerPlaces : canceler' = [canceler EXCEPT ![c] = place]
      BY DEF CancelLock, Cancel, CancelTake, CancelBump, CancelNotify, CancelerPlaces
  <2>4. canceler' \in [Cancelers -> CancelerPlaces]
      BY <2>1, <2>3 DEF RequestTypeOK
  <2> QED BY <2>1, <2>2, <2>4 DEF RequestTypeOK, NotifyWaiters
<1> QED BY <1>1, <1>2, TypeParts

\* A status request keeps the types.
LEMMA WaitType ==
    ASSUME TypeOK, NEW w \in Waiters, StatusBegin(w) \/ Wait(w) \/ WaitTimeout(w) PROVE TypeOK'
<1> USE DEF Wait
<1>1. UNCHANGED <<jobVars, launchVars, workVars, canceler, mode>>
    BY DEF StatusBegin, ReadRevision, CloneSnapshot, RereadRevision,
           JobStatusRevision, FirstCheck, CreateNotified,
           SecondCheck, WakeUp, Answer, WaitTimeout
<1>2. JobTypeOK'
    BY <1>1, TypeParts DEF JobTypeOK, jobVars, launchVars, workVars
<1>3. waiter' \in [Waiters -> WaiterPlaces]
  <2>1. waiter \in [Waiters -> WaiterPlaces]
      BY DEF TypeOK
  <2> QED
      BY <2>1
      DEF StatusBegin, ReadRevision, CloneSnapshot, RereadRevision,
          JobStatusRevision, FirstCheck, CreateNotified,
          SecondCheck, WakeUp, Answer, WaitTimeout, Updated, LookAgain, WaiterPlaces
<1>4. seen' \in [Waiters -> States] /\ notified' \in SUBSET Waiters
  <2>1. seen \in [Waiters -> States] /\ notified \in SUBSET Waiters /\ state \in States
      BY DEF TypeOK
  <2> QED
      BY <2>1
      DEF StatusBegin, ReadRevision, CloneSnapshot, RereadRevision,
          JobStatusRevision, FirstCheck, CreateNotified,
          SecondCheck, WakeUp, Answer, WaitTimeout
<1>5. seenRev' \in [Waiters -> Nat] /\ readRev' \in [Waiters -> Nat]
  <2>1. seenRev \in [Waiters -> Nat] /\ readRev \in [Waiters -> Nat] /\ revision \in Nat
      BY DEF TypeOK
  <2> QED
      BY <2>1
      DEF StatusBegin, ReadRevision, CloneSnapshot, RereadRevision,
          JobStatusRevision, FirstCheck, CreateNotified,
          SecondCheck, WakeUp, Answer, WaitTimeout
<1>6. RequestTypeOK'
    BY <1>1, <1>3, <1>4, <1>5 DEF TypeOK, RequestTypeOK
<1> QED BY <1>2, <1>6, TypeParts

\* So does every step.
LEMMA NextType == TypeOK /\ [Next]_vars => TypeOK'
<1> SUFFICES ASSUME TypeOK, [Next]_vars PROVE TypeOK'
    OBVIOUS
<1>1. CASE UNCHANGED vars
    BY <1>1 DEF vars, TypeOK
<1> QED BY <1>1, LaunchType, WorkerType, CancelType, WaitType DEF Next

\* Every variable keeps its type.
THEOREM TypeCorrect == Spec => []TypeOK
    BY InitType, NextType, PTL DEF Spec

-----------------------------------------------------------------------------
(* The handle keeps the job's promise                                      *)

\* A step leaves the snapshot alone, starts the job, or ends one that has not ended.
LEMMA SnapshotStep ==
    ASSUME TypeOK, [Next]_vars
    PROVE  \/ UNCHANGED <<state, response>>
           \/ MarkRunning /\ state = "pending" /\ state' = "running" /\ response' = response
              /\ revision' = revision /\ worker' = "run.bump"
           \/ \E e \in Terminal : /\ state \notin Terminal /\ state' = e
                                  /\ response' = ResponseOf(e) /\ revision' = revision
                                  /\ \/ worker' = "end.take"
                                     \/ \E c \in Cancelers : canceler'[c] = "take"
<1>1. CASE Launch
    BY <1>1 DEF Launch, LaunchSpawn, LaunchCheck, LaunchInstall, LaunchRecheck, LaunchAbort, jobVars
<1>2. CASE Worker
  <2>1. CASE MarkRunning
      BY <2>1 DEF MarkRunning
  <2>2. CASE Complete
      BY <2>2 DEF TypeOK, Complete, Terminal
  <2>3. CASE ~MarkRunning /\ ~Complete
      BY <1>2, <2>3 DEF Worker, RunBump, RunNotify, Execute, CompleteTake, CompleteBump,
                        CompleteNotify, Aborted, jobVars
  <2> QED BY <2>1, <2>2, <2>3
<1>3. ASSUME NEW c \in Cancelers, CancelLock(c)
      PROVE  \/ UNCHANGED <<state, response>>
             \/ /\ state \notin Terminal /\ state' = "canceled"
                /\ response' = ResponseOf("canceled") /\ revision' = revision
                /\ canceler'[c] = "take"
    BY <1>3 DEF TypeOK, CancelLock
<1>4. "canceled" \in Terminal
    BY DEF Terminal
<1>5. ASSUME NEW c \in Cancelers, Cancel(c) PROVE UNCHANGED <<state, response>>
    BY <1>5 DEF Cancel, CancelTake, CancelBump, CancelNotify, jobVars
<1>6. ASSUME NEW w \in Waiters, StatusBegin(w) \/ Wait(w) \/ WaitTimeout(w)
      PROVE  UNCHANGED <<state, response>>
    BY <1>6 DEF StatusBegin, Wait, ReadRevision, CloneSnapshot, RereadRevision,
                JobStatusRevision, FirstCheck,
                CreateNotified, SecondCheck, WakeUp, Answer, WaitTimeout, jobVars
<1>7. CASE UNCHANGED vars
    BY <1>7 DEF vars
<1> QED BY <1>1, <1>2, <1>3, <1>4, <1>5, <1>6, <1>7 DEF Next

\* The handle, with every race of worker, launcher and cancel requests, implements
\* the promise of JobPromise: one end, one response, and never another.
THEOREM PromiseKept == Spec => KeepsPromise
<1>1. Init => Promise!Init
    BY DEF Init, Promise!Init, Promise!NoResponse
<1>2. TypeOK /\ [Next]_vars => [Promise!Next]_<<state, response>>
  <2> SUFFICES ASSUME TypeOK, [Next]_vars, ~UNCHANGED <<state, response>> PROVE Promise!Next
      OBVIOUS
  <2>1. CASE state = "pending" /\ state' = "running" /\ response' = response
      BY <2>1 DEF Promise!Next, Promise!Start
  <2>2. ASSUME NEW e \in Terminal, state \notin Terminal, state' = e, response' = ResponseOf(e)
        PROVE  Promise!Next
    <3>1. state \in {"pending", "running"} /\ e \in Promise!Endings
        BY <2>2 DEF TypeOK, States, Terminal, Promise!Endings
    <3>2. Promise!ResponseOf(e) = ResponseOf(e)
        BY DEF ResponseOf, Promise!ResponseOf, Terminal
    <3> QED BY <2>2, <3>1, <3>2 DEF Promise!Next, Promise!End
  <2> QED BY <2>1, <2>2, SnapshotStep
<1> QED BY <1>1, <1>2, TypeCorrect, PTL DEF Spec, KeepsPromise, Promise!Spec

-----------------------------------------------------------------------------
(* The work of a canceled job is aborted                                   *)

\* Where the abort handle is: once installed it stays in its slot while the job
\* is open, and whoever empties the slot ends the job or aborts the task.
AbortInv ==
    /\ launcher \in {"recheck", "returned"} /\ state \notin Terminal => slot
    /\ launcher = "abort" \/ (launcher = "install" /\ doomed) => state = "canceled"
    /\ worker = "end.take" => state \in {"succeeded", "failed"}
    /\ \A c \in Cancelers : canceler[c] = "take" => state = "canceled"
    /\ state = "canceled" /\ launcher = "returned"
          => aborted \/ (slot /\ \E c \in Cancelers : canceler[c] = "take")

\* The launching call registers the handle without losing a cancellation.
LEMMA LaunchAbortInv ==
    ASSUME TypeOK, AbortInv, starter # "enqueue_task", Launch PROVE AbortInv'
<1> USE DEF AbortInv
<1>1. CASE LaunchSpawn
    BY <1>1 DEF LaunchSpawn, jobVars
<1>2. CASE LaunchCheck
    BY <1>2 DEF LaunchCheck, jobVars, workVars
<1>3. CASE LaunchInstall
    BY <1>3 DEF LaunchInstall, workVars
<1>4. CASE LaunchRecheck
    BY <1>4 DEF LaunchRecheck, jobVars, workVars
<1>5. CASE LaunchAbort
    BY <1>5 DEF LaunchAbort, workVars, Terminal
<1> QED BY <1>1, <1>2, <1>3, <1>4, <1>5 DEF Launch

\* The worker empties the slot of a job it ended itself only.
LEMMA WorkerAbortInv ==
    ASSUME TypeOK, AbortInv, Worker PROVE AbortInv'
<1> USE DEF AbortInv, launchVars
<1>1. CASE MarkRunning
    BY <1>1 DEF MarkRunning, Terminal
<1>2. CASE RunBump
    BY <1>2 DEF RunBump
<1>3. CASE RunNotify \/ Execute \/ CompleteNotify \/ Aborted
    BY <1>3 DEF RunNotify, Execute, CompleteNotify, Aborted, jobVars
<1>4. CASE Complete
  <2>1. outcome \in {"succeeded", "failed"}
      BY DEF TypeOK
  <2> QED BY <1>4, <2>1 DEF Complete, Terminal
<1>5. CASE CompleteTake
    BY <1>5 DEF CompleteTake, Terminal
<1>6. CASE CompleteBump
    BY <1>6 DEF CompleteBump
<1> QED BY <1>1, <1>2, <1>3, <1>4, <1>5, <1>6 DEF Worker

\* A cancel request ends the job before it empties the slot, and aborts.
LEMMA CancelAbortInv ==
    ASSUME TypeOK, AbortInv, NEW c \in Cancelers, CancelLock(c) \/ Cancel(c)
    PROVE  AbortInv'
<1> USE DEF AbortInv, launchVars, workVars
<1>1. canceler \in [Cancelers -> CancelerPlaces]
    BY DEF TypeOK
<1>2. CASE CancelLock(c)
    BY <1>1, <1>2 DEF CancelLock, Terminal
<1>3. CASE CancelTake(c)
    BY <1>1, <1>3 DEF CancelTake, Terminal
<1>4. CASE CancelBump(c)
    BY <1>1, <1>4 DEF CancelBump
<1>5. CASE CancelNotify(c)
    BY <1>1, <1>5 DEF CancelNotify, jobVars
<1> QED BY <1>2, <1>3, <1>4, <1>5 DEF Cancel

\* A job was started by one call for good.
LEMMA StarterStays == ASSUME [Next]_vars PROVE starter' = starter
<1>1. CASE Launch
    BY <1>1 DEF Launch, LaunchSpawn, LaunchCheck, LaunchInstall, LaunchRecheck, LaunchAbort
<1>2. CASE Worker
    BY <1>2 DEF Worker, MarkRunning, RunBump, RunNotify, Execute, Complete, CompleteTake,
                CompleteBump, CompleteNotify, Aborted, launchVars
<1>3. ASSUME NEW c \in Cancelers, CancelLock(c) \/ Cancel(c) PROVE starter' = starter
    BY <1>3 DEF CancelLock, Cancel, CancelTake, CancelBump, CancelNotify, launchVars
<1>4. ASSUME NEW w \in Waiters, StatusBegin(w) \/ Wait(w) \/ WaitTimeout(w)
      PROVE  starter' = starter
    BY <1>4 DEF Wait, StatusBegin, ReadRevision, CloneSnapshot, RereadRevision, JobStatusRevision,
                FirstCheck, CreateNotified, SecondCheck, WakeUp, Answer, WaitTimeout, launchVars
<1>5. CASE UNCHANGED vars
    BY <1>5 DEF vars
<1> QED BY <1>1, <1>2, <1>3, <1>4, <1>5 DEF Next

\* When a job is launched with register_abort_handle, cancelling it stops its
\* work: whatever the order of registration, cancellation and completion.
THEOREM CanceledIsAborted == Spec => []CanceledWorkIsAborted
<1> DEFINE Kept == starter # "enqueue_task" => AbortInv
<1>1. Init => Kept
    BY DEF Init, AbortInv, Terminal
<1>2. TypeOK /\ Kept /\ [Next]_vars => Kept'
  <2> SUFFICES ASSUME TypeOK, Kept, [Next]_vars, starter' # "enqueue_task" PROVE AbortInv'
      OBVIOUS
  <2>0. starter # "enqueue_task" /\ AbortInv
      BY StarterStays
  <2>1. ASSUME NEW w \in Waiters, StatusBegin(w) \/ Wait(w) \/ WaitTimeout(w) PROVE AbortInv'
    <3>1. UNCHANGED <<jobVars, launchVars, workVars, canceler>>
        BY <2>1 DEF Wait, StatusBegin, ReadRevision, CloneSnapshot, RereadRevision,
                    JobStatusRevision, FirstCheck,
                    CreateNotified, SecondCheck, WakeUp, Answer, WaitTimeout
    <3> QED BY <2>0, <3>1 DEF AbortInv, jobVars, launchVars, workVars
  <2>2. CASE UNCHANGED vars
      BY <2>0, <2>2 DEF vars, AbortInv, jobVars, launchVars, workVars
  <2> QED
      BY <2>0, <2>1, <2>2, LaunchAbortInv, WorkerAbortInv, CancelAbortInv DEF Next
<1>3. Kept => CanceledWorkIsAborted
    BY DEF AbortInv, CanceledWorkIsAborted
<1> QED BY <1>1, <1>2, <1>3, TypeCorrect, PTL DEF Spec

-----------------------------------------------------------------------------
(* No status request misses an update                                      *)

\* There is no worker before it is spawned.
SpawnInv == launcher = "created" => worker = "unspawned"

\* Only LaunchSpawn leaves the places before the spawn.
LEMMA SpawnFirst == Spec => []SpawnInv
<1>1. Init => SpawnInv
    BY DEF Init, SpawnInv
<1>2. SpawnInv /\ [Next]_vars => SpawnInv'
  <2> SUFFICES ASSUME SpawnInv, [Next]_vars PROVE SpawnInv'
      OBVIOUS
  <2>1. CASE Launch
      BY <2>1 DEF SpawnInv, Launch, LaunchSpawn, LaunchCheck, LaunchInstall, LaunchRecheck,
                  LaunchAbort
  <2>2. CASE Worker
      BY <2>2 DEF SpawnInv, Worker, MarkRunning, RunBump, RunNotify, Execute, Complete,
                  CompleteTake, CompleteBump, CompleteNotify, Aborted, launchVars
  <2>3. ASSUME NEW c \in Cancelers, CancelLock(c) \/ Cancel(c) PROVE SpawnInv'
      BY <2>3 DEF SpawnInv, CancelLock, Cancel, CancelTake, CancelBump, CancelNotify, launchVars,
                  workVars
  <2>4. ASSUME NEW w \in Waiters, StatusBegin(w) \/ Wait(w) \/ WaitTimeout(w) PROVE SpawnInv'
      BY <2>4 DEF SpawnInv, Wait, StatusBegin, ReadRevision, CloneSnapshot, RereadRevision,
                  JobStatusRevision,
                  FirstCheck, CreateNotified, SecondCheck, WakeUp, Answer, WaitTimeout,
                  launchVars, workVars
  <2>5. CASE UNCHANGED vars
      BY <2>5 DEF vars, SpawnInv
  <2> QED BY <2>1, <2>2, <2>3, <2>4, <2>5 DEF Next
<1> QED BY <1>1, <1>2, PTL DEF Spec

\* What a request knows of the revision it holds, while it reads and waits; one of
\* job_status knows nothing.
Knows(w) ==
    \/ mode[w] = "JobStatus"
    \/ /\ waiter[w] \in {"clone", "reread"} => readRev[w] <= revision
       /\ waiter[w] = "reread" /\ readRev[w] = revision => Unpublished \/ seen[w] = state
       /\ waiter[w] \in {"first", "create", "second", "waiting"}
             => /\ seenRev[w] <= revision
                /\ seenRev[w] = revision => Unpublished \/ seen[w] = state

SeenInv == \A w \in Waiters : Knows(w)

\* A step of the job publishes what it changes: it changes nothing that is seen,
\* or leaves the change to be published, or publishes with a new revision.
LEMMA PublishStep ==
    ASSUME TypeOK, SpawnInv, [Next]_vars
    PROVE  \/ state' = state /\ revision' = revision /\ (Unpublished => Unpublished')
           \/ revision' = revision /\ Unpublished'
           \/ state' = state /\ revision' = revision + 1
<1> USE DEF Unpublished, Bump
<1>0. canceler \in [Cancelers -> CancelerPlaces]
    BY DEF TypeOK
<1>1. CASE Launch
    BY <1>1 DEF Launch, LaunchSpawn, LaunchCheck, LaunchInstall, LaunchRecheck, LaunchAbort,
                jobVars, workVars, SpawnInv
<1>2. CASE Worker
    BY <1>2 DEF Worker, MarkRunning, RunBump, RunNotify, Execute, Complete, CompleteTake,
                CompleteBump, CompleteNotify, Aborted, jobVars
<1>3. ASSUME NEW c \in Cancelers, CancelLock(c) \/ CancelTake(c)
      PROVE  revision' = revision /\ (Unpublished' \/ (state' = state /\ canceler'[c] = "over"
                                       /\ worker' = worker /\ canceler[c] = "idle"
                                       /\ canceler' = [canceler EXCEPT ![c] = "over"]))
    BY <1>0, <1>3 DEF CancelLock, CancelTake, workVars
<1>4. ASSUME NEW c \in Cancelers, CancelBump(c) PROVE state' = state /\ revision' = revision + 1
    BY <1>4 DEF CancelBump
<1>5. ASSUME NEW c \in Cancelers, CancelNotify(c)
      PROVE  /\ state' = state /\ revision' = revision /\ worker' = worker
             /\ canceler[c] = "notify" /\ canceler' = [canceler EXCEPT ![c] = "over"]
    BY <1>5 DEF CancelNotify, jobVars, workVars
<1>6. ASSUME NEW c \in Cancelers, canceler[c] \notin {"take", "bump"}, worker' = worker,
             canceler' = [canceler EXCEPT ![c] = "over"]
      PROVE  Unpublished => Unpublished'
    BY <1>0, <1>6
<1>7. ASSUME NEW w \in Waiters, StatusBegin(w) \/ Wait(w) \/ WaitTimeout(w)
      PROVE  UNCHANGED <<jobVars, workVars, canceler>>
    BY <1>7 DEF Wait, StatusBegin, ReadRevision, CloneSnapshot, RereadRevision,
                JobStatusRevision, FirstCheck,
                CreateNotified, SecondCheck, WakeUp, Answer, WaitTimeout
<1>8. CASE UNCHANGED <<jobVars, workVars, canceler>>
    BY <1>8 DEF jobVars, workVars
<1>9. CASE UNCHANGED vars
    BY <1>8, <1>9 DEF vars
<1>10. ASSUME NEW c \in Cancelers, CancelLock(c) \/ Cancel(c)
       PROVE \/ state' = state /\ revision' = revision /\ (Unpublished => Unpublished')
             \/ revision' = revision /\ Unpublished'
             \/ state' = state /\ revision' = revision + 1
    BY <1>3, <1>4, <1>5, <1>6, <1>10 DEF Cancel
<1> QED BY <1>1, <1>2, <1>7, <1>8, <1>9, <1>10 DEF Next

\* A request that does not move keeps what it knows, whatever the job does.
LEMMA StillKnows ==
    ASSUME TypeOK, SpawnInv, SeenInv, [Next]_vars, NEW w \in Waiters,
           waiter'[w] = waiter[w], mode'[w] = mode[w], seen'[w] = seen[w],
           seenRev'[w] = seenRev[w], readRev'[w] = readRev[w]
    PROVE  Knows(w)'
<1> USE DEF Knows
<1>1. revision \in Nat /\ readRev[w] \in Nat /\ seenRev[w] \in Nat
    BY DEF TypeOK
<1>2. CASE state' = state /\ revision' = revision /\ (Unpublished => Unpublished')
    BY <1>2 DEF SeenInv
<1>3. CASE revision' = revision /\ Unpublished'
    BY <1>3 DEF SeenInv
<1>4. CASE state' = state /\ revision' = revision + 1
    BY <1>1, <1>4 DEF SeenInv
<1> QED BY <1>2, <1>3, <1>4, PublishStep

\* A request that moves pairs the state it holds with the right revision.
LEMMA MovesAndKnows ==
    ASSUME TypeOK, SeenInv, NEW w \in Waiters, StatusBegin(w) \/ Wait(w) \/ WaitTimeout(w)
    PROVE  Knows(w)'
<1> USE DEF Knows
<1>1. /\ revision \in Nat
      /\ waiter \in [Waiters -> WaiterPlaces] /\ seen \in [Waiters -> States]
      /\ readRev \in [Waiters -> Nat] /\ seenRev \in [Waiters -> Nat]
    BY DEF TypeOK
<1>2. UNCHANGED <<state, revision, worker, canceler, mode>>
    BY DEF Wait, StatusBegin, ReadRevision, CloneSnapshot, RereadRevision,
           JobStatusRevision, FirstCheck,
           CreateNotified, SecondCheck, WakeUp, Answer, WaitTimeout, jobVars, workVars
<1>3. Unpublished' <=> Unpublished
    BY <1>2 DEF Unpublished
<1>4. Knows(w)
    BY DEF SeenInv
<1>5. CASE StatusBegin(w)
    BY <1>1, <1>2, <1>5 DEF StatusBegin, LookAgain
<1>6. CASE ReadRevision(w)
    BY <1>1, <1>2, <1>6 DEF ReadRevision
<1>7. CASE CloneSnapshot(w)
    BY <1>1, <1>2, <1>4, <1>7 DEF CloneSnapshot
<1>8. CASE RereadRevision(w)
    BY <1>1, <1>2, <1>3, <1>4, <1>8 DEF RereadRevision
<1>9. CASE FirstCheck(w)
    BY <1>1, <1>2, <1>3, <1>4, <1>9 DEF FirstCheck, Updated, LookAgain
<1>10. CASE CreateNotified(w)
    BY <1>1, <1>2, <1>3, <1>4, <1>10 DEF CreateNotified
<1>11. CASE SecondCheck(w)
    BY <1>1, <1>2, <1>3, <1>4, <1>11 DEF SecondCheck, Updated, LookAgain
<1>12. CASE WakeUp(w)
    BY <1>1, <1>2, <1>12 DEF WakeUp, Updated, LookAgain
<1>13. CASE WaitTimeout(w)
    BY <1>1, <1>2, <1>3, <1>4, <1>13 DEF WaitTimeout
<1>14. CASE Answer(w)
    BY <1>1, <1>2, <1>14 DEF Answer
<1>15. CASE JobStatusRevision(w)
    BY <1>1, <1>2, <1>15 DEF JobStatusRevision
<1> QED
    BY <1>5, <1>6, <1>7, <1>8, <1>9, <1>10, <1>11, <1>12, <1>13, <1>14, <1>15
    DEF Wait

\* Only a request itself moves it.
LEMMA OthersStay ==
    ASSUME TypeOK, [Next]_vars, NEW w \in Waiters,
           ~(StatusBegin(w) \/ Wait(w) \/ WaitTimeout(w))
    PROVE  /\ waiter'[w] = waiter[w] /\ mode'[w] = mode[w] /\ seen'[w] = seen[w]
           /\ seenRev'[w] = seenRev[w] /\ readRev'[w] = readRev[w]
<1>1. CASE UNCHANGED waitVars
    BY <1>1 DEF waitVars
<1>2. CASE Launch
    BY <1>1, <1>2 DEF Launch, LaunchSpawn, LaunchCheck, LaunchInstall, LaunchRecheck, LaunchAbort
<1>3. CASE Worker
    BY <1>1, <1>3 DEF Worker, MarkRunning, RunBump, RunNotify, Execute, Complete, CompleteTake,
                CompleteBump, CompleteNotify, Aborted
<1>4. ASSUME NEW c \in Cancelers, CancelLock(c) \/ Cancel(c) PROVE UNCHANGED waitVars
    BY <1>4 DEF CancelLock, Cancel, CancelTake, CancelBump, CancelNotify
<1>5. ASSUME NEW v \in Waiters, v # w, StatusBegin(v) \/ Wait(v) \/ WaitTimeout(v)
      PROVE  /\ waiter'[w] = waiter[w] /\ mode'[w] = mode[w] /\ seen'[w] = seen[w]
             /\ seenRev'[w] = seenRev[w] /\ readRev'[w] = readRev[w]
  <2>1. /\ waiter \in [Waiters -> WaiterPlaces] /\ seen \in [Waiters -> States]
        /\ readRev \in [Waiters -> Nat] /\ seenRev \in [Waiters -> Nat]
      BY DEF TypeOK
  <2> QED
      BY <1>5, <2>1
      DEF Wait, StatusBegin, ReadRevision, CloneSnapshot, RereadRevision,
          JobStatusRevision, FirstCheck,
          CreateNotified, SecondCheck, WakeUp, Answer, WaitTimeout, Updated
<1>6. CASE UNCHANGED vars
    BY <1>6 DEF vars
<1> QED BY <1>1, <1>2, <1>3, <1>4, <1>5, <1>6 DEF Next

\* Between snapshot_with_revision and wait_for_update_since no update is lost.
THEOREM NothingMissed == Spec => []NoMissedUpdate
<1>1. Init => SeenInv
    BY DEF Init, SeenInv, Knows
<1>2. TypeOK /\ SpawnInv /\ SeenInv /\ [Next]_vars => SeenInv'
  <2> SUFFICES ASSUME TypeOK, SpawnInv, SeenInv, [Next]_vars, NEW w \in Waiters
      PROVE  Knows(w)'
      BY DEF SeenInv
  <2>1. CASE StatusBegin(w) \/ Wait(w) \/ WaitTimeout(w)
      BY <2>1, MovesAndKnows
  <2>2. CASE ~(StatusBegin(w) \/ Wait(w) \/ WaitTimeout(w))
      BY <2>2, OthersStay, StillKnows
  <2> QED BY <2>1, <2>2
<1>3. TypeOK /\ SeenInv => NoMissedUpdate
    BY DEF SeenInv, Knows, NoMissedUpdate
<1> QED BY <1>1, <1>2, <1>3, TypeCorrect, SpawnFirst, PTL DEF Spec
=============================================================================

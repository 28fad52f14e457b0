-------------------------- MODULE QueryJobRegistry --------------------------
(***************************************************************************)
(* The table of asynchronous jobs (QueryJobRegistry of src/server.rs): it  *)
(* is bounded, drops ended jobs when their time is up or when room is      *)
(* needed, and refuses a new job when every entry is live.                 *)
(*                                                                         *)
(* Every operation runs under the registry's mutex, so each is one step.   *)
(* A job is live until its promise (JobPromise) ends; what it does before  *)
(* is QueryJobHandle's matter. Times are unix_time_ms, a wall clock that   *)
(* may be set back.                                                        *)
(***************************************************************************)
EXTENDS Naturals, FiniteSets

CONSTANTS
    MaxEntries,  \* max_entries
    Ttl,         \* terminal_ttl
    MaxJobs,     \* bound: jobs created in a behaviour
    MaxTime      \* bound: the clock's range

ASSUME LimitsAccepted ==
    /\ MaxEntries \in Nat \ {0} /\ Ttl \in Nat \ {0}
    /\ MaxJobs \in Nat /\ MaxTime \in Nat

VARIABLES
    jobs,     \* the keys of the table
    nextId,   \* next_id
    state,    \* "unborn", "live" or "ended" of every job id
    endedAt,  \* finished_at_unix_ms
    now       \* unix_time_ms()

registryVars == <<jobs, nextId, state, endedAt, now>>

Ids == 1..MaxJobs

RegistryTypeOK ==
    /\ jobs \subseteq Ids
    /\ nextId \in 1..(MaxJobs + 1)
    /\ state \in [Ids -> {"unborn", "live", "ended"}]
    /\ endedAt \in [Ids -> 0..MaxTime]
    /\ now \in 0..MaxTime

RegistryInit ==
    /\ jobs = {}
    /\ nextId = 1
    /\ state = [j \in Ids |-> "unborn"]
    /\ endedAt = [j \in Ids |-> 0]
    /\ now = 0

-----------------------------------------------------------------------------

Ended(js) == {j \in js : state[j] = "ended"}

\* now_unix_ms.saturating_sub(finished_at) > ttl.
Expired(j) == now > endedAt[j] + Ttl

\* Mutant: the age of every entry is asked, live ones included.
PruneAll(js) == {j \in js : ~Expired(j)}

\* prune_terminal_jobs_locked.
Pruned(js) == {j \in js : state[j] = "live" \/ ~Expired(j)}

\* Mutant: max_by_key.
NewestEnded(js) == {j \in Ended(js) : \A k \in Ended(js) : endedAt[j] >= endedAt[k]}

\* The candidates of evict_oldest_terminal_job_locked; a tie is broken by the
\* order of the hash map.
OldestEnded(js) == {j \in Ended(js) : \A k \in Ended(js) : endedAt[j] <= endedAt[k]}

HasRoom(js) == Cardinality(js) < MaxEntries

\* create_internal: prune, evict one if the table is full, insert.
Create ==
    /\ nextId <= MaxJobs
    /\ \/ /\ HasRoom(Pruned(jobs))
          /\ jobs' = Pruned(jobs) \cup {nextId}
       \/ /\ ~HasRoom(Pruned(jobs))
          /\ \E old \in OldestEnded(Pruned(jobs)) :
                jobs' = (Pruned(jobs) \ {old}) \cup {nextId}
    /\ nextId' = nextId + 1
    /\ state' = [state EXCEPT ![nextId] = "live"]
    /\ UNCHANGED <<endedAt, now>>

\* QUERY_JOB_CAPACITY_REACHED: nothing to evict.
Refuse ==
    /\ ~HasRoom(Pruned(jobs)) /\ Ended(Pruned(jobs)) = {}
    /\ jobs' = Pruned(jobs)
    /\ UNCHANGED <<nextId, state, endedAt, now>>

\* get and list_tasks prune as they look.
Look ==
    /\ jobs' = Pruned(jobs)
    /\ UNCHANGED <<nextId, state, endedAt, now>>

\* The job completes or is canceled, through its handle alone.
End(j) ==
    /\ state[j] = "live"
    /\ state' = [state EXCEPT ![j] = "ended"]
    /\ endedAt' = [endedAt EXCEPT ![j] = now]
    /\ UNCHANGED <<jobs, nextId, now>>

\* The wall clock advances or is set back.
ClockMoves ==
    /\ now' \in {n \in 0..MaxTime : n = now + 1 \/ n < now}
    /\ UNCHANGED <<jobs, nextId, state, endedAt>>

RegistryNext ==
    \/ Create \/ Refuse \/ Look
    \/ \E j \in Ids : End(j)
    \/ ClockMoves

RegistrySpec == RegistryInit /\ [][RegistryNext]_registryVars

-----------------------------------------------------------------------------

\* The table never grows past its limit, whatever the clock does.
CapacityHolds == Cardinality(jobs) <= MaxEntries

\* A live job can always be found: neither age nor pressure removes the entry its
\* clients poll and cancel it by.
LiveJobsStay == \A j \in Ids : state[j] = "live" => j \in jobs

\* Neither the limit nor a live job is given up for the other: a table full of live jobs
\* refuses (create_internal).
FullTableIsSafe == CapacityHolds /\ LiveJobsStay

\* An ended job that has not expired is given up only when the table is full, only
\* one at a time, and only if no older one is kept.
EvictionIsFair ==
    [][ LET dropped == {j \in jobs \ jobs' : ~Expired(j)} IN
          /\ Cardinality(dropped) <= 1
          /\ \A j \in dropped :
                /\ Cardinality(jobs') = MaxEntries
                /\ \A k \in Ended(jobs \cap jobs') : endedAt[j] <= endedAt[k] ]_registryVars
=============================================================================

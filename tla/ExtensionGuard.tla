--------------------------- MODULE ExtensionGuard ---------------------------
(* Whether a PostgreSQL extension is there (src/tools.rs, src/server.rs): a *)
(* tool that needs one asks a cache of failures, then a guard that lets one *)
(* caller at a time look into the database while the others wait; a         *)
(* statement that fails for want of the extension looks again.              *)
(*                                                                         *)
(* The guard is a library's: it keeps the time of the last success and      *)
(* whether a refresh is in flight. The DBA may drop or create the extension *)
(* at any moment. Time is kept as what is left; steps that await nothing    *)
(* take none, and a query is over by its timeout.                           *)
EXTENDS Integers, Sequences

CONSTANTS
    Callers,
    GuardTtl,        \* EXTENSION_GUARD_TTL
    UnavailableTtl,  \* EXTENSION_UNAVAILABLE_TTL
    Attempts,        \* EXTENSION_REFRESH_WAIT_ATTEMPTS
    QueryTimeout,    \* how long a query of a probe may take
    Changes          \* bound on what the DBA does
ASSUME TimesAssumption == {GuardTtl, UnavailableTtl, QueryTimeout} \subseteq Nat

VARIABLES
    installed,   \* in the database
    changes,     \* changes of the DBA that are left
    missedAgo,   \* history: ticks since the extension was last missing, capped
    success,     \* the guard: what is left of its last success
    refreshing,  \* the guard: whether a refresh is in flight, "no", "yes" or "orphaned"
    unavailable, \* the cache: what is left of its entry
    pc,          \* where each caller is
    seen,        \* what its probe found
    rounds,      \* loops of ensure_extension_ready, and waits in the latest
    left,        \* time left for its query
    result       \* its answer
guardVars == <<installed, changes, missedAgo, success, refreshing, unavailable>>
callVars == <<pc, seen, rounds, left, result>>
allVars == <<guardVars, callVars>>

Long == UnavailableTtl + 2 * QueryTimeout + 1   \* the cap of missedAgo

GuardInit ==
    /\ installed \in BOOLEAN /\ changes = Changes
    /\ missedAgo = IF installed THEN Long ELSE 0
    /\ success = 0 /\ refreshing = "no" /\ unavailable = 0
    /\ pc = [c \in Callers |-> "idle"] /\ seen = [c \in Callers |-> "nothing"]
    /\ rounds = [c \in Callers |-> <<0, 0>>] /\ left = [c \in Callers |-> 0]
    /\ result = [c \in Callers |-> "none"]

\* Where a caller's probe waits for the database.
Probing == {"probe", "probe_read", "probe_available"}
ProbingAgain == {"again", "again_read", "again_available"}

Goto(c, place) == pc' = [pc EXCEPT ![c] = place]
Answers(c, answer) == Goto(c, "answered") /\ result' = [result EXCEPT ![c] = answer]

\* A readied caller forgets an old failure: extension_unavailable_cache.clear.
Readied(c) == Goto(c, "ready") /\ unavailable' = 0 /\ UNCHANGED result

\* Mutant: a hit makes the entry new again.
CachedAndRenewed(c) ==
    /\ unavailable > 0
    /\ unavailable' = UnavailableTtl + 1
    /\ Answers(c, "unavailable")

\* ExtensionUnavailableCache::get_fresh finds an entry.
Cached(c) ==
    /\ unavailable > 0
    /\ Answers(c, "unavailable")
    /\ UNCHANGED unavailable

\* ensure_extension_ready: the cache first.
Ensure(c) ==
    /\ pc[c] = "ensure"
    /\ \/ Cached(c)
       \/ unavailable = 0 /\ Goto(c, "begin") /\ UNCHANGED <<unavailable, result>>
    /\ rounds' = [rounds EXCEPT ![c] = <<1, 0>>]
    /\ UNCHANGED <<installed, changes, missedAgo, success, refreshing, seen, left>>

\* CapabilityGuard::begin_refresh: of those who find no success one refreshes, the others wait.
Begin(c) ==
    /\ pc[c] = "begin"
    /\ \/ success > 0 /\ Readied(c) /\ UNCHANGED <<refreshing, left>>
       \/ /\ success = 0 /\ refreshing = "no"
          /\ refreshing' = "yes" /\ Goto(c, "probe")
          /\ left' = [left EXCEPT ![c] = QueryTimeout] /\ UNCHANGED <<unavailable, result>>
       \/ /\ success = 0 /\ refreshing # "no"
          /\ Goto(c, "wait") /\ UNCHANGED <<refreshing, left, unavailable, result>>
    /\ UNCHANGED <<installed, changes, missedAgo, success, seen, rounds>>

\* probe_extension_status: pg_extension is read when the first query executes, while its time runs;
\* the answer may come any time later ...
Look(c, at, read) ==
    /\ pc[c] = at
    /\ seen' = [seen EXCEPT ![c] = IF installed THEN "installed" ELSE "missing"]
    /\ Goto(c, read)
    /\ UNCHANGED <<guardVars, rounds, left, result>>

\* ... and if it is not there, pg_available_extensions is asked next.
Probe(c, read, available, then) ==
    /\ pc[c] = read
    /\ \/ seen[c] = "installed" /\ Goto(c, then) /\ UNCHANGED left
       \/ seen[c] = "missing" /\ Goto(c, available) /\ left' = [left EXCEPT ![c] = QueryTimeout]
    /\ UNCHANGED <<guardVars, seen, rounds, result>>
ProbeAvailable(c, available, then) ==
    /\ pc[c] = available
    /\ Goto(c, then)
    /\ UNCHANGED <<guardVars, seen, rounds, left, result>>

\* Either query may fail, before or after it executed.
ProbeFails(c, places, then) ==
    /\ pc[c] \in places
    /\ seen' = [seen EXCEPT ![c] = "failed"] /\ Goto(c, then)
    /\ UNCHANGED <<guardVars, rounds, left, result>>

\* Mutant: the error of a failed probe is returned before the refresh is completed.
CompletesUnlessFailed(c) ==
    /\ success' = IF seen[c] = "installed" THEN GuardTtl ELSE success
    /\ refreshing' = IF seen[c] = "failed" THEN refreshing ELSE "no"
Completes(c) ==
    /\ success' = IF seen[c] = "installed" THEN GuardTtl ELSE success
    /\ refreshing' = "no"

\* refresh_extension_status, after the probe: complete_refresh.
Complete(c) ==
    /\ pc[c] = "complete"
    /\ Completes(c)
    /\ Goto(c, "note")
    /\ UNCHANGED <<installed, changes, missedAgo, unavailable, seen, rounds, left, result>>

\* ... and the cache. A failed probe leaves no trace there.
Note(c) ==
    /\ pc[c] = "note"
    /\ \/ seen[c] = "installed" /\ Readied(c)
       \/ seen[c] = "missing" /\ Answers(c, "unavailable") /\ unavailable' = UnavailableTtl + 1
       \/ seen[c] = "failed" /\ Answers(c, "check_failed") /\ UNCHANGED unavailable
    /\ UNCHANGED <<installed, changes, missedAgo, success, refreshing, seen, rounds, left>>

\* wait_for_refresh_outcome, each time it looks: a success sends the caller back to the guard,
\* and so does waiting for nothing. The second time that is the end.
Wait(c) ==
    /\ pc[c] = "wait"
    /\ LET looks == rounds[c][2] < Attempts
           back == /\ rounds' = [rounds EXCEPT ![c] = <<@[1] + 1, 0>>]
                   /\ Goto(c, IF rounds[c][1] = 1 THEN "begin" ELSE "last") /\ UNCHANGED result
       IN  \/ looks /\ success > 0 /\ back /\ unavailable' = 0
           \/ looks /\ success = 0 /\ Cached(c) /\ UNCHANGED rounds
           \/ /\ looks /\ success = 0 /\ unavailable = 0
              /\ rounds' = [rounds EXCEPT ![c][2] = @ + 1] /\ UNCHANGED <<unavailable, pc, result>>
           \/ ~looks /\ back /\ UNCHANGED unavailable
    /\ UNCHANGED <<installed, changes, missedAgo, success, refreshing, seen, left>>

\* ensure_extension_ready, when two waits brought nothing.
LastLook(c) ==
    /\ pc[c] = "last"
    /\ \/ success > 0 /\ Readied(c)
       \/ success = 0 /\ Cached(c)
       \/ success = 0 /\ unavailable = 0 /\ Answers(c, "in_progress") /\ UNCHANGED unavailable
    /\ UNCHANGED <<installed, changes, missedAgo, success, refreshing, seen, rounds, left>>

\* The statement that needs the extension: "then" is where the tool goes on.
Use(c, then) ==
    /\ pc[c] = "ready"
    /\ \/ installed /\ Goto(c, then) /\ UNCHANGED <<success, left, result>>
       \/ /\ ~installed /\ Goto(c, "again") /\ success' = 0
          /\ left' = [left EXCEPT ![c] = QueryTimeout] /\ UNCHANGED result
       \/ Answers(c, "error") /\ UNCHANGED <<success, left>>
    /\ UNCHANGED <<installed, changes, missedAgo, refreshing, unavailable, seen, rounds>>

\* recheck_extension_after_runtime_error, after invalidate (in Use) and its probe.
Recheck(c) ==
    /\ pc[c] = "recheck"
    /\ \/ /\ seen[c] = "installed"
          /\ success' = GuardTtl /\ unavailable' = 0 /\ Answers(c, "error")
       \/ /\ seen[c] = "missing"
          /\ Answers(c, "unavailable") /\ unavailable' = UnavailableTtl + 1 /\ UNCHANGED success
       \/ seen[c] = "failed" /\ Answers(c, "check_failed") /\ UNCHANGED <<success, unavailable>>
    /\ UNCHANGED <<installed, changes, missedAgo, refreshing, seen, rounds, left>>

\* The caller's task is canceled and its probe dropped: its refresh stays in flight, for nothing
\* completes it (refresh_extension_status has no guard that does on drop).
Abort(c) ==
    /\ pc[c] \in Probing
    /\ refreshing' = "orphaned"
    /\ Answers(c, "aborted")
    /\ UNCHANGED <<installed, changes, missedAgo, success, unavailable, seen, rounds, left>>

GuardStep(c) ==
    \/ Ensure(c) \/ Begin(c) \/ Complete(c) \/ Note(c) \/ Wait(c) \/ LastLook(c) \/ Recheck(c)
    \/ Look(c, "probe", "probe_read") \/ Probe(c, "probe_read", "probe_available", "complete")
    \/ ProbeAvailable(c, "probe_available", "complete") \/ ProbeFails(c, Probing, "complete")
    \/ Look(c, "again", "again_read") \/ Probe(c, "again_read", "again_available", "recheck")
    \/ ProbeAvailable(c, "again_available", "recheck") \/ ProbeFails(c, ProbingAgain, "recheck")

\* The DBA drops or creates the extension.
Change ==
    /\ changes > 0 /\ changes' = changes - 1
    /\ installed' = ~installed /\ missedAgo' = 0
    /\ UNCHANGED <<success, refreshing, unavailable, callVars>>

\* Time passes when nobody has a step that takes none: places where a caller awaits something.
Querying == Probing \cup ProbingAgain
Awaits == {"idle", "ready", "wait"} \cup Querying
Less(n) == IF n > 0 THEN n - 1 ELSE 0
TimePasses(places) ==
    /\ \A c \in Callers : pc[c] \in places /\ (pc[c] \in Querying => left[c] > 0)
    /\ success' = Less(success) /\ unavailable' = Less(unavailable)
    /\ left' = [c \in Callers |-> Less(left[c])]
    /\ missedAgo' = IF ~installed THEN 0 ELSE IF missedAgo < Long THEN missedAgo + 1 ELSE Long
    /\ UNCHANGED <<installed, changes, refreshing, pc, seen, rounds, result>>
=============================================================================

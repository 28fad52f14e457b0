------------------------------ MODULE QueryFlow ------------------------------
(***************************************************************************)
(* SQL tool calls from their arguments to their answers: execute_sql and   *)
(* query_start (src/tools/query.rs), query_sql, query_tuples, render_sql   *)
(* and admin_sql (src/tools/query_surface.rs), the statements that         *)
(* src/db.rs sends for them, on a connection of their own or on a pinned   *)
(* session, and a client that follows the pages.                           *)
(*                                                                         *)
(* The database is one table whose rows are known by the order they were   *)
(* inserted in: each is there, open while the session's transaction that   *)
(* wrote it is, or gone. A statement lasts one of Durations. What can go   *)
(* wrong, the rows of others, the session's end and a client that mixes    *)
(* its calls all count against the client's events.                        *)
(***************************************************************************)
EXTENDS QueryResponse, SequencesExt

CONSTANTS
    Starts,     \* [e, reachable, missing]: environments, and the database found
    Clients,    \* [requests, calls, events]: the calls a client makes, and the two bounds: calls
                \* that follow no cursor, and disturbances
    Base,       \* rows in the table at first
    Durations   \* how long a statement may take, in seconds

ASSUME BaseKnown == Base \in Nat
ASSUME DurationsKnown == Durations \subseteq Nat

\* A timeout or a page size that did not parse refuses the start; "sparse" is no output mode.
ASSUME StartsKnown ==
    \A s \in Starts :
        Serves(s.e, s.reachable, s.missing) =>
            /\ ServerOf(s.e, s.missing).request \in Nat
            /\ ServerOf(s.e, s.missing).pageSize \in Nat \ {0}
            /\ ServerOf(s.e, s.missing).output # "sparse"

\* The arguments have the types that their JSON schema gives them.
ASSUME RequestsKnown ==
    \A c \in Clients : \A r \in c.requests :
        /\ r.tool \in {"execute_sql", "query_start", "admin_sql"} \cup ReadTools
        /\ r.timeout = <<>> \/ Head(r.timeout) \in Nat
        /\ r.rows = <<>> \/ Head(r.rows) \in Nat
        /\ r.count = <<>> \/ Head(r.count) \in {"none", "exact", "estimated", "async"}
        /\ r.verbosity = <<>> \/ Head(r.verbosity) \in {"full", "standard", "compact"}
        /\ r.output = <<>> \/ Head(r.output) # "sparse"

VARIABLES
    client,   \* which client it is
    server,   \* what the handlers read of the settings, once it is up
    rows,     \* the table
    session,  \* the pinned session: none, idle, open, aborted, lost (driver_failed) or gone
    call,     \* the call in progress
    reply,    \* the last answer
    paging,   \* the pages the client is following
    acked,    \* rows whose INSERT was answered: in the open transaction, and for good
    writes,   \* what the server's statements wrote: [tool, statement]
    orphans,  \* statements given up that still run
    calls, events

vars == <<client, server, rows, session, call, reply, paging, acked, writes, orphans, calls, events>>

dbVars == <<rows, session, writes, orphans>>
clientVars == <<reply, paging, acked>>

Idle == [at |-> "idle"]
NoPaging == [state |-> "none"]

Init ==
    /\ client \in Clients /\ server = [up |-> FALSE]
    /\ rows = [i \in 1..Base |-> "there"]
    /\ session = "none" /\ call = Idle /\ reply = [ok |-> FALSE] /\ paging = NoPaging
    /\ acked = [open |-> {}, kept |-> {}] /\ writes = {} /\ orphans = {}
    /\ calls = 0 /\ events = 0

Event == events < client.events /\ events' = events + 1
NoEvent == events' = events

-----------------------------------------------------------------------------
(* The database.                                                           *)

\* The numbers of a set, from the least to the greatest.
InOrder(set) ==
    [i \in 1..Cardinality(set) |-> CHOOSE k \in set : Cardinality({j \in set : j <= k}) = i]

\* The rows a query sees, on the pinned session or on a connection of its own.
Seen(onSession) == {i \in DOMAIN rows : rows[i] = "there" \/ (onSession /\ rows[i] = "open")}

\* Two queries over the table: by age and the other way round.
Result(sql, onSession) ==
    IF sql = "newest" THEN Reverse(InOrder(Seen(onSession))) ELSE InOrder(Seen(onSession))

Inserts(statement) == CASE statement = "insert" -> 1 [] statement = "script" -> 2 [] OTHER -> 0

\* The transaction block ends, and its rows go or stay.
Ended(as) == [i \in DOMAIN rows |-> IF rows[i] = "open" THEN as ELSE rows[i]]
Closed == Ended("gone")

\* A statement's effect, and the transaction block after it. COMMIT of an aborted block
\* rolls it back and is no error.
RowsAfter(statement, onSession) ==
    IF onSession /\ (statement = "rollback" \/ session = "aborted") THEN Closed
    ELSE IF onSession /\ statement = "commit" THEN Ended("there")
    ELSE rows \o [i \in 1..Inserts(statement) |-> IF onSession /\ session = "open" THEN "open" ELSE "there"]

BlockAfter(statement, onSession) ==
    CASE ~onSession -> session
      [] onSession /\ statement = "begin" -> "open"
      [] onSession /\ statement \in {"commit", "rollback"} -> "idle"
      [] OTHER -> session

TakesEffect(statement, onSession, tool) ==
    /\ rows' = RowsAfter(statement, onSession)
    /\ session' = BlockAfter(statement, onSession)
    /\ writes' = IF Writes(statement) THEN writes \cup {[tool |-> tool, statement |-> statement]} ELSE writes

\* A statement that fails in an open block aborts it.
HasNone(onSession) ==
    /\ session' = IF onSession /\ session = "open" THEN "aborted" ELSE session
    /\ rows' = IF session' = "aborted" THEN Closed ELSE rows
    /\ writes' = writes

-----------------------------------------------------------------------------
(* One statement of a call: execute_sql_with_optional_session and          *)
(* describe_sql_with_optional_session, and src/db.rs below them. Effect is *)
(* what it does besides reading.                                           *)

OnSession == call.request.session
ReadOnly == server.access = "restricted"

\* A pinned session that is unknown, or that the classifier, the driver's end or the
\* statements that set its budget refuse before the statement is sent.
NotFound == OnSession /\ session \in {"none", "gone"}
Refuses == ReadOnly /\ ~ReadSafe(call.request.statement)
BudgetFails == OnSession /\ session = "aborted"

\* Mutant: a pinned session whose connection is lost gets a new one without a word.
Reconnects == NotFound \/ Refuses \/ BudgetFails

Unsent == NotFound \/ Refuses \/ BudgetFails \/ (OnSession /\ session = "lost")

\* The call that finds the driver gone closes the session.
Unanswered ==
    /\ Unsent
    /\ session' = IF OnSession /\ session = "lost" /\ ~Refuses THEN "gone" ELSE session
    /\ NoEvent /\ UNCHANGED <<rows, writes, orphans>>

Lasts(effect, duration, budget) ==
    (IF effect = "script" THEN 2 ELSE 1) * Least(duration, budget.statement)

\* The client stops waiting. Nobody cancels the statement: on a connection of its own it may
\* end later; on the session whatever is sent next waits for it.
GivenUp(effect) ==
    IF OnSession THEN orphans' = orphans /\ (TakesEffect(effect, TRUE, call.request.tool) \/ HasNone(TRUE))
    ELSE /\ orphans' = IF Writes(effect)
                       THEN orphans \cup {[statement |-> effect, tool |-> call.request.tool,
                                           timeout |-> call.settings.timeout]}
                       ELSE orphans
         /\ UNCHANGED <<rows, session, writes>>

\* The connection breaks: an open block is rolled back, a statement on a connection of its
\* own may have ended before (execute_internal asks the driver after the result).
Broken(effect) ==
    IF OnSession
    THEN session' = "lost" /\ rows' = Closed /\ writes' = writes
    ELSE TakesEffect(effect, FALSE, call.request.tool) \/ HasNone(FALSE)

\* Mutant: the classifier alone keeps a restricted server from writing.
NothingForbidden(effect) == FALSE

\* BEGIN TRANSACTION READ ONLY or default_transaction_read_only let nothing be written.
Forbidden(effect) == ReadOnly /\ Writes(effect)

Statement(effect, Succeeds, Fails) ==
    LET budget == Budget(call.settings.timeout, server)
    IN  \/ Unanswered /\ Fails
        \/ /\ ~Unsent
           /\ \E duration \in Durations :
                LET ends == duration <= budget.statement
                    answered == Lasts(effect, duration, budget) <= budget.request
                IN  /\ IF duration = 1 THEN NoEvent ELSE Event
                    /\ \/ /\ answered /\ ends /\ ~Forbidden(effect)
                          /\ TakesEffect(effect, OnSession, call.request.tool)
                          /\ orphans' = orphans /\ Succeeds
                       \/ /\ answered /\ (~ends \/ Forbidden(effect))
                          /\ HasNone(OnSession) /\ orphans' = orphans /\ Fails
                       \/ ~answered /\ ~Forbidden(effect) /\ GivenUp(effect) /\ Fails
        \/ /\ ~Unsent /\ Event /\ orphans' = orphans
           /\ HasNone(OnSession) \/ (~Forbidden(effect) /\ Broken(effect))
           /\ Fails

-----------------------------------------------------------------------------
(* A call.                                                                 *)

\* What each tool refuses before it asks the database. describe_only is answered before the
\* gates of execute_sql; the read tools decode their cursor after the preflight.
ExecuteRefuses(r, cursor) ==
    \/ TimeoutRefused(ExecuteSettings(r, server).timeout)
    \/ r.describe /\ CursorRefused(r, cursor)
    \/ /\ ~r.describe
       /\ \/ server.role = "runtime" /\ RuntimeBlocked(r.statement)
          \/ server.degraded /\ ~ReadSafe(r.statement)
          \/ CursorRefused(r, cursor)
          \/ ExecuteSettings(r, server).preflight /\ r.statement = "script"

QueryStartRefuses(r, cursor) ==
    r.session \/ TimeoutRefused(r.timeout) \/ ~ReadSafe(r.statement) \/ CursorRefused(r, cursor)

AdminRefuses(r) == server.admin # TRUE \/ TimeoutRefused(r.timeout) \/ r.statement = "script"

ReadRefuses(r, cursor) ==
    \/ ~ReadSafe(r.statement) \/ TimeoutRefused(r.timeout)
    \/ ~ReadSettings(r, server).preflight /\ CursorRefused(r, cursor)

RefusedAtOnce(r, cursor) ==
    CASE r.tool = "execute_sql" -> ExecuteRefuses(r, cursor)
      [] r.tool = "query_start" -> QueryStartRefuses(r, cursor) \/ ExecuteRefuses(r, cursor)
      [] r.tool = "admin_sql" -> AdminRefuses(r)
      [] r.tool \in ReadTools -> ReadRefuses(r, cursor)

\* Where a call is after its preflight.
Body(r, settings) ==
    IF ~SelectLike(r.statement) \/ r.tool = "admin_sql" THEN "run"
    ELSE CASE settings.count = "exact" -> "count"
           [] settings.count = "estimated" -> "estimate"
           [] settings.count \in {"none", "async"} -> "page"

FirstStage(r, settings) ==
    IF r.describe THEN "describe" ELSE IF settings.preflight THEN "preflight" ELSE Body(r, settings)

Answer(record) == call' = Idle /\ reply' = record
Error == Answer([ok |-> FALSE])

\* A client that gets an error for a page stops there.
PagingFails(follows) ==
    paging' = IF follows THEN [paging EXCEPT !.state = "failed"] ELSE paging

\* It forgets the rows of a block that is over.
Fails ==
    /\ Error /\ PagingFails(call.follows)
    /\ acked' = IF session' = "open" THEN acked ELSE [acked EXCEPT !.open = {}]

Call(r, cursor, follows) ==
    LET settings == Settings(r, server)
    IN  IF RefusedAtOnce(r, cursor)
        THEN Error /\ PagingFails(follows)
        ELSE /\ call' = [at |-> FirstStage(r, settings), request |-> r, cursor |-> cursor,
                         settings |-> settings, follows |-> follows, total |-> <<>>,
                         base |-> Result(r.sql, r.session), steady |-> TRUE]
             /\ UNCHANGED <<reply, paging>>

To(stage) == call' = [call EXCEPT !.at = stage] /\ UNCHANGED clientVars

\* The page itself, unless the read tools refuse the cursor.
ToBody ==
    IF call.request.tool \in ReadTools /\ CursorRefused(call.request, call.cursor)
    THEN Fails ELSE To(Body(call.request, call.settings))

Describe ==
    /\ call.at = "describe"
    /\ Statement("none", Answer([ok |-> TRUE, kind |-> "columns"]) /\ UNCHANGED <<paging, acked>>, Fails)
    /\ UNCHANGED <<client, server, calls>>

\* execute_sql stops only at an unknown table or column, the read tools at any error.
Preflight ==
    /\ call.at = "preflight"
    /\ \/ Statement("none", ToBody, Fails)
       \/ call.request.tool \notin ReadTools /\ ~NotFound /\ Statement("none", FALSE, ToBody)
    /\ UNCHANGED <<client, server, calls>>

\* Whether the rows that the query had when its first page was asked for are still its first.
Steady ==
    IsPrefix(IF call.follows THEN paging.base ELSE call.base, Result(call.request.sql, OnSession))

Counted(total) ==
    /\ call' = [call EXCEPT !.at = "page", !.total = <<total>>, !.steady = Steady]
    /\ UNCHANGED clientVars

\* Mutant: the count does not see the session's transaction.
CountOutside ==
    /\ call.at = "count"
    /\ Statement(call.request.statement, Counted(Len(Result(call.request.sql, FALSE))), Fails)
    /\ UNCHANGED <<client, server, calls>>

Count ==
    /\ call.at = "count"
    /\ Statement(call.request.statement, Counted(Len(Result(call.request.sql, OnSession))), Fails)
    /\ UNCHANGED <<client, server, calls>>

\* An estimate that fails is done without, unknown session or not.
Estimate ==
    /\ call.at = "estimate"
    /\ \/ Statement("none", To("page"), FALSE)
       \/ Statement("none", FALSE, /\ call' = [call EXCEPT !.at = "page", !.settings.count = "none"]
                                   /\ UNCHANGED clientVars)
    /\ UNCHANGED <<client, server, calls>>

-----------------------------------------------------------------------------
(* The page and what follows it.                                           *)

Fetched(from, limit) ==
    LET all == Result(call.request.sql, OnSession) IN SubSeq(all, from + 1, Least(from + limit, Len(all)))

Exact == call.settings.count = "exact"
Offset == OffsetOf(call.cursor)
FetchSize == IF Exact THEN call.settings.pageSize ELSE call.settings.pageSize + 1

NextOffset(fetched) ==
    IF Exact THEN NextOfCount(Offset, Len(fetched), Head(call.total))
    ELSE NextOfWindow(Offset, Len(fetched), call.settings.pageSize)

\* A count job is asked for with the first page only, and only there is room for it.
WantsJob == call.settings.count = "async" /\ Offset = 0

\* What the client does with a page: it starts to follow it, or goes on. It knows of the
\* next one if it is told its cursor.
Pages(page, cursor, jobs) ==
    paging' =
      IF call.follows
      THEN [paging EXCEPT !.seen = @ \o page, !.cursor = cursor, !.jobs = @ + jobs,
                          !.steady = @ /\ call.steady /\ Steady,
                          !.state = IF cursor = <<>> THEN "done" ELSE "open"]
      ELSE [state |-> IF cursor = <<>> THEN "done" ELSE "open", request |-> call.request,
            seen |-> page, cursor |-> cursor, jobs |-> jobs, base |-> call.base, counted |-> <<>>,
            steady |-> call.steady /\ Steady]

PageAnswer(granted) ==
    LET fetched == Fetched(Offset, FetchSize)
        page == SubSeq(fetched, 1, Least(Len(fetched), call.settings.pageSize))
        next == NextOffset(fetched)
        count == IF call.settings.count = "async" /\ ~granted THEN "none" ELSE call.settings.count
        has == (IF next = <<>> THEN {} ELSE {"next_cursor"})
               \cup (IF granted THEN {"row_count_job_id"} ELSE {})
               \cup (IF server.degraded THEN {"capabilities"} ELSE {})
        fields == Meta(call.settings, ModeOf(count), has)
    IN  /\ Answer([ok |-> TRUE, kind |-> "page", tool |-> call.request.tool, mode |-> ModeOf(count),
                   total |-> call.total, more |-> next # <<>>, job |-> granted, fields |-> fields,
                   request |-> call.request, base |-> call.base])
        /\ Pages(page,
                 IF "next_cursor" \in fields THEN Cursor(call.request, Head(next)) ELSE <<>>,
                 IF "row_count_job_id" \in fields THEN 1 ELSE 0)
        /\ acked' = acked

Page ==
    /\ call.at = "page"
    /\ Statement(call.request.statement, \E granted \in (IF WantsJob THEN BOOLEAN ELSE {FALSE}) : PageAnswer(granted), Fails)
    /\ UNCHANGED <<client, server, calls>>

\* Anything else runs as it is. admin_sql answers at most 200 rows of what it returns.
Run ==
    /\ call.at = "run"
    /\ LET statement == call.request.statement
           new == Len(rows)+1 .. Len(rows)+Inserts(statement)
       IN  Statement(statement,
                     /\ Answer([ok |-> TRUE, kind |-> "run"])
                     /\ paging' = paging
                     /\ acked' = IF OnSession /\ session = "open" /\ statement \notin {"commit", "rollback"}
                                 THEN [acked EXCEPT !.open = @ \cup new]
                                 ELSE [open |-> IF OnSession THEN {} ELSE acked.open,
                                       kept |-> acked.kept \cup new \cup
                                                (IF OnSession /\ statement = "commit" THEN acked.open ELSE {})],
                     Fails)
    /\ UNCHANGED <<client, server, calls>>

\* spawn_async_row_count_job: it counts on a connection of its own, whatever the page was on.
CountJob ==
    /\ paging.state # "none" /\ paging.jobs > Len(paging.counted)
    /\ \/ /\ ~(ReadOnly /\ Writes(paging.request.statement))
          /\ TakesEffect(paging.request.statement, FALSE, paging.request.tool)
          /\ paging' = [paging EXCEPT !.counted = Append(@, Len(Result(paging.request.sql, FALSE)))]
       \/ /\ ReadOnly /\ Writes(paging.request.statement)
          /\ paging' = [paging EXCEPT !.counted = Append(@, -1)]
          /\ UNCHANGED <<rows, session, writes>>
    /\ UNCHANGED <<client, server, call, reply, acked, orphans, calls, events>>

-----------------------------------------------------------------------------
(* The client, the server's start and everybody else.                      *)

Start ==
    /\ ~server.up
    /\ \E s \in Starts : Serves(s.e, s.reachable, s.missing) /\ server' = ServerOf(s.e, s.missing)
    /\ UNCHANGED <<client, rows, session, call, reply, paging, acked, writes, orphans, calls, events>>

Ask ==
    /\ server.up /\ call = Idle /\ calls < client.calls /\ calls' = calls + 1
    /\ \E r \in client.requests : Call(r, <<>>, FALSE)
    /\ UNCHANGED <<client, server, rows, session, acked, writes, orphans, events>>

Follow ==
    /\ call = Idle /\ paging.state = "open"
    /\ Call(paging.request, paging.cursor, TRUE)
    /\ UNCHANGED <<client, server, rows, session, acked, writes, orphans, calls, events>>

\* The cursor of one call given to another.
Detour ==
    /\ call = Idle /\ paging.state = "open" /\ Event
    /\ \E r \in client.requests : r # paging.request /\ Call(r, paging.cursor, TRUE)
    /\ UNCHANGED <<client, server, rows, session, acked, writes, orphans, calls>>

CursorExpires ==
    /\ paging.state = "open" /\ Event /\ ~Head(paging.cursor).expired
    /\ paging' = [paging EXCEPT !.cursor = <<[Head(@) EXCEPT !.expired = TRUE]>>]
    /\ UNCHANGED <<client, server, rows, session, call, reply, acked, writes, orphans, calls>>

OpenSession ==
    /\ server.up /\ call = Idle /\ session \in {"none", "gone"}
    /\ IF session = "none" THEN NoEvent ELSE Event
    /\ \E r \in client.requests : r.session
    /\ session' = "idle" /\ acked' = [acked EXCEPT !.open = {}]
    /\ UNCHANGED <<client, server, rows, call, reply, paging, writes, orphans, calls>>

\* Its timer, session_close or its connection.
SessionEnds ==
    /\ session \in {"idle", "open", "aborted"} /\ Event
    /\ session' \in {"gone", "lost"} /\ rows' = Closed
    /\ UNCHANGED <<client, server, call, reply, paging, acked, writes, orphans, calls>>

\* Others insert rows, and delete those of the beginning.
OthersWrite ==
    /\ server.up /\ Event
    /\ \/ rows' = Append(rows, "there")
       \/ \E i \in 1..Base : rows[i] = "there" /\ rows' = [rows EXCEPT ![i] = "gone"]
    /\ UNCHANGED <<client, server, session, call, reply, paging, acked, writes, orphans, calls>>

\* A statement given up ends after all, or is ended.
OrphanEnds ==
    /\ \E o \in orphans :
         /\ orphans' = orphans \ {o}
         /\ TakesEffect(o.statement, FALSE, o.tool) \/ UNCHANGED <<rows, session, writes>>
    /\ UNCHANGED <<client, server, call, reply, paging, acked, calls, events>>

Handle == Describe \/ Preflight \/ Count \/ Estimate \/ Page \/ Run

Next ==
    \/ Start \/ Ask \/ Follow \/ Detour \/ Handle \/ CountJob
    \/ OpenSession \/ SessionEnds \/ CursorExpires \/ OthersWrite \/ OrphanEnds

\* A statement is answered or timed out, and a client that follows pages goes on.
Fairness == WF_vars(Handle) /\ WF_vars(Follow)
Spec == Init /\ [][Next]_vars /\ Fairness

-----------------------------------------------------------------------------
\* Pages that were followed to the last deliver every row the query had when the first was
\* asked for, in order and once, if each statement of the calls still found them in front: rows
\* added behind them, other calls, tools that take over the cursor, profiles, page sizes and
\* count modes change nothing.
PagingLosesNothing ==
    paging.state = "done" /\ paging.steady =>
        /\ IsPrefix(paging.base, paging.seen)
        /\ \A k \in Len(paging.base)+1 .. Len(paging.seen) : paging.seen[k] \notin ToSet(paging.base)

\* Whatever rows come and go, following the pages ends.
PagingEnds == (paging.state = "open") ~> (paging.state # "open")

\* What a client needs to go on survives the compaction of the answer: the next cursor, the
\* count job, the total it asked for, and that the server is degraded.
AnswersKeepWhatMatters ==
    reply.ok /\ reply.kind = "page" /\ reply.tool # "render_sql" =>
        /\ reply.more => "next_cursor" \in reply.fields
        /\ reply.job => "row_count_job_id" \in reply.fields
        /\ reply.mode = "count_exact" => "row_count_total" \in reply.fields
        /\ server.degraded /\ reply.tool \notin ReadTools => "capabilities" \in reply.fields

\* An exact total is the number of rows the query had, and so is a count job's, if nothing
\* was written; the job of a page on a session counts without its open transaction. Following the
\* pages starts one job at most.
TotalsAreHonest ==
    /\ (reply.ok /\ reply.kind = "page" /\ reply.mode = "count_exact")
       /\ Result(reply.request.sql, reply.request.session) = reply.base
       => reply.total = <<Len(reply.base)>>
    /\ (paging.state # "none" /\ paging.counted # <<>> /\ ~paging.request.session)
       /\ Result(paging.request.sql, FALSE) = paging.base
       => paging.counted[1] \in {Len(paging.base), -1}
    /\ paging.state # "none" => paging.jobs <= 1

\* A restricted server writes nothing, not by a function its classifier cannot see either. In
\* degraded mode, which denies no more than what the classifier does not take for read-safe,
\* and in the runtime role no schema change, those gates are asked for every tool but
\* admin_sql, which asks neither: no write of another gets past them.
PolicyKept ==
    server.up =>
        /\ server.access = "restricted" => writes = {}
        /\ server.degraded => \A w \in writes : w.tool # "admin_sql" => ReadSafe(w.statement)
        /\ server.role = "runtime" => \A w \in writes : w.tool # "admin_sql" => w.statement # "create"

\* docs/reliability-exercises.md:48 says of degraded_read_only: "write-unsafe SQL is denied
\* with deterministic code/reason". admin_sql, where it is enabled, denies none.
DegradedDeniesWrites ==
    server.up /\ server.degraded => \A w \in writes : ReadSafe(w.statement)

\* A row whose INSERT was answered, and its COMMIT after it, is there.
AnsweredWritesLast ==
    \A id \in acked.kept : id \in DOMAIN rows /\ rows[id] = "there"

\* A call that chose its statement's timeout never leaves it running: the client waits
\* longer than the server. (A script's statements have their timeout each.)
OverridesLeaveNothing == \A o \in orphans : o.timeout = <<>> \/ o.statement = "script"
=============================================================================

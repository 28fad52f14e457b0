# A TLA+ model of postgres-mcp

postgres-mcp is a Model Context Protocol server, one Rust process that speaks to a client over
stdio and to one PostgreSQL database. This directory holds TLA+ modules of it, TLC configurations
that check them on small instances, and TLAPS proofs of the properties that matter most. Paths
below are relative to the repository root.

## The system

| Component | Source | State | Operations | What makes it hard |
|---|---|---|---|---|
| Startup coordination | `src/startup_coordination.rs` | rows of `mcp_startup_leases` and `mcp_startup_phase_events`; per process a guard (owner id, fence token, `fence_lost`), a heartbeat task | `acquire`, `run_phase`, `record_phase_event`, `release`, `Drop`, heartbeat | several processes on one row; every statement is a connection of its own; crashes; statements that execute after their client gave up; leases that expire during a pause |
| Startup sequence, dependency validation, configuration | `src/main.rs`, `src/startup_dependencies.rs`, `src/config.rs` | - | settings from command line and environment, probe, validation, degraded mode, serving | what wins over what, which failures stop the start |
| Job handle | `src/server.rs`, `src/tools/query.rs`, `src/tools/query_surface.rs` | snapshot mutex, revision counter, `Notify`, abort-handle mutex, the spawned worker | launch, `mark_running`, `complete`, `cancel`, `query_status`, `query_start_and_wait`, `job_status` | four lock-free or separately locked pieces that must agree; notifications that can be missed |
| Job registry | `src/server.rs` | map of handles | `create`, `get`, `list_tasks` | bound, expiry by wall clock, eviction |
| Pinned sessions | `src/server.rs`, `src/db.rs`, `src/tools/query.rs` | map entry (expiry, generation), the connection and its driver task, execution lock, PostgreSQL's transaction block | open, statement and touch, close, expiry timers | touches and timers that overlap, clocks, an error inside a transaction |
| Circuit breaker, tool calls, tasks | `src/server.rs` | per tool group a counter and `open_until` | admission and recording in `call_tool`, `enqueue_task`, `tasks/*` | calls that overlap the opening; tasks that run behind the caller's back |
| Query tools, query surface | `src/tools/query.rs`, `src/tools/query_surface.rs` | - | `execute_sql`, `query_sql`, `query_tuples`, `render_sql`, `admin_sql`, `query_start` | several statements for one call, many gates, timeouts on two clocks |
| Pagination, response shaping | `src/tools.rs`, `src/tools/query.rs` | cursors, held by the client | page cut, cursor check, count modes, compaction of metadata | pages of a result that changes, passes that undo each other |
| Database transport | `src/db.rs` | - | one statement per connection, or on a pinned one, with budgets | a timeout leaves the statement running |
| SQL safety policy | `src/sql_safety.rs`, an external crate | - | a verdict on a text | who asks it, and for what |
| Schema tools | `src/tools/schema.rs`, `src/server.rs` | cursors | `list_schemas`, `list_objects`, `get_object_details`, hints | a metadata policy with many ways around it; escaping twice |
| Extension guard cache | `src/tools.rs`, `src/server.rs` | bounded cache of failures, a guard with one refresher | `ensure_extension_ready`, recheck after an error | staleness, waiting for a refresher that was canceled |
| Index advisor, health tools | `src/tools/advisor.rs`, `src/tools/health.rs`, `src/advisor_extension.rs` | - | workload and query analysis, the external program's attempts | an external program that hangs, fails, repeats itself |
| Export artifacts | `src/tools/query_surface.rs`, `src/server.rs`, `src/tools/query.rs` | bounded map and queue of records, files | `run_export_query`, `register`, `list`, `get_by_uri`, resource reads | files made before they are registered and removed under a reader |
| Command line probes, library root | `src/bin/*`, `src/lib.rs` | - | - | - |

How they interact: `main` runs the startup phases under a lease and then serves. `call_tool` asks
the circuit breaker, runs a tool and records its outcome. Tools run statements on a fresh
connection or on a pinned session, and start jobs: a job is created in the registry, its handle is
shared by the worker task, by cancel requests and by status requests, which wait on its `Notify`.
A task (`enqueue_task`) is a job whose worker calls the tool router. Timers of pinned sessions and
the heartbeat of the lease are detached tokio tasks. Exports write files that resource reads open.

What makes each correct: one holder of the lease and an honest journal; one end per job, no missed
update, a cancellation that stops the work; a bounded table that keeps live jobs; sessions that
expire when idle; a circuit that opens after consecutive failures only and closes again; pages that
lose nothing, counts that are right, answers that keep what the client needs; no write past a gate;
no hidden schema told of; an extension's absence that is not told for ever; advice that is complete;
listed exports that can be read.

## Modules

Every module is translated from the source named in its head comment; `PROJECT.json` maps each
definition to its lines, and lists the hazards that the properties are about.

| Module | Models | Checked by | Proved in |
|---|---|---|---|
| `StartupLease` (+ `MCStartupLease`) | startup coordination, driven by the coordinated path of `main` | `StartupLease_*.cfg` | `StartupLease_proofs` |
| `JobPromise` | abstract: a job starts at most once, ends once, and its response says how | as a property of `QueryJobHandle` | |
| `QueryJobHandle` | one job; launching call, worker, cancel requests, status requests, at the granularity of locks and atomics | `JobAndSession.cfg`, `QueryJobHandle_jobstatus.cfg` | `QueryJobHandle_proofs` |
| `QueryJobRegistry` | the table of jobs | `ToolCalls.cfg` | `ToolCalls_proofs` |
| `PinnedSession` | one pinned session, its calls and its timers | `JobAndSession.cfg` | `PinnedSession_proofs` |
| `CircuitBreaker` | admission and recording around `call_tool` | `ToolCalls.cfg` | `ToolCalls_proofs` |
| `ToolCalls` (+ `MCToolCalls`) | tool calls, tasks and jobs between the breaker and the table | `ToolCalls.cfg` | `ToolCalls_proofs` |
| `Startup`, `QueryArguments`, `QueryResponse`, `QueryFlow` (+ `MCQueryFlow`) | from settings to a server that serves, from a call's arguments to its answer | `QueryFlow*.cfg` | `QueryFlow_proofs` |
| `SqlText` (+ `MCSqlText`) | the scanners of SQL text, page wrapping, `latest_snapshot(...)` | `Reading.cfg`, `SqlText_preflight.cfg` | `Discovery_proofs` |
| `NameFilter`, `Discovery` (+ `MCDiscovery`) | schema tools and hints under the metadata policy | `Reading.cfg` | `Discovery_proofs` |
| `ExtensionGuard`, `Advisor` (+ `MCAdvisor`) | the guard of an extension, and the tools that need one | `Advisor.cfg` | `Advisor_proofs` |
| `ExportArtifacts` (+ `MCExportArtifacts`) | exports, their registry, their files and their readers | `ExportArtifacts.cfg` | `ExportArtifacts_proofs` |

`MCJobAndSession` and `MCReading` check two modules in one run each: the two share no state, and a
behaviour uses one of them while the other is at its end (a session that is gone, a job that has
succeeded) or untouched (an empty text, a question not yet asked).

Definitions marked `Mutant` are the bugs the checks are tried against; nothing else uses them.

### StartupLease

A member of `Procs` is one startup attempt. Its `pc` walks through `acquire` (`acquiring`,
`granted` or `refused` when the database has executed the statement and its answer is on the way,
`backoff`), the phases (`lookup`, `assert`, `insert`, `working`), `release` (`stopping`,
`releasing`) to `serving`, or ends `failed` or `crashed`. `record_phase_event` is two steps,
`AssertHeld` and `InsertRow`, as it is two statements. A heartbeat is executed (`BeatRenews`,
`BeatMisses`) and answered (`BeatOk`, `BeatLost`) in two steps, and the next sleep starts with the
answer. A statement that a client stopped waiting
for goes on `wire` and `Land`s at any later time, or never. Time is what is left of each timer, and
`Tick` moves it; nothing else is bounded: an attempt sends finitely many statements, and fence
tokens grow only with acquisitions.

`Spec` says nothing of the speed of anything. The ttl runs from the moment the database executes an
acquire or a heartbeat, the heartbeat interval from the moment its answer arrives, so heartbeats
issued on time are not enough: with ttl 2, heartbeat 1 and an answer that takes more than 1, the
lease expires before the first heartbeat, and a second attempt is granted it. `TimelySpec` therefore
assumes that a heartbeat is executed at most `Delay` after its sleep, that its answer and that of a
grant take at most `Delay`, where `Heartbeat + 2 * Delay < Ttl` (`DelayIsShort`; with equality
exclusion already fails), and that a heartbeat that fails leaves more of the lease than the next one
may take. The code enforces none of this but `Heartbeat < Ttl`. The other statements, crashes and
abandoned statements are as slow as they like. Exclusion is stated under this assumption. Without
it an attempt that lost its lease between `assert_fence` and its INSERT still writes a journal row,
one at most (`AtMostOneStaleRow`). That a phase which is skipped was completed
(`SkippedWasCompleted`) concerns the library's `run_phase` only: no caller in the repository passes
`skip_if_completed`.

### JobPromise and QueryJobHandle

`Starters` are the calls that may have made the job. `query_start` and `spawn_async_row_count_job`
heed the answer of `mark_running`, `query_job_start` and `export_job_start` do not, `enqueue_task`
neither does nor registers an abort handle: `tasks/cancel` changes the record of a task and its
statement goes on, which is why `CanceledWorkIsAborted` speaks of the other jobs. Each lock region
or atomic access is a step: `register_abort_handle` is `LaunchCheck`, `LaunchInstall`,
`LaunchRecheck`, `LaunchAbort`; `complete_payloads` and `cancel` change the snapshot, take the
handle, bump the revision and notify, in four steps. A status request reads revision, snapshot,
revision and then goes through `wait_for_update_since` (`FirstCheck`, `CreateNotified`,
`SecondCheck`, `waiting`). `notify_waiters` reaches the futures that exist, which is tokio's
documented behaviour. An aborted task ends where it awaits.

`Promise == INSTANCE JobPromise WITH state <- state, response <- response` is the refinement:
`KeepsPromise` is its specification.

### QueryJobRegistry, CircuitBreaker, ToolCalls

Each operation of the job table runs under its mutex and is one step. Job ids are `1..MaxJobs`; the
clock may be set back. The breaker has two groups, one shared by two tools. `streak` is a history
variable, the retryable failures recorded in a row.

`ToolCalls` puts the two together. A call that the breaker admits (`Begin`) may be `query_job_start`
and ask the table for a job (`AskForJob`); a full table is told as a retryable failure
(`OutcomesOf`), so it counts in the circuit that `query_sql` shares. `enqueue_task`, the jobs
themselves and `tasks/*` go past the breaker. `Loads` are the bounds of one behaviour: calls
alone, tasks and jobs alone, and both at once.

### PinnedSession

Sessions share nothing, so there is one. `touch` is a step per atomic. Timers are records of
the generation they were armed with, the sleep left and the stage of
`expire_if_generation_matches`. `ApplyBudget` is the round trip of SETs before each statement; in a
failed transaction block PostgreSQL refuses it, and so `ROLLBACK` and `COMMIT` too. A timer asks
nothing of the calls, so it may close a session whose statement runs. `session_status` only
reads and is left out, with the fields only it reports.

### Startup, QueryArguments, QueryResponse, QueryFlow

`Startup` has the settings that handlers tell apart, each with the order in which command line,
environment and default win, what is refused, and whether a process then serves; a lease is
`StartupLease`'s business. `QueryArguments` has what tools make of their arguments: profiles, count
modes, timeouts, page sizes, and what a cursor is hashed over. `QueryResponse` follows the fields of
an answer's metadata through every pass that adds or drops some.

`QueryFlow` composes them. A client of `Clients` makes calls and may follow a page; a call is
described, preflighted, counted, estimated, paged or run (`Describe`, `Preflight`, `Count`,
`Estimate`, `Page`, `Run`), one step for each statement it sends, with the failures of each. The
database is one table: `rows` says of each row, known by the order it came in, whether it is there,
open with the session's transaction, or gone for good. `Seen` are the rows that a connection sees, and
`Result` lists them by age or the other way round. A statement takes one of `Durations`; the server's clock or the client's ends it, and one given up by the client alone is an
orphan that may still take effect. Rows of others, the loss of the session, and a cursor handed
to another call are the client's `events`. `paging`, `acked` and `writes` are history, and so are
`base`, the rows a query had when its call was made, and `steady`, whether every statement of the
calls since then still found them in front.

`PagingLosesNothing` speaks of pages that stayed steady, whatever else was inserted, counted, opened
or called meanwhile. Offsets promise nothing when rows are deleted before them or come in front: the
code keeps no snapshot between pages, and its docs promise none.

### SqlText

A text is a sequence of symbols, put together piece by piece; the steps of the specification only
enumerate texts. Each scanner of the code is a recursive function over the text (`Scan`, what each
symbol is taken for) with what it knows of (nested comments, dollar quotes, E'' strings) as a
parameter, because the code's scanners differ in just that. What PostgreSQL makes of a text is
`PostgresReading`, which is not one of those scanners: it also carries what the code before a symbol
ends in, so that a name goes on over dollar signs (`x$$` is a name and opens no quote), a dollar
sign before a digit is a parameter and no tag, an E is an escape only as a name of its own, a string
goes on in the next line with the escapes it began with, and a carriage return ends a line comment.

In these places the scanner of delimiters reads otherwise, and `Misread` says of a text that it has
one of them. Four exceptions are in the properties because the code does break there:
- texts that are misread (`OneStatementOnly`, `ExpansionIsCode`). Without this exception it is
  `PreflightIsSingleStatement`, what the docs say of the preflight, and the run `single_statement`
  shows a text of two statements that passes as one: `select x$$;select x$$`;
- a text that ends in a comment, or in semicolons with blanks between, when it is wrapped
  (`WrapKeepsOneQuery`, `EndsLoosely`);
- strings with a backslash, which the scanner of the helper reads as plain ones (`ExpansionIsCode`,
  `NoEscapes`): the call in `E'\' from latest_snapshot(...)'`, one string for PostgreSQL, is expanded,
  although `docs/latest-snapshot-helper-design.md:152` has strings passed over;
- block comments in block comments, which that scanner takes for flat (`NestsComments`). A call
  that is behind the first `*/` of such a comment is still not expanded, because
  `is_relation_helper_position` asks `strip_sql_comments`, which nests them; but the scan can be
  lost in a quote that is none, as in `, /* /* */ ' */ -- ' latest_snapshot(...)`, where it goes on
  to expand inside a line comment, or end a call at a parenthesis in a comment.

### NameFilter and Discovery

Names are sequences of characters. `NameFilter` has the escaping of `list_objects` and PostgreSQL's
reading of it, LIKE and E'' literal. `Discovery` has the listings, pages and details, and the hints
that a failed statement gets, over a small catalogue in which hidden schemas have the closer names.

### ExtensionGuard and Advisor

`ExtensionGuard` has a step for each await: cache, guard, begin of a refresh, probe, end of it,
waiting. The DBA may drop or create the extension at any moment (`Changes` times), and tasks may
be canceled, which leaves a refresh in flight (`"orphaned"`). `Advisor` puts the tools on top of
it: the workload, one analysis per query, the planner's advice, and the external program, started
anew for each attempt, which may answer, fail, flood or never end. It is given its input before the
timeout starts. Nothing is assumed of it, so a program that runs and never reads keeps a call for
ever whose request is longer than the pipe holds (`Pipe`); `NothingHangs` excepts just that wait
(`InputUnread`), although the head comment of `src/advisor_extension.rs` has a timeout on each
invocation.

A probe is up to two queries, whether the extension is there and, if not, whether it could be. Each
looks at the catalogue at some moment between its beginning and its answer (`Look`), so the news may
be two query timeouts old when it enters the cache, and the time to live older when it is told
(`UnavailableIsRecent`).

### ExportArtifacts

An export passes `Describe`, `Query`, `Create`, `Write`, `Finish`, each with its failures, and
readers look up, open and read meanwhile. What a file holds is the export that writes it; `whole` says which have
written all. `register` replaces an artifact of the same handle, makes room, and removes files, in
one step under its mutex. A path that was removed is not drawn again: a handle is the time and 48
random bits. A failed export leaves its file in the temporary directory, unregistered, and
`FilesAreAccounted` says so.

## Runs

| Run | Checks | Instance |
|---|---|---|
| `lease_faults` | `TypeOK`, `AtMostOneStaleRow`, `RunTellsItsStory`, `SkippedWasCompleted` | 2 attempts, ttl 2, heartbeat 1, both answers of `skip_if_completed`, fail-fast |
| `lease_timely` | `OneHolderAtATime`, `LiveLeaseEndsByItsOwner` | 3 attempts, ttl 4, heartbeat 1, delay 1, `TimelySpec` |
| `lease_live` | `StartupSettles`, `DeadLeaseLapses` | 2 attempts, `FairSpec` |
| `job_and_session` | `NoMissedUpdate`, `CanceledWorkIsAborted`, `KeepsPromise`, `WaitersAreAnswered`, `SessionHasItsTimer`, `IdleSessionsExpire` | 2 cancel requests, 1 status request, every wait mode, three starters; 2 callers of a session, 2 uses, statements that open a transaction or read, ttl 2, the clock set back once |
| `job_status_wait` | `JobStatusIsAnswered` (violated) | 1 cancel request, 1 status request |
| `tool_calls` | `FullTableIsSafe`, `OpensOnStreak`, `CircuitCloses`, `EvictionIsFair` | threshold 2, cooldown 2, table of 2 entries, ttl 1; 3 calls; or 5 jobs with a clock of 0..4; or 2 calls with 2 jobs and a clock of 0..1; or 3 calls with 2 jobs |
| `query_flow` | `PagingLosesNothing`, `PagingEnds`, `AnswersKeepWhatMatters`, `TotalsAreHonest`, `PolicyKept`, `AnsweredWritesLast`, `OverridesLeaveNothing` | clients that read (2 calls, 1 event), write (2, 2) or hold transactions (4, 1); 4 environments that serve and 7 that do not; 3 rows, pages of 2; statements of 1, 8 and 20 seconds |
| `degraded_mode` | `DegradedDeniesWrites` (violated) | as `query_flow` |
| `reading` | `OneStatementOnly`, `ExpansionIsCode`, `SnapshotPerPartition`, `WrapKeepsOneQuery`, `DiscoveryStaysVisible`, `HintsFindWhatIsVisible`, `ListingIsWhatWasAsked` | texts of up to 5 of 15 pieces, tables of up to 3 rows; 11 objects in 4 schemas, 6 policies, 13 filters, pages of 2 or 3, hints of 2 |
| `single_statement` | `PreflightIsSingleStatement` (violated) | texts of a name with dollar signs and a delimiter |
| `advisor` | `NothingForgotten`, `NothingAskedIsDropped`, `UnavailableIsRecent`, `NothingHangs` | 2 callers, times to live and queries of 1, 2 changes by the DBA, 3 attempts of the program, a pipe that holds a request without recommendations only |
| `export_artifacts` | `ListedIsReadable`, `ReadsAreWhole`, `FilesAreAccounted`, `NewestAreListed` | 4 exports of 4 kinds, 1 reader, 3 handles in 2 formats, 2 entries |

Why the bounds are enough. Two attempts already give a takeover while the old owner works, three
give a takeover of a takeover; ttl 2 with heartbeat 1 leaves room for one missed beat. Two cancel
requests race each other as well as worker and launcher; status requests affect neither each
other nor the job, so one is enough. Touches of two callers overtake each other. Five jobs fill a
table of two more than twice. Three handles are one more than the registry has entries, so a third
artifact evicts the first, under a reader that looked it up, and among four exports one handle is
drawn twice and replaces an artifact; both happen in either order. Three calls are two that open a circuit of threshold two and one that
reports late; two jobs fill the table for the calls that ask next. Three rows in pages of two leave a last page that is not full, and
disturbances between pages; three durations lie within every timeout, between those of the server
and of the client, and beyond all. Pieces of text are the shortest that each scanner treats
differently, and five of them open, hide and close every construct once. Two callers give one
refresher and one that waits for it.

Deadlock checking is off where the system may stop: when all requests, exports or calls of the
bounded clients are over (`QueryJobHandle`, `QueryFlow`, `Discovery`, `Advisor`,
`ExportArtifacts`; in a session time always passes), or the bound of the enumeration is reached
(`SqlText`).
Elsewhere time can always pass. `WithoutJournal`, the view of two runs, leaves out history that no
action of those runs reads; the symmetry of three runs permutes values that no constant tells
apart, and none of them checks liveness.

What the violated runs show (`PROJECT.json`, `findings`):
- `job_status_wait`: `job_status` with `wait_until_terminal` takes its snapshot before its revision,
  so it can wait for ever for an end it has already been told of.
- `degraded_mode`: `docs/reliability-exercises.md` has write-unsafe SQL denied in the mode
  `degraded_read_only`; `admin_sql`, where it is enabled, never asks for the mode and writes.
  `PolicyKept` says what the gates of the other tools keep out.
- `single_statement`: `docs/payload-v2-contract.md` has the preflight accept single statements only;
  a name that ends in `$$` hides a delimiter from it.

What else the models have that a reader of the code may not expect, each beside the property that
excepts it or the hazard that names it: an attempt that lost its lease may write one journal row; a
canceled task's statement goes on; an idle timer may close a session in use; a failed transaction
on a session can only be closed; a SELECT that ends in a comment cannot be paged; a
`latest_snapshot(...)` inside of an E'' string may be expanded; a total and its page are two statements; the external advisor's
input is written outside of its timeout; a canceled probe leaves its refresh in flight; a failed
export leaves its file, and one of `execute_sql` fails after its statement took effect.

## Fairness

- `StartupLease`: weak fairness of every live attempt and of heartbeats, and of time; an abandoned
  statement need never land, a crash need never come.
- `QueryJobHandle`: the launching call, the worker and a request that began go on (tokio schedules
  them, `statement_timeout` ends a query); timers are not fair, so no answer may depend on one.
- `PinnedSession`: time passes, timers whose sleep is over run, calls that began go on.
- `ToolCalls`: monotonic time passes and a tool that runs returns, since statements have their
  timeouts. No job need end and no client need ask again.
- `QueryFlow`: a call that began is handled, since each statement has its timeouts, and a client
  that follows pages goes on.
- `Advisor`: a task that can go on does, and the runtime's timer fires. The external program need
  do nothing, neither read its input nor answer nor end, and no DBA need do anything.

`ExportArtifacts`, `SqlText` and `Discovery` have no liveness properties and no fairness.

## Proofs

All theorems hold for every value of the constants that satisfies the ASSUMEs, which TLC evaluates
on every run. Those say what the code enforces: settings that `src/config.rs` accepts
(`ConfigAccepted`, `LimitsAccepted`, `BoundsAccepted`, `LimitKnown`, `StartsKnown`,
`PoliciesAssumption`), positive limits where the source has constants (`LimitsAssumption`), arguments
of the types in the tools' JSON schemas (`RequestsKnown`, `ArgumentsAssumption`), and that durations,
times to live, the rows at first, the program's replies and the catalogue's names are natural numbers
and lists (`DurationsKnown`, `TimesAssumption`, `BaseKnown`, `RepliesAssumption`,
`CatalogAssumption`), as are the times of rows that have one (`TablesAssumption`, which also has that
`to_jsonb` tells any two rows of a table apart), and that texts are put together from strings
(`PiecesAssumption`, `SymbolsAssumption`). `FoldAssumption` is of PostgreSQL's ILIKE: the characters that LIKE or a literal
reads otherwise are in no case, and a lower-case form has none of its own.

- `StartupLease_proofs`: `TypeCorrect`; `OneHolder` (for `TimelySpec`) by `TimelyInv`: an attempt
  that was granted the lease owns its row through all its phases, its heartbeat task sleeps or waits
  for an answer, what is left of the lease is longer than the time to the next heartbeat
  (`TimeToBeat`: the answer that is out, the sleep after it and the delay of the statement),
  and only dead attempts have an acquire or a DELETE on the wire. The property says nothing of
  timers, so it is not inductive alone. `OneStaleRow` (for `Spec`) by `FenceInv`: who has
  written a stale row no longer owns the lease, has no row pending and is not about to insert;
  `LeaseEndsByItsOwner` from the WHERE clause of the DELETE and `WireOfTheDead`. `SkippedIsDone` by
  `SkipInv`, which follows what a look-up found through the two statements until the row that says
  skipped; `StoryIsLegal` by `StoryInv`, which relates the rows of an attempt, those on the wire and
  its `pc`.
- `QueryJobHandle_proofs`: `TypeCorrect`; `PromiseKept`, a refinement: each step of the
  handle is a step of `JobPromise` or a stutter; `CanceledIsAborted` by `AbortInv`, which says where
  the abort handle is in each phase of the registration; `NothingMissed` by `SeenInv` and
  `SpawnInv`, which relate the revision a request holds to the current one and to publications
  under way.
- `ToolCalls_proofs`, of the job table: `Bounded` and `LiveStay`, together `FullTable`, and
  `FairEviction`, an action property, with the finite-set facts of the library. Of the breaker:
  `BreakerTypeCorrect` and `StreakOpens`; the invariant is that the counter never exceeds the
  streak. Of both: `ImplementsParts`, that each step of the composition is a step of the breaker or
  leaves it alone, and likewise for the table; `TableIsSafe`, `TableIsFair` and `CallsOpenOnStreak`
  follow from it and the components' theorems.
- `PinnedSession_proofs`: `TypeCorrect`; `NeverForgotten`, that `SessionHasItsTimer` always holds, by
  `TimerInv`. The property speaks of a session that is open and not being touched while the clock is
  honest, so the invariant adds what makes it inductive: nothing touches a session before it is
  open (`OpeningInv`), no expiry is further away than the time to live (`ClockInv`), which is what a
  fresh timer sleeps, and a timer that woke up has nothing left to sleep (`WokenInv`).
- `QueryFlow_proofs`: `PolicyHolds` and `OverridesAreBounded`, by one invariant, `FlowInv`: what the
  server took from its settings (`ServerInv`), that a call in progress passed the gates of its tool
  (`CallInv`), that a cursor which is followed belongs to a call that did (`PagingInv`), and that
  what was written, and what still runs, is of such a call (`WritesInv`). The policy alone is not
  inductive: a statement that was given up writes after its call is over.

  The other four theorems follow from `QueryInv`, which adds:
  - `StageInv`, where a call can be and with which settings: only then does a page come from a
    SELECT, with a page size, from a tool that pages;
  - `TableInv`, that only the session's open transaction has open rows. With it every step is one of
    `Moves`: rows of a transaction end with it, no answered row goes. `AckedInv`, and so
    `AnsweredWritesStay`, needs both, since a row is told of while it is open and must not be
    credited to a transaction that was rolled back under the client;
  - `AnswersInv` for `AnswersTell`: each pass over the metadata (`MetaKeeps`) keeps what matters, for
    any settings that `StageInv` allows;
  - `PagesInv` for `PagesAreComplete`: what was seen so far is what the query had at first, up to the
    offset of the next cursor, and a count that a call holds covers the rows seen. The property
    speaks of the last page only. `PageIs` says what one page is in numbers, `PageJoins` and
    `NextIs` that pages join without a gap and end at the end, counted or looked ahead for;
  - `TotalsInv` for `TotalsHold`. The property compares a total with the table as it is *now*, so
    the invariant must exclude that a table comes back to what it was after it was counted as
    something else: `Gone` says that it never does, since rows go for good and new ones differ.
- `ExportArtifacts_proofs`: `ListedReadable`, `WholeReads` and `Accounted`, by `ExportsInv`: where
  each export's file is in each of its stages (`ExportInv`, `FileInv`), that a record is of an
  export that finished it (`ArtifactInv`), and that a reader's record and open file are of one
  export (`ReadInv`). That a removed path is not drawn again is in the guard of `Create`.
  `NewestListed` by `QueueInv`: the queue has the artifacts' handles once each (`OrderInv`), and no
  more entries behind an artifact than were registered after it (`PlaceInv`), which is what makes
  eviction from the front fair to each export, replaced handles included.
- `Advisor_proofs`: `UnavailableIsRecentHolds`, an action property, by `NewsInv`: the age of the news
  plus the time that the query under way, or the cache's entry, has left is bounded: by one query
  timeout while the answer of the first query is out, by two during the second (`FoundIsNews`), by
  two and the time to live in the cache (`CacheIsNews`). `NothingForgottenHolds` by `KeptInv`: through all attempts what is kept is what was
  offered, each key once, although a reply is absorbed one recommendation at a time and may fail
  in the middle. `NothingAskedIsDroppedHolds` from what the planner's answer is (`DtaTellsOfAll`),
  and that every step which answers with advice of the planner answers with that.
- `Discovery_proofs`: `StaysVisible` and `ListingsComplete` by `DiscoveryInv`. Each page asks the
  policy again, and of a failed statement's answer each way a name gets into it has a lemma
  (`SimilarRelationsVisible`, `SimilarColumnsVisible`, `ResolvesVisible`, `PreviewsVisible`); an
  extension is in no schema. That a listing is complete speaks of its end only, and is not inductive
  alone: `ListingFollows` adds that what a client was given so far is how the whole listing begins,
  as far as the offset of the cursor. `PageIs` says what one page is in numbers, `PageFollows` that
  pages join.

  `ListingsAreWhatWasAsked` needs that patterns mean what the filter says, for every value. The
  argument is in three parts. A literal is read back as what was quoted (`LiteralIsRead`). Escaping
  puts each character at a place of its own, with a backslash before it or not (`QuotedIs`,
  `SurroundedEncodes`), and from there LIKE matches that character and no other (`CharMatches`);
  by the characters from the last one back, the escaped value matches where the value is
  (`QuotedMatches`). Around it a wildcard takes what it may (`MatchEnds`), which gives `LikeExact`,
  `LikePrefix` and `LikeContains`, and with them `FilterMeans`.

  `HintsFindVisible` by `HintsInv`, which is that an answer about a failed statement is `Hints` of
  it, under the policy that still holds. From there it is a matter of what comes before what:
  the policy is in the WHERE of the similarity queries, before their ORDER BY and LIMIT
  (`SqlIsVisible`), so that their first rows are visible, and the filter on the rows drops none.

  The module also has `SnapshotsAreNewest`, of `SqlText`: the ORDER BY that a `latest_snapshot` call
  expands to is a strict total order for any set of arguments (`BeforeOrders`), so each partition has
  a first row (`LeastExists`), which is the newest; nothing is asked of how the arguments were read.

  `TextIsOneStatement`, `WrapIsOneQuery` and `ExpandedCallsAreCode` are of texts of any length. No
  prover here knows that a literal is a string, hence `SymbolsAssumption`; the invariant is that the
  text is one (`TextsOnly`). All three are first proved of the scanner of delimiters (`Formed`,
  `CodeStatements`), and then of PostgreSQL: what its reading says of a symbol that is not misread
  is what that scanner says (`PostgresStepIs`, `SameReading`, `AsPostgres`). `WrapIsOneQuery` needs
  this of the text, of what `canonicalize_sql` leaves of it and of the wrapped one (`NoneMisread`);
  that the exception is not needed there is only model-checked. What they share is how a scan of one text follows from that of another:
  - A part of a text is scanned as it is in the whole, if the symbols before it leave the scanner
    in code and tell it nothing of what follows (`EmbeddedScan`), and its parentheses are counted
    alike, from another number on (`CountMoved`). With it the whole text is compared with what
    `canonicalize_sql` leaves of it (`CanonicalCounts`), with the derived table it is put into
    (`WrapScan`, `WrapCounts`), and with what is left behind a delimiter.
  - `TextIsOneStatement`: two statements leave a delimiter with something behind it
    (`TwoStatements`) that `canonicalize_sql` does not cut off (`SqlAfterDelimiter`); the code's
    count of parentheses, which saturates at zero, is zero at a delimiter of a well-formed text, and
    a new scan of the rest from the first of them finds what is behind it (`DelimiterFound`).
  - `ExpandedCallsAreCode` relates the states of two scanners that read the same text: they are
    alike but for the escapes (`ScansAlike`), as long as there is no backslash and both nest
    comments or none nests. The other half is that the name before a call is code (`NameIsCode`): the text before it, stripped
    of comments, ends in `from` or a comma, which no open comment or quote would have left there
    (`PrefixScan`, `StrippedEnd`). Parentheses then close at the same place (`ParenCloses`).

Some of these needed induction over a list that is gone through (`AllAbsorbedKeeps`,
`RetainedGathers`, `FlattenSteps`, `LiteralIsRead`, `QuotedMatches`, and whatever is said of a scan). The library's induction theorems take an operator as a parameter, which no
installed prover can instantiate; the lemma `UpTo` of the modules that need it takes a *set* of
numbers instead, and follows from the library's well-foundedness of `Nat`. The functions `AllAbsorbed`
and `Retained` are written as recursive functions for its sake; so are the scanners of `SqlText`, and
`ILike`, by the places of the pattern alone. A definition through the library's `SetToSortSeq` or `SelectSeq` cannot be unfolded
by tlapm, so `Discovery` sorts and filters by `Sorted` and `At`, of which `SortedLists`,
`AscendingLists` and `AtIs` say that they do.

Three things in the models were found by proof attempts, past the bounds of the runs, and corrected. A
ROLLBACK or COMMIT that ended the block and was answered as an error left its rows in `acked.open`,
and the next block's COMMIT would have vouched for them. `PagingLosesNothing` once excepted changed
tables by comparing at the end; a row that comes in front between two pages and is gone at the end
escapes that, so it carries `steady`. `ExpansionIsCode` had no exception for nested block comments;
the texts that need one have more pieces than the run's. For the sake of the proofs `rows` keeps rows that are gone: the number
of a row is its place, for ever.

Only model-checked is liveness (`StartupSettles`, `DeadLeaseLapses`, `WaitersAreAnswered`,
`IdleSessionsExpire`, `CircuitCloses`, `PagingEnds`, `NothingHangs`), which needs ENABLED, out of the
prover's reach.

`TypeCorrect` of the job handle, the breaker and the sessions is proved and needs no run.

## Not modelled

- Formatting and decoding: rows, parameters, the CSV, TSV and JSON lines of exports, the tables of `render_sql`, plans
  of `explain_query`, the wording of hints and errors, telemetry, progress messages, logging.
- The SQL classifier: an external crate. The models take its verdict on each kind of statement.
- Panics, and the locks they poison. A worker that panics leaves its job running, a hazard listed
  without a property.
- `transaction_open` and `last_statement_keyword`, which are only reported.
- Settings for paths, logging, the pool and transport.
- Schema names that Rust's `to_ascii_lowercase` and PostgreSQL's `lower()` fold differently: both are
  `Lower`. The catalogue does not change between the pages of a listing.
- What a client makes of an error that is told as retryable, and files that others remove.
- The command line probes (`src/bin`) are test programs around the server; `src/lib.rs` only
  declares modules.

--------------------------- MODULE QueryArguments ---------------------------
(* What the SQL tools make of their arguments (src/tools/query.rs,         *)
(* src/tools/query_surface.rs, src/tools.rs): profiles, count modes,       *)
(* statement timeouts, page sizes and the hashes that cursors carry.       *)
(*                                                                         *)
(* A request names its tool, what its statement does, and its arguments,   *)
(* each <<>> when it is left out.                                          *)
EXTENDS Startup

ReadTools == {"query_sql", "query_tuples", "render_sql"}

\* A SELECT, a SELECT that calls a function which writes, a SHOW, an INSERT, two INSERTs in
\* one text, a DDL statement, and the transaction commands.
Statements == {"select", "volatile", "show", "insert", "script", "create",
               "begin", "commit", "rollback"}

SelectLike(s) == s \in {"select", "volatile"}
Writes(s) == s \in {"volatile", "insert", "script", "create"}

\* classify_restricted_sql, which cannot see what a function does.
ReadSafe(s) == s \in {"select", "volatile", "show"}

\* is_runtime_blocked_ddl.
RuntimeBlocked(s) == s = "create"

\* ExecuteSqlResolvedCountMode: count_mode, then the flag it replaced, then the profile's.
CountMode(r) ==
    CASE r.count # <<>> -> Head(r.count)
      [] r.count = <<>> /\ r.total # <<>> -> IF Head(r.total) THEN "exact" ELSE "none"
      [] r.count = <<>> /\ r.total = <<>> -> IF r.profile = "human_debug" THEN "estimated" ELSE "none"

\* resolve_execute_sql_profile: a profile fills in what the request leaves out.
ExecuteSettings(r, server) ==
    LET pageSize == Most(Or(r.rows, server.pageSize), 1)
    IN  [output |-> Or(r.output, CASE r.profile = "fast_agent" -> "data_only"
                                   [] r.profile = "human_debug" -> "rows_safe"
                                   [] r.profile = "heavy_view" -> "tuples"
                                   [] OTHER -> server.output),
         pageSize |-> IF r.profile = "fast_agent" /\ r.rows = <<>> THEN Least(pageSize, 100) ELSE pageSize,
         verbosity |-> Or(r.verbosity, CASE r.profile = "human_debug" -> "full"
                                         [] r.profile = "heavy_view" -> "standard"
                                         [] OTHER -> "compact"),
         timeout |-> IF r.profile = "heavy_view" /\ r.timeout = <<>> THEN <<300>> ELSE r.timeout,
         preflight |-> Or(r.preflight, r.profile \in {"human_debug", "heavy_view"}),
         count |-> CountMode(r)]

\* Mutant: an empty page is a page.
ReadSettingsAsGiven(r, server) ==
    [output |-> "sparse", verbosity |-> "sparse", count |-> "none",
     pageSize |-> Or(r.rows, server.pageSize), timeout |-> r.timeout,
     preflight |-> Or(r.preflight, r.profile = "inspect" \/ r.tool = "render_sql")]

\* resolve_read_query_settings. render_sql keeps every page within 100 rows.
ReadSettings(r, server) ==
    LET rows == IF r.tool = "render_sql"
                THEN Most(1, Least(Or(r.rows, IF r.profile = "inspect" THEN 100 ELSE 25), 100))
                ELSE Or(r.rows, IF r.profile = "compact" THEN Least(server.pageSize, 100) ELSE server.pageSize)
    IN  [output |-> "sparse", verbosity |-> "sparse", count |-> "none",
         pageSize |-> Most(rows, 1), timeout |-> r.timeout,
         preflight |-> Or(r.preflight, r.profile = "inspect" \/ r.tool = "render_sql")]

\* admin_sql runs its one statement as it is.
AdminSettings(r) ==
    [output |-> "sparse", verbosity |-> "sparse", count |-> "none", pageSize |-> 0,
     timeout |-> r.timeout, preflight |-> FALSE]

\* query_start hands its arguments to execute_sql.
Settings(r, server) ==
    CASE r.tool \in ReadTools -> ReadSettings(r, server)
      [] r.tool = "admin_sql" -> AdminSettings(r)
      [] r.tool \in {"execute_sql", "query_start"} -> ExecuteSettings(r, server)

\* resolve_execute_sql_statement_timeout_override, statement_timeout_override: 1 ms to 300 s.
TimeoutRefused(option) == option # <<>> /\ (Head(option) = 0 \/ Head(option) > 300)

\* Mutant: the client's own timeout stays as it was.
BudgetOfServer(option, server) ==
    [request |-> server.request, statement |-> Or(option, server.statement)]

\* apply_statement_timeout_override: the client waits a second longer than the server.
Budget(option, server) ==
    IF option = <<>> THEN [request |-> server.request, statement |-> server.statement]
    ELSE [request |-> IF server.request = Never THEN Never ELSE Most(server.request, Head(option) + 1),
          statement |-> Head(option)]

\* response_page_hash and the contexts of the read tools: what a cursor is good for. Only
\* they take the session and the profile into account, so a plain query_sql shares its
\* cursors with execute_sql.
Hash(r) ==
    <<r.sql>> \o (IF r.tool \in ReadTools
                  THEN (IF r.session THEN <<"session">> ELSE <<>>)
                       \o (IF r.profile = "none" THEN <<>> ELSE <<r.profile>>)
                       \o (IF r.tool = "query_tuples" THEN <<"query_tuples">> ELSE <<>>)
                  ELSE <<>>)

\* encode_pagination_cursor; one page that is the last has no cursor.
Cursor(r, offset) == <<[hash |-> Hash(r), offset |-> offset, expired |-> FALSE]>>

\* decode_pagination_cursor, and the cursors of what is not paged.
CursorRefused(r, cursor) ==
    cursor # <<>> /\ (~SelectLike(r.statement) \/ Head(cursor).hash # Hash(r) \/ Head(cursor).expired)

OffsetOf(cursor) == IF cursor = <<>> THEN 0 ELSE Head(cursor).offset

\* next_offset_for_exact_count: what follows the rows fetched; <<>> after the last.
NextOfCount(offset, fetched, total) ==
    IF fetched > 0 /\ offset + fetched < total THEN <<offset + fetched>> ELSE <<>>

\* Mutant: the row that only shows that there is more is skipped.
NextOfFetched(offset, fetched, pageSize) ==
    IF fetched > pageSize THEN <<offset + fetched>> ELSE <<>>

\* next_offset_for_page_window: one more row than the page was there.
NextOfWindow(offset, fetched, pageSize) ==
    IF fetched > pageSize THEN <<offset + pageSize>> ELSE <<>>
=============================================================================

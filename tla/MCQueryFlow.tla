---------------------------- MODULE MCQueryFlow ----------------------------
(* Environments and calls for QueryFlow: each of the settings and tools that *)
(* the handlers tell apart.                                                *)
EXTENDS QueryFlow

None == [role |-> "runtime", dbConnect |-> <<>>, pageSize |-> 200, request |-> <<>>, statement |-> <<>>,
         admin |-> FALSE, advisor |-> FALSE, relative |-> FALSE, command |-> <<>>, attempts |-> <<>>,
         cursorTtl |-> <<>>, access |-> "unrestricted", output |-> "rows", oneShot |-> "none"]

NoEnv == [role |-> <<>>, dbConnect |-> <<>>, pageSize |-> <<>>, request |-> <<>>, statement |-> <<>>,
          admin |-> <<>>, advisor |-> <<>>, relative |-> <<>>, command |-> <<>>, attempts |-> <<>>,
          cursorTtl |-> <<>>, output |-> <<>>, dependencies |-> <<>>]

Plain == [cli |-> None,
          env |-> [NoEnv EXCEPT !.pageSize = <<2>>], required |-> {"t"}]

Restricted == [Plain EXCEPT !.cli.access = "restricted", !.cli.role = "migrator",
                            !.env.request = <<5>>, !.env.dependencies = <<"off">>]

Hasty == [Plain EXCEPT !.cli.role = "migrator", !.env.request = <<5>>, !.env.dependencies = <<"fail">>]

Degraded == [Plain EXCEPT !.cli.admin = TRUE, !.env.role = <<"migrator">>,
                          !.cli.output = "data_only", !.env.dependencies = <<"degrade-read-only">>]

\* Refused, each for a reason of its own, and one that needs its database.
Faulty == {[Plain EXCEPT !.env.cursorTtl = <<0>>],
           [Plain EXCEPT !.env.advisor = <<TRUE>>, !.env.command = <<"relative">>],
           [Plain EXCEPT !.cli.attempts = <<11>>], [Plain EXCEPT !.env.admin = <<Bad>>],
           [Plain EXCEPT !.cli.dbConnect = <<"fail-fast">>], [Plain EXCEPT !.cli.oneShot = "doctor"],
           [Plain EXCEPT !.env.role = <<"migrator">>]}

MCStarts ==
    {[e |-> e, reachable |-> TRUE, missing |-> {}] : e \in {Plain, Restricted, Hasty}}
    \cup {[e |-> Degraded, reachable |-> TRUE, missing |-> {"t"}]}
    \cup {[e |-> e, reachable |-> FALSE, missing |-> {"t"}] : e \in Faulty}

Select == [tool |-> "execute_sql", sql |-> "oldest", statement |-> "select", profile |-> "none",
           count |-> <<>>, total |-> <<>>, rows |-> <<>>, preflight |-> <<>>, timeout |-> <<>>,
           output |-> <<>>, verbosity |-> <<>>, describe |-> FALSE, session |-> FALSE]
Other(statement) == [Select EXCEPT !.sql = statement, !.statement = statement]

MCReads ==
    {[Select EXCEPT !.count = <<"exact">>, !.total = <<FALSE>>, !.rows = <<1>>],
     [Select EXCEPT !.profile = "fast_agent", !.count = <<"async">>],
     [Select EXCEPT !.profile = "human_debug", !.rows = <<1>>],
     [Select EXCEPT !.total = <<TRUE>>, !.session = TRUE],
     [Select EXCEPT !.tool = "query_sql", !.rows = <<0>>],
     [Select EXCEPT !.tool = "query_tuples", !.profile = "inspect", !.session = TRUE],
     [Select EXCEPT !.tool = "render_sql", !.timeout = <<0>>],
     [Select EXCEPT !.tool = "render_sql", !.rows = <<500>>],
     [Select EXCEPT !.sql = "newest", !.rows = <<1>>, !.verbosity = <<"standard">>],
     [Select EXCEPT !.describe = TRUE],
     [Other("volatile") EXCEPT !.tool = "query_start", !.count = <<"async">>]}

MCWrites ==
    {[Other("insert") EXCEPT !.timeout = <<8>>],
     [Other("script") EXCEPT !.timeout = <<8>>],
     [Other("create") EXCEPT !.profile = "heavy_view"],
     [Other("insert") EXCEPT !.tool = "admin_sql"],
     Other("insert"), Other("show")}

MCTransactions ==
    {[Other(s) EXCEPT !.session = TRUE] : s \in {"begin", "insert", "commit", "rollback"}}

MCClients ==
    {[requests |-> MCReads \cup {Other("insert")}, calls |-> 2, events |-> 1],
     [requests |-> MCWrites, calls |-> 2, events |-> 2],
     [requests |-> MCTransactions \cup {[Select EXCEPT !.total = <<TRUE>>, !.session = TRUE]},
      calls |-> 4, events |-> 1]}
=============================================================================

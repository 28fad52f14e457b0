------------------------------ MODULE MCAdvisor ------------------------------
(* One caller needs an extension and the other asks for advice, with a       *)
(* server of each configuration of the external program.                     *)
EXTENDS Advisor

Tool(name, method, queries) ==
    [name |-> name, method |-> method, queries |-> queries, all |-> <<"index">>]
Guarded == {Tool("get_top_queries", "", <<>>)}
Advised == {Tool("analyze_query_indexes", "external", <<"scan">>),
            Tool("analyze_query_indexes", "dta", <<"write", "blank", "scan">>),
            Tool("analyze_query_indexes", "dta", <<>>),
            Tool("analyze_db_health", "", <<>>)}
Calls(first, second) == [c \in {"c1", "c2"} |-> IF c = "c1" THEN first ELSE second]

Node(type, relation, columns) == [type |-> type, relation |-> relation, columns |-> columns]
Kind(blank, safe, tuned, plan) == [blank |-> blank, safe |-> safe, tuned |-> tuned, plan |-> plan]
MCKinds ==
    [k \in {"scan", "join", "write", "blank", "utility", "broken"} |->
        CASE k = "scan" -> Kind(FALSE, TRUE, TRUE, {Node("Seq Scan", "t", {"a"})})
          [] k = "join" -> Kind(FALSE, TRUE, TRUE, {Node("Hash Join", "", {}), Node("Seq Scan", "u", {}),
                                                    Node("Bitmap Heap Scan", "t", {"b"})})
          [] k = "write" -> Kind(FALSE, FALSE, FALSE, {})
          [] k = "blank" -> Kind(TRUE, TRUE, FALSE, {})
          [] k = "utility" -> Kind(FALSE, TRUE, FALSE, {})
          [] OTHER -> Kind(FALSE, TRUE, TRUE, {})]
MCWorkloads == {<<"write", "broken", "utility", "join", "scan", "scan", "blank">>, <<"write">>}

Server(enabled, command, fallback, tools) ==
    [enabled |-> enabled, command |-> command, attempts |-> 3, fallback |-> fallback, tools |-> tools]
MCServers ==
    {Server(TRUE, TRUE, FALSE, Calls(Guarded, {Tool("analyze_workload_indexes", "dta", <<>>)})),
     Server(TRUE, FALSE, FALSE, Calls({Tool("explain_query", "analyze", <<>>)}, Advised)),
     Server(TRUE, FALSE, TRUE, Calls({}, Advised)),
     Server(FALSE, TRUE, FALSE, Calls({}, Advised)), Server(FALSE, TRUE, TRUE, Calls({}, Advised))}
    \cup [enabled : {TRUE}, command : {TRUE}, attempts : {3}, fallback : BOOLEAN, tools : {Calls({}, Advised)}]

Key(column) == [table |-> "t", columns |-> {column}]
Advice(column, reason) == [key |-> Key(column), reason |-> reason, bad |-> FALSE]
MCReplies ==
    {[advice |-> <<Advice("i", "p"), Advice("i", "q")>>, errors |-> 1, stop |-> ""],
     [advice |-> <<Advice("j", "p")>>, errors |-> 0, stop |-> ""],
     [advice |-> <<Advice("k", "p"), Advice("l", "p")>>, errors |-> 0, stop |-> ""],
     [advice |-> <<[key |-> Key("i"), reason |-> "p", bad |-> TRUE]>>, errors |-> 0, stop |-> ""],
     [advice |-> <<>>, errors |-> 0, stop |-> "done"],
     [advice |-> <<Advice("j", "q")>>, errors |-> 2, stop |-> "too_long"]}
=============================================================================

------------------------------ MODULE Advisor ------------------------------
(* The advisor and health tools (src/tools/advisor.rs, src/tools/health.rs, *)
(* src/advisor_extension.rs, src/tools.rs): what they do once their         *)
(* extension is there. analyze_workload_indexes reads the workload and      *)
(* analyses its queries; analyze_query_indexes is given them; either asks   *)
(* the planner (dta) or an external program, over and over until it has     *)
(* nothing new. get_top_queries, and explain_query with hypothetical        *)
(* indexes, only need the extension (hypopg, in a guard of its own).         *)
(*                                                                         *)
(* The program is started anew for each attempt. It may fail in every way   *)
(* there is, and need not end; it need not even read what it is sent.       *)
EXTENDS ExtensionGuard, FiniteSets, SequencesExt

CONSTANTS
    Workloads,      \* what pg_stat_statements may hold, slowest first
    Kinds,          \* kinds of statements: [blank, safe, tuned, plan]
    Servers,        \* AdvisorExternalConfigs [enabled, command, attempts, fallback], with what
                    \* each caller calls, tools
    Replies,        \* what the program may print: [advice, errors, stop]
    MaxQueries,     \* MAX_NUM_INDEX_TUNING_QUERIES
    MaxAdvice,      \* MAX_EXTERNAL_RECOMMENDATIONS_PER_ATTEMPT
    MaxTotal,       \* MAX_EXTERNAL_TOTAL_RECOMMENDATIONS
    MaxErrors,      \* MAX_EXTERNAL_ERRORS_PER_ATTEMPT
    MaxTotalErrors, \* MAX_EXTERNAL_TOTAL_ERRORS
    MaxReasons,     \* as many as fit into MAX_EXTERNAL_REASON_BYTES
    Pipe            \* how many recommendations of a request the pipe holds unread
ASSUME RepliesAssumption == \A r \in Replies : r.advice \in Seq(Range(r.advice))

VARIABLES
    server,    \* of Servers
    tool,      \* what each caller called
    child,     \* its external program: "none", "started", "reading", "ended"
    attempt,   \* of run_external_advisor_loop
    kept,      \* its recommendations, in order: [key, reasons]
    errors,    \* how many errors it collected
    offered,   \* history: the recommendations that all the attempts came with
    advice     \* the answer's content
loopVars == <<server, tool, child, attempt, kept, errors, offered, advice>>
vars == <<allVars, loopVars>>

NoTool == [name |-> "none", method |-> "", queries |-> <<>>, all |-> <<>>]
NoAdvice == [source |-> "none", queries |-> <<>>, advised |-> {}, errors |-> {}]

Init ==
    /\ GuardInit
    /\ server \in Servers
    /\ tool = [c \in Callers |-> NoTool]
    /\ child = [c \in Callers |-> "none"] /\ attempt = [c \in Callers |-> 0]
    /\ kept = [c \in Callers |-> <<>>] /\ errors = [c \in Callers |-> 0]
    /\ offered = [c \in Callers |-> {}] /\ advice = [c \in Callers |-> NoAdvice]

-----------------------------------------------------------------------------
(* The planner's advice. *)

\* walk_plan_node, over all nodes of the plan: a scan of a relation with conditions on columns.
AdviceOf(plan) ==
    {[table |-> n.relation, columns |-> n.columns] :
        n \in {m \in plan : /\ m.type \in {"Seq Scan", "Bitmap Heap Scan"}
                            /\ m.relation # "" /\ m.columns # {}}}

\* Mutant: nothing is analysed after the first error.
AnalyzedToFirstError(queries) ==
    LET bad == {i \in DOMAIN queries : ~Kinds[queries[i]].safe \/ Kinds[queries[i]].plan = {}}
        good == {i \in DOMAIN queries : \A j \in bad : i < j}
    IN  [advised |-> UNION {AdviceOf(Kinds[queries[i]].plan) : i \in good},
         errors |-> {i \in bad : \A j \in bad : i <= j}]

\* analyze_queries_for_indexes: blanks are passed over, what is unsafe or has no plan is an error.
Analyzed(queries) ==
    LET asked == {i \in DOMAIN queries : ~Kinds[queries[i]].blank}
        failed == {i \in asked : ~Kinds[queries[i]].safe \/ Kinds[queries[i]].plan = {}}
    IN  [advised |-> UNION {AdviceOf(Kinds[queries[i]].plan) : i \in asked \ failed}, errors |-> failed]

\* classify_workload_query_for_index_advisor, and the first MaxQueries that are left of a workload.
Tuned(workload) ==
    LET fit == SelectSeq(workload, LAMBDA q : ~Kinds[q].blank /\ Kinds[q].safe /\ Kinds[q].tuned)
    IN  SubSeq(fit, 1, IF Len(fit) < MaxQueries THEN Len(fit) ELSE MaxQueries)

-----------------------------------------------------------------------------
(* The tools. *)

NeedsExtension(t) == t.name \in {"analyze_workload_indexes", "get_top_queries", "explain_query"}
GuardOnly == UNCHANGED loopVars

\* A call begins; arguments are refused before anything else.
Refused(t) ==
    \/ t.name = "analyze_query_indexes" /\ (t.queries = <<>> \/ Len(t.queries) > MaxQueries)
    \/ t.name \in {"analyze_query_indexes", "analyze_workload_indexes"} /\ t.method \notin {"dta", "external"}
    \/ t.name = "explain_query" /\ t.method \in {"analyze", "unsafe"}
Call(c) ==
    /\ pc[c] = "idle"
    /\ \E t \in server.tools[c] :
          /\ tool' = [tool EXCEPT ![c] = t]
          /\ IF Refused(t) THEN Answers(c, "refused")
             ELSE Goto(c, IF NeedsExtension(t) THEN "ensure"
                          ELSE IF t.name = "analyze_db_health" THEN "health" ELSE "advise") /\ UNCHANGED result
    /\ UNCHANGED <<guardVars, seen, rounds, left, server, child, attempt, kept, errors, offered, advice>>

\* Of a workload that is read the tuned queries go on to the advisor.
UseExtension(c) ==
    \/ tool[c].name # "analyze_workload_indexes" /\ Use(c, "served") /\ GuardOnly
    \/ /\ tool[c].name = "analyze_workload_indexes" /\ Use(c, "advise")
       /\ \E w \in Workloads : tool' = [tool EXCEPT ![c].queries = Tuned(w)]
       /\ UNCHANGED <<server, child, attempt, kept, errors, offered, advice>>

Quietly(c, place, answer) ==
    /\ pc[c] = place /\ Answers(c, answer)
    /\ UNCHANGED <<guardVars, seen, rounds, left>>

\* get_top_queries and explain_query have their rows.
Serve(c) == Quietly(c, "served", "rows") /\ GuardOnly

\* parse_health_types: all the checks if none is named.
Checks(t) == IF t.queries \in {<<>>, <<"all">>} THEN t.all ELSE t.queries

\* A section for each check; a query that fails is told of in its section (query_rows_or_error).
Sections(asked) ==
    {[NoAdvice EXCEPT !.source = "health", !.queries = asked, !.errors = broken] : broken \in SUBSET DOMAIN asked}

\* analyze_db_health.
Health(c) ==
    /\ Quietly(c, "health", "health")
    /\ \E sections \in Sections(Checks(tool[c])) : advice' = [advice EXCEPT ![c] = sections]
    /\ UNCHANGED <<server, tool, child, attempt, kept, errors, offered>>

DtaAdvice(c) ==
    LET a == Analyzed(tool[c].queries)
    IN  [source |-> "dta", queries |-> tool[c].queries, advised |-> a.advised, errors |-> a.errors]

\* execute_advisor_method.
Advise(c) ==
    /\ pc[c] = "advise"
    /\ \/ /\ tool[c].queries = <<>>
          /\ Answers(c, "no_queries") /\ advice' = [advice EXCEPT ![c] = [NoAdvice EXCEPT !.source = "nothing"]]
          /\ UNCHANGED attempt
       \/ /\ tool[c].queries # <<>> /\ tool[c].method = "dta"
          /\ Answers(c, "advice") /\ advice' = [advice EXCEPT ![c] = DtaAdvice(c)]
          /\ UNCHANGED attempt
       \/ /\ tool[c].queries # <<>> /\ tool[c].method = "external"
          /\ Goto(c, "attempt") /\ attempt' = [attempt EXCEPT ![c] = 1]
          /\ UNCHANGED <<result, advice>>
    /\ UNCHANGED <<guardVars, seen, rounds, left, server, tool, child, kept, errors, offered>>

-----------------------------------------------------------------------------
(* The external program. *)

\* The loop fails: all it had is dropped, and its child killed. What is left is the planner.
Fails(c, reason) ==
    /\ IF server.fallback
       THEN Answers(c, "advice") /\ advice' = [advice EXCEPT ![c] = DtaAdvice(c)]
       ELSE Answers(c, reason) /\ UNCHANGED advice
    /\ child' = [child EXCEPT ![c] = "none"]
    /\ UNCHANGED <<guardVars, seen, rounds, left, server, tool, attempt, kept, errors, offered>>

\* An attempt begins.
Spawn(c) ==
    /\ pc[c] = "attempt"
    /\ \/ ~server.enabled /\ Fails(c, "external_disabled")
       \/ server.enabled /\ ~server.command /\ Fails(c, "external_not_configured")
       \/ server.enabled /\ server.command /\ Fails(c, "external_spawn_failed")
       \/ /\ server.enabled /\ server.command
          /\ Goto(c, "write") /\ child' = [child EXCEPT ![c] = "started"]
          /\ UNCHANGED <<guardVars, seen, rounds, left, result, server, tool, attempt, kept, errors, offered, advice>>

\* The request, with all the recommendations so far: written before the time limit begins.
Write(c) ==
    /\ pc[c] = "write"
    /\ \/ /\ child[c] = "reading" \/ Len(kept[c]) <= Pipe
          /\ Goto(c, "read")
          /\ UNCHANGED <<guardVars, seen, rounds, left, result, loopVars>>
       \/ child[c] = "ended" /\ Fails(c, "external_io_failed")

ChildReads(c) ==
    /\ child[c] = "started" /\ child' = [child EXCEPT ![c] = "reading"]
    /\ UNCHANGED <<allVars, server, tool, attempt, kept, errors, offered, advice>>
ChildEnds(c) ==
    /\ child[c] \in {"started", "reading"} /\ child' = [child EXCEPT ![c] = "ended"]
    /\ UNCHANGED <<allVars, server, tool, attempt, kept, errors, offered, advice>>

\* It prints too much, which is seen while it runs (read_stream_capped).
ChildFloods(c) ==
    /\ pc[c] = "read" /\ child[c] \in {"started", "reading"}
    /\ Fails(c, "external_output_too_large")

\* The time limit of an invocation is over before the program is.
TimesOut(c) ==
    /\ pc[c] = "read" /\ child[c] \in {"started", "reading"}
    /\ Fails(c, "external_timeout")

\* Mutant: the index of what is kept is made for each attempt.
KnownOfAttempt(c, state, a) == {i \in Len(kept[c]) + 1..Len(state.kept) : state.kept[i].key = a.key}
KnownAlready(c, state, a) == {i \in DOMAIN state.kept : state.kept[i].key = a.key}

\* merge_recommendation_reason.
Merged(reasons, reason) ==
    IF reason \in Range(reasons) \/ Len(reasons) >= MaxReasons THEN reasons ELSE Append(reasons, reason)

\* normalize_external_recommendation: too long, or without a table or columns.
Unfit(a) == a.bad

\* One recommendation of a reply.
Absorb(c, state, a) ==
    LET known == KnownAlready(c, state, a)
    IN  IF state.failed THEN state
        ELSE IF Unfit(a) THEN [state EXCEPT !.failed = TRUE]
        ELSE IF known # {} THEN [state EXCEPT !.kept[CHOOSE i \in known : TRUE].reasons = Merged(@, a.reason)]
        ELSE IF Len(state.kept) >= MaxTotal THEN [state EXCEPT !.failed = TRUE]
        ELSE [state EXCEPT !.kept = Append(@, [key |-> a.key, reasons |-> <<a.reason>>]), !.new = TRUE]

\* All of them, one after the other.
AllAbsorbed(c, list) ==
    LET after[n \in 0..Len(list)] ==
            IF n = 0 THEN [kept |-> kept[c], new |-> FALSE, failed |-> FALSE]
            ELSE Absorb(c, after[n - 1], list[n])
    IN  after[Len(list)]

\* A reply is read: the loop is over when it says so, when it brings nothing new, and with the
\* last attempt.
Reply(c) ==
    /\ pc[c] = "read" /\ child[c] = "ended"
    /\ \E r \in Replies : LET
           state == AllAbsorbed(c, r.advice)
           total == errors[c] + r.errors
           over == r.stop # "" \/ ~state.new \/ attempt[c] = server.attempts
       IN  IF \/ Len(r.advice) > MaxAdvice \/ r.errors > MaxErrors \/ state.failed
              \/ total > MaxTotalErrors \/ r.stop = "too_long"
           THEN Fails(c, "external_invalid_response")
           ELSE /\ kept' = [kept EXCEPT ![c] = state.kept]
                /\ errors' = [errors EXCEPT ![c] = total]
                /\ offered' = [offered EXCEPT ![c] = @ \cup {a.key : a \in Range(r.advice)}]
                /\ child' = [child EXCEPT ![c] = "none"]
                /\ IF over
                   THEN /\ Answers(c, "advice")
                        /\ advice' = [advice EXCEPT ![c] =
                               [NoAdvice EXCEPT !.source = "external", !.queries = tool[c].queries,
                                                !.advised = {state.kept[i].key : i \in DOMAIN state.kept}]]
                        /\ UNCHANGED attempt
                   ELSE /\ Goto(c, "attempt") /\ attempt' = [attempt EXCEPT ![c] = @ + 1]
                        /\ UNCHANGED <<result, advice>>
                /\ UNCHANGED <<guardVars, seen, rounds, left, server, tool>>

\* The program ends with an error, or what it printed is no reply.
BadReply(c) ==
    /\ pc[c] = "read" /\ child[c] = "ended"
    /\ \E reason \in {"external_non_zero_exit", "external_invalid_response"} : Fails(c, reason)

-----------------------------------------------------------------------------
\* The answer is there, and the caller may call again.
Return(c) ==
    /\ pc[c] = "answered" /\ Goto(c, "idle")
    /\ result' = [result EXCEPT ![c] = "none"] /\ seen' = [seen EXCEPT ![c] = "nothing"]
    /\ rounds' = [rounds EXCEPT ![c] = <<0, 0>>] /\ left' = [left EXCEPT ![c] = 0]
    /\ attempt' = [attempt EXCEPT ![c] = 0] /\ kept' = [kept EXCEPT ![c] = <<>>]
    /\ errors' = [errors EXCEPT ![c] = 0] /\ offered' = [offered EXCEPT ![c] = {}]
    /\ advice' = [advice EXCEPT ![c] = NoAdvice]
    /\ tool' = [tool EXCEPT ![c] = NoTool]
    /\ UNCHANGED <<guardVars, server, child>>

Step(c) ==
    \/ GuardStep(c) /\ GuardOnly
    \/ UseExtension(c) \/ Serve(c) \/ Health(c) \/ Advise(c)
    \/ Spawn(c) \/ Write(c) \/ Reply(c) \/ BadReply(c) \/ Return(c)
DbaChanges == Change /\ GuardOnly
Tick == TimePasses(Awaits \cup {"write", "read", "served", "advise", "attempt", "health"}) /\ GuardOnly
Next ==
    \/ \E c \in Callers : Call(c) \/ Step(c) \/ TimesOut(c) \/ ChildReads(c) \/ ChildEnds(c) \/ ChildFloods(c)
    \/ \E c \in Callers : Abort(c) /\ GuardOnly
    \/ DbaChanges \/ Tick

\* A task that can go on does, and the runtime's timer fires. Of the program nothing is assumed.
Fairness == \A c \in Callers : WF_vars(Step(c)) /\ WF_vars(TimesOut(c))
Spec == Init /\ [][Next]_vars /\ Fairness

-----------------------------------------------------------------------------
\* Who is told that the extension is not there is told of something no older than the cache's
\* time to live and the two queries of a probe, the first of which may have looked right at its
\* beginning: nothing that callers do meanwhile keeps the news alive
\* (ExtensionUnavailableCache, refresh_extension_status, recheck_extension_after_runtime_error).
UnavailableIsRecent ==
    [][ \A c \in Callers : result[c] # "unavailable" /\ result'[c] = "unavailable"
            => missedAgo <= UnavailableTtl + 2 * QueryTimeout ]_vars

\* A refresh that was begun is completed, whatever its probe comes to, unless its task is
\* canceled (refresh_extension_status: complete_refresh comes before the probe's error is
\* returned).
RefreshEnds == refreshing = "yes" ~> refreshing # "yes"

\* The one wait without a time limit: the request is longer than the pipe and the program, though
\* it runs, does not read (write_all in ProcessAdvisorExternalRunner::invoke).
InputUnread(c) == pc[c] = "write" /\ child[c] = "started" /\ Len(kept[c]) > Pipe

\* Every call is answered unless it waits for ever in that one place: also when the program hangs
\* later, fails or floods, and when the refresh that the call waits for was orphaned
\* (ensure_extension_ready, run_external_advisor_loop).
CallsEnd == \A c \in Callers : pc[c] # "idle" ~> (pc[c] = "idle" \/ InputUnread(c))

\* Nothing else hangs: neither the calls nor what they leave to each other.
NothingHangs == RefreshEnds /\ CallsEnd

\* An external answer has every recommendation of every attempt, each once
\* (run_external_advisor_loop).
NothingForgotten ==
    \A c \in Callers :
        advice[c].source = "external" =>
            advice[c].advised = offered[c] /\ Len(kept[c]) = Cardinality(offered[c])

\* Each query of an answer is analysed or told of.
TellsOfAll(a) ==
    \A i \in DOMAIN a.queries :
        LET k == Kinds[a.queries[i]]
        IN  IF k.safe /\ k.plan # {} /\ ~k.blank THEN AdviceOf(k.plan) \subseteq a.advised
            ELSE k.blank \/ i \in a.errors

\* One query that fails costs no other its place in the answer: each query is
\* analysed or told of as an error (analyze_queries_for_indexes).
NothingAskedIsDropped == \A c \in Callers : advice[c].source = "dta" => TellsOfAll(advice[c])
=============================================================================

-------------------------- MODULE QueryFlow_proofs --------------------------
(* Theorems of QueryFlow, for all clients, environments and durations.     *)
EXTENDS QueryFlow, FiniteSetTheorems, SequenceTheorems, TLAPS

\* A timeout that TimeoutRefused lets pass.
TimeoutFits(option) == option = <<>> \/ Head(option) \in 1..300

\* What the gates of the tools leave of a request, once it is not described only.
Gated(r) ==
    /\ server.degraded => ReadSafe(r.statement) \/ r.tool = "admin_sql"
    /\ server.role = "runtime" /\ r.statement = "create" => r.tool = "admin_sql"

\* The call in progress passed the gates, unless it only describes.
CallInv ==
    call.at # "idle" =>
        /\ {"at", "request", "settings", "follows", "total"} \subseteq DOMAIN call
        /\ {"timeout", "count"} \subseteq DOMAIN call.settings
        /\ call.request \in client.requests
        /\ TimeoutFits(call.settings.timeout)
        /\ call.follows => paging.state # "none"
        /\ call.at # "describe" => Gated(call.request)

\* The request whose pages are followed passed them.
PagingInv ==
    paging.state # "none" =>
        /\ {"state", "request"} \subseteq DOMAIN paging
        /\ paging.request \in client.requests
        /\ Gated(paging.request)

\* A write that the policy allows.
Allowed(w) ==
    /\ server.access # "restricted"
    /\ server.degraded /\ w.tool # "admin_sql" => ReadSafe(w.statement)
    /\ server.role = "runtime" /\ w.tool # "admin_sql" => w.statement # "create"

\* So are the writes that were given up and may still happen.
WritesInv == \A w \in writes \cup orphans : Allowed(w)

\* Before the server is up nothing is asked.
ServerInv ==
    /\ client \in Clients
    /\ server.up => server.request \in Nat
    /\ ~server.up => call = Idle /\ paging = NoPaging /\ writes = {} /\ orphans = {}

FlowInv == ServerInv /\ CallInv /\ PagingInv /\ WritesInv /\ OverridesLeaveNothing

-----------------------------------------------------------------------------
(* What a statement does in the database                                   *)

\* What a call that runs effect may leave behind.
Leaves(effect) ==
    /\ \A w \in writes' \ writes :
          Writes(effect) /\ ~ReadOnly /\ w = [tool |-> call.request.tool, statement |-> effect]
    /\ \A o \in orphans' \ orphans :
          /\ Writes(effect) /\ ~ReadOnly
          /\ o = [statement |-> effect, tool |-> call.request.tool, timeout |-> call.settings.timeout]
          /\ call.settings.timeout = <<>> \/ effect = "script"

\* A statement writes what it is, and only where the connection may write.
LEMMA TakesEffectWrites ==
    ASSUME NEW effect, NEW onSession, NEW tool, TakesEffect(effect, onSession, tool)
    PROVE  \A w \in writes' \ writes : Writes(effect) /\ w = [tool |-> tool, statement |-> effect]
    BY DEF TakesEffect

\* An overridden timeout is shorter than the client's patience.
LEMMA OverrideIsAnswered ==
    ASSUME NEW effect, NEW duration \in Durations, NEW option, TimeoutFits(option),
           server.request \in Nat, option # <<>>, effect # "script"
    PROVE  Lasts(effect, duration, Budget(option, server)) <= Budget(option, server).request
<1>1. PICK h \in 1..300 : h = Head(option)
    BY DEF TimeoutFits
<1>2. duration \in Nat /\ Budget(option, server).statement = h
    BY <1>1, DurationsKnown DEF Budget
<1>3. PICK n \in Nat : n = server.request
    OBVIOUS
<1>4. Budget(option, server).request = IF n = Never THEN Never ELSE Most(n, h + 1)
    BY <1>1, <1>3 DEF Budget
<1>5. Lasts(effect, duration, Budget(option, server)) = 1 * Least(duration, h)
    BY <1>2 DEF Lasts
<1>6. h <= (IF n = Never THEN Never ELSE Most(n, h + 1))
    BY SMT DEF Never, Most
<1>7. 1 * Least(duration, h) <= h
    BY <1>2, SMT DEF Least
<1>8. Least(duration, h) \in Nat /\ (IF n = Never THEN Never ELSE Most(n, h + 1)) \in Nat
    BY <1>2, SMT DEF Least, Never, Most
<1> QED BY <1>4, <1>5, <1>6, <1>7, <1>8

\* The statement of a call leaves what Leaves says, however it ends.
LEMMA StatementLeaves ==
    ASSUME NEW effect, server.request \in Nat, TimeoutFits(call.settings.timeout),
           Statement(effect, TRUE, TRUE)
    PROVE  Leaves(effect)
<1> DEFINE budget == Budget(call.settings.timeout, server)
           tool == call.request.tool
<1>1. CASE Unanswered
    BY <1>1 DEF Unanswered, Leaves
<1>2. CASE \E on \in {OnSession} : ~Forbidden(effect) /\ TakesEffect(effect, on, tool) /\ orphans' = orphans
    BY <1>2, TakesEffectWrites DEF Forbidden, Leaves
<1>3. CASE HasNone(OnSession) /\ orphans' = orphans
    BY <1>3 DEF HasNone, Leaves
<1>4. ASSUME NEW duration \in Durations, ~(Lasts(effect, duration, budget) <= budget.request),
             ~Forbidden(effect), GivenUp(effect)
      PROVE  Leaves(effect)
  <2>1. CASE OnSession
    <3>1. orphans' = orphans /\ (TakesEffect(effect, TRUE, tool) \/ HasNone(TRUE))
        BY <1>4, <2>1 DEF GivenUp
    <3>2. CASE TakesEffect(effect, TRUE, tool)
        BY <1>4, <3>1, <3>2, TakesEffectWrites DEF Forbidden, Leaves
    <3>3. CASE HasNone(TRUE)
        BY <3>1, <3>3 DEF HasNone, Leaves
    <3> QED BY <3>1, <3>2, <3>3
  <2>2. CASE ~OnSession
    <3>1. writes' = writes
        BY <1>4, <2>2 DEF GivenUp
    <3>2. call.settings.timeout = <<>> \/ effect = "script"
        BY <1>4, OverrideIsAnswered
    <3>3. ASSUME NEW o \in orphans' \ orphans
          PROVE  /\ Writes(effect)
                 /\ o = [statement |-> effect, tool |-> tool, timeout |-> call.settings.timeout]
        BY <1>4, <2>2, <3>3 DEF GivenUp
    <3> QED BY <1>4, <3>1, <3>2, <3>3 DEF Forbidden, Leaves
  <2> QED BY <2>1, <2>2
<1>5. CASE ~Forbidden(effect) /\ Broken(effect) /\ orphans' = orphans
  <2>1. CASE OnSession
      BY <1>5, <2>1 DEF Broken, Leaves
  <2>2. CASE ~OnSession /\ TakesEffect(effect, FALSE, tool)
      BY <1>5, <2>2, TakesEffectWrites DEF Forbidden, Leaves
  <2>3. CASE ~OnSession /\ HasNone(FALSE)
      BY <1>5, <2>3 DEF HasNone, Leaves
  <2> QED BY <1>5, <2>1, <2>2, <2>3 DEF Broken
<1> QED BY <1>1, <1>2, <1>3, <1>4, <1>5 DEF Statement

\* What is left by a call that passed the gates is allowed.
LEMMA LeftIsAllowed ==
    ASSUME FlowInv, NEW effect, Leaves(effect),
           Writes(effect) => effect = call.request.statement /\ Gated(call.request),
           UNCHANGED server
    PROVE  WritesInv' /\ OverridesLeaveNothing'
<1>1. ASSUME NEW w \in (writes' \ writes) \cup (orphans' \ orphans) PROVE Allowed(w)
  <2>1. Writes(effect) /\ ~ReadOnly /\ w.tool = call.request.tool /\ w.statement = effect
      BY <1>1 DEF Leaves
  <2> QED BY <2>1 DEF Allowed, Gated, ReadOnly, ReadSafe, Writes
<1>2. \A w \in writes' \cup orphans' : Allowed(w)
    BY <1>1 DEF FlowInv, WritesInv
<1>3. \A o \in orphans' : o.timeout = <<>> \/ o.statement = "script"
    BY DEF Leaves, FlowInv, OverridesLeaveNothing
<1> QED BY <1>2, <1>3 DEF WritesInv, Allowed, OverridesLeaveNothing
-----------------------------------------------------------------------------
(* Gates and settings                                                      *)

\* A request that its tool lets pass has a timeout that fits.
LEMMA SettingsFit ==
    ASSUME NEW r, NEW cursor, client \in Clients, r \in client.requests, ~RefusedAtOnce(r, cursor)
    PROVE  /\ TimeoutFits(Settings(r, server).timeout)
           /\ {"timeout", "count"} \subseteq DOMAIN Settings(r, server)
<1>1. /\ r.tool \in {"execute_sql", "query_start", "admin_sql"} \cup ReadTools
      /\ r.timeout = <<>> \/ Head(r.timeout) \in Nat
    BY RequestsKnown
<1>2. ASSUME ~TimeoutRefused(r.timeout) PROVE TimeoutFits(r.timeout)
  <2>1. CASE r.timeout = <<>>
      BY <2>1 DEF TimeoutFits
  <2>2. CASE r.timeout # <<>>
    <3>1. PICK n \in Nat : n = Head(r.timeout)
        BY <1>1, <2>2
    <3>2. n # 0 /\ ~(n > 300)
        BY <1>2, <2>2, <3>1 DEF TimeoutRefused
    <3>3. n \in 1..300
        BY <3>2
    <3> QED BY <3>1, <3>3 DEF TimeoutFits
  <2> QED BY <2>1, <2>2
<1>3. ASSUME r.tool \in ReadTools
      PROVE  /\ Settings(r, server) = ReadSettings(r, server) /\ ~TimeoutRefused(r.timeout)
    BY <1>3 DEF Settings, RefusedAtOnce, ReadRefuses, ReadTools
<1>4. ASSUME r.tool = "admin_sql"
      PROVE  /\ Settings(r, server) = AdminSettings(r) /\ ~TimeoutRefused(r.timeout)
    BY <1>4 DEF Settings, RefusedAtOnce, AdminRefuses, ReadTools
<1>5. ASSUME r.tool \in {"execute_sql", "query_start"}
      PROVE  /\ Settings(r, server) = ExecuteSettings(r, server)
             /\ ~TimeoutRefused(ExecuteSettings(r, server).timeout)
    BY <1>5 DEF Settings, RefusedAtOnce, ExecuteRefuses, ReadTools
<1>6. TimeoutFits(ExecuteSettings(r, server).timeout) \/ r.tool \notin {"execute_sql", "query_start"}
  <2>1. ExecuteSettings(r, server).timeout =
            IF r.profile = "heavy_view" /\ r.timeout = <<>> THEN <<300>> ELSE r.timeout
      BY DEF ExecuteSettings
  <2>2. TimeoutFits(<<300>>)
      BY DEF TimeoutFits
  <2> QED BY <1>2, <1>5, <2>1, <2>2
<1>7. /\ {"timeout", "count"} \subseteq DOMAIN ReadSettings(r, server)
      /\ {"timeout", "count"} \subseteq DOMAIN AdminSettings(r)
      /\ {"timeout", "count"} \subseteq DOMAIN ExecuteSettings(r, server)
    BY DEF ReadSettings, AdminSettings, ExecuteSettings
<1>8. ReadSettings(r, server).timeout = r.timeout /\ AdminSettings(r).timeout = r.timeout
    BY DEF ReadSettings, AdminSettings
<1> QED BY <1>1, <1>2, <1>3, <1>4, <1>5, <1>6, <1>7, <1>8

\* A request that its tool lets pass is gated, unless it only describes.
LEMMA PassedIsGated ==
    ASSUME NEW r, NEW cursor, client \in Clients, r \in client.requests, ~RefusedAtOnce(r, cursor),
           FirstStage(r, Settings(r, server)) # "describe"
    PROVE  Gated(r)
<1>1. r.tool \in {"execute_sql", "query_start", "admin_sql"} \cup ReadTools
    BY RequestsKnown
<1>2. ~r.describe
    BY DEF FirstStage
<1>3. CASE r.tool \in ReadTools
    BY <1>3 DEF RefusedAtOnce, ReadRefuses, ReadTools, Gated, ReadSafe
<1>4. CASE r.tool = "execute_sql"
    BY <1>2, <1>4 DEF RefusedAtOnce, ExecuteRefuses, RuntimeBlocked, ReadTools, Gated
<1>5. CASE r.tool = "query_start"
    BY <1>5 DEF RefusedAtOnce, QueryStartRefuses, ReadTools, Gated, ReadSafe
<1>6. CASE r.tool = "admin_sql"
    BY <1>6 DEF Gated
<1> QED BY <1>1, <1>3, <1>4, <1>5, <1>6

\* Ending the pages that a call followed says nothing new about them.
LEMMA PagingFailsKeeps ==
    ASSUME PagingInv, UNCHANGED <<client, server>>, NEW follows, follows => paging.state # "none",
           PagingFails(follows)
    PROVE  PagingInv'
<1>1. CASE follows
  <2>1. paging' = [paging EXCEPT !.state = "failed"]
      BY <1>1 DEF PagingFails
  <2>2. DOMAIN paging' = DOMAIN paging /\ paging'.request = paging.request
      BY <1>1, <2>1 DEF PagingInv
  <2> QED BY <1>1, <2>2 DEF PagingInv, Gated
<1>2. CASE ~follows
    BY <1>2 DEF PagingFails, PagingInv, Gated
<1> QED BY <1>1, <1>2

\* A call that is made is refused or has passed the gates.
LEMMA CallMade ==
    ASSUME FlowInv, UNCHANGED <<client, server>>, NEW r \in client.requests, NEW cursor, NEW follows,
           follows => paging.state # "none", Call(r, cursor, follows)
    PROVE  CallInv' /\ PagingInv'
<1>1. client \in Clients /\ PagingInv
    BY DEF FlowInv, ServerInv
<1>2. CASE RefusedAtOnce(r, cursor)
  <2>1. call' = Idle /\ PagingFails(follows)
      BY <1>2 DEF Call, Error, Answer
  <2> QED BY <1>1, <2>1, PagingFailsKeeps DEF CallInv, Idle
<1>3. CASE ~RefusedAtOnce(r, cursor)
  <2>1. /\ call' = [at |-> FirstStage(r, Settings(r, server)), request |-> r, cursor |-> cursor,
                    settings |-> Settings(r, server), follows |-> follows, total |-> <<>>,
                    base |-> Result(r.sql, r.session), steady |-> TRUE]
        /\ paging' = paging
      BY <1>3 DEF Call
  <2>2. /\ {"at", "request", "settings", "follows", "total"} \subseteq DOMAIN call'
        /\ call'.at = FirstStage(r, Settings(r, server)) /\ call'.request = r
        /\ call'.settings = Settings(r, server) /\ call'.follows = follows
      BY <2>1
  <2>3. /\ TimeoutFits(Settings(r, server).timeout)
        /\ {"timeout", "count"} \subseteq DOMAIN Settings(r, server)
      BY <1>1, <1>3, SettingsFit
  <2>4. call'.at # "describe" => Gated(r)'
    <3>1. call'.at # "describe" => Gated(r)
        BY <1>1, <1>3, <2>2, PassedIsGated
    <3> QED BY <3>1 DEF Gated
  <2>5. CallInv'
      BY <2>1, <2>2, <2>3, <2>4 DEF CallInv, Gated
  <2> QED BY <1>1, <2>1, <2>5 DEF PagingInv, Gated
<1> QED BY <1>2, <1>3

\* A call that goes on to another stage stays what it is.
LEMMA CallGoesOn ==
    ASSUME FlowInv, UNCHANGED <<client, server, paging>>, call.at \notin {"idle", "describe"},
           DOMAIN call' = DOMAIN call, call'.request = call.request, call'.follows = call.follows,
           DOMAIN call'.settings = DOMAIN call.settings,
           call'.settings.timeout = call.settings.timeout
    PROVE  CallInv' /\ PagingInv'
    BY DEF FlowInv, CallInv, PagingInv, Gated

\* So does one that changes its stage alone.
LEMMA ToKeeps ==
    ASSUME FlowInv, UNCHANGED <<client, server>>, call.at \notin {"idle", "describe"}, NEW stage, To(stage)
    PROVE  CallInv' /\ PagingInv'
<1>1. call' = [call EXCEPT !.at = stage] /\ paging' = paging
    BY DEF To, clientVars
<1>2. {"at", "request", "settings", "follows", "total"} \subseteq DOMAIN call
    BY DEF FlowInv, CallInv
<1>3. DOMAIN call' = DOMAIN call /\ call'.request = call.request /\ call'.follows = call.follows
      /\ call'.settings = call.settings
    BY <1>1, <1>2
<1> QED BY <1>1, <1>3, CallGoesOn

\* A call that fails takes the pages it followed with it.
LEMMA FailsKeeps ==
    ASSUME FlowInv, UNCHANGED <<client, server>>, call.at # "idle", Fails
    PROVE  CallInv' /\ PagingInv'
<1>1. call' = Idle /\ PagingFails(call.follows)
    BY DEF Fails, Error, Answer
<1>2. PagingInv /\ (call.follows => paging.state # "none")
    BY DEF FlowInv, CallInv
<1>3. PagingInv'
    BY <1>1, <1>2, PagingFailsKeeps
<1> QED BY <1>1, <1>3 DEF CallInv, Idle

\* A page is of the request that was gated.
LEMMA PageKeeps ==
    ASSUME FlowInv, UNCHANGED <<client, server>>, call.at \notin {"idle", "describe"},
           NEW granted, PageAnswer(granted)
    PROVE  CallInv' /\ PagingInv'
<1>1. call' = Idle
    BY DEF PageAnswer, Answer
<1>2. PICK page, cursor, jobs : Pages(page, cursor, jobs)
    BY DEF PageAnswer
<1>3. CASE call.follows
  <2>1. {"state", "request"} \subseteq DOMAIN paging /\ paging.request \in client.requests
        /\ Gated(paging.request)
      BY <1>3 DEF FlowInv, CallInv, PagingInv
  <2>2. paging' = [paging EXCEPT !.seen = @ \o page, !.cursor = cursor, !.jobs = @ + jobs,
                                 !.steady = @ /\ call.steady /\ Steady,
                                 !.state = IF cursor = <<>> THEN "done" ELSE "open"]
      BY <1>2, <1>3 DEF Pages
  <2>3. DOMAIN paging' = DOMAIN paging /\ paging'.request = paging.request
      BY <2>1, <2>2
  <2> QED BY <1>1, <2>1, <2>3 DEF CallInv, PagingInv, Gated, Idle
<1>4. CASE ~call.follows
  <2>1. call.request \in client.requests /\ Gated(call.request)
      BY DEF FlowInv, CallInv
  <2>2. {"state", "request"} \subseteq DOMAIN paging' /\ paging'.request = call.request
      BY <1>2, <1>4 DEF Pages
  <2> QED BY <1>1, <2>1, <2>2 DEF CallInv, PagingInv, Gated, Idle
<1> QED BY <1>3, <1>4

-----------------------------------------------------------------------------
(* The steps                                                               *)

\* Whatever statement a call in progress sends, what it leaves is allowed.
LEMMA HandlerLeaves ==
    ASSUME FlowInv, call.at # "idle", UNCHANGED <<client, server>>, NEW effect,
           Writes(effect) => effect = call.request.statement /\ Gated(call.request),
           Statement(effect, TRUE, TRUE)
    PROVE  ServerInv' /\ WritesInv' /\ OverridesLeaveNothing'
<1>1. server.up /\ server.request \in Nat
    BY DEF FlowInv, ServerInv, Idle
<1>2. Leaves(effect)
    BY <1>1, StatementLeaves DEF FlowInv, CallInv
<1>3. ServerInv'
    BY <1>1 DEF FlowInv, ServerInv
<1> QED BY <1>2, <1>3, LeftIsAllowed

\* What a call does besides its own statement writes nothing.
LEMMA NoneWrites == ~Writes("none")
    BY DEF Writes

\* A statement that is only described writes nothing.
LEMMA DescribeKeeps == ASSUME FlowInv, Describe PROVE FlowInv'
<1> DEFINE Columns == Answer([ok |-> TRUE, kind |-> "columns"]) /\ UNCHANGED <<paging, acked>>
<1>1. call.at # "idle" /\ UNCHANGED <<client, server>>
    BY DEF Describe
<1>2. Statement("none", TRUE, TRUE) /\ (Columns \/ Fails)
    BY DEF Describe, Statement
<1>3. ASSUME Columns PROVE CallInv' /\ PagingInv'
  <2>1. call' = Idle /\ paging' = paging
      BY <1>3 DEF Answer
  <2> QED BY <1>1, <2>1 DEF FlowInv, CallInv, PagingInv, Gated, Idle
<1>4. CallInv' /\ PagingInv'
    BY <1>1, <1>2, <1>3, FailsKeeps
<1> QED BY <1>1, <1>2, <1>4, HandlerLeaves, NoneWrites DEF FlowInv

\* Nor does the check of the names in it.
LEMMA PreflightKeeps == ASSUME FlowInv, Preflight PROVE FlowInv'
<1>1. call.at \notin {"idle", "describe"} /\ UNCHANGED <<client, server>>
    BY DEF Preflight
<1>2. Statement("none", TRUE, TRUE) /\ (ToBody \/ Fails)
    BY DEF Preflight, Statement
<1>3. To(Body(call.request, call.settings)) \/ Fails
    BY <1>2 DEF ToBody
<1>4. CallInv' /\ PagingInv'
    BY <1>1, <1>3, FailsKeeps, ToKeeps
<1> QED BY <1>1, <1>2, <1>4, HandlerLeaves, NoneWrites DEF FlowInv

\* The count runs the statement, which the gates let pass.
LEMMA CountKeeps == ASSUME FlowInv, Count PROVE FlowInv'
<1> DEFINE count == Counted(Len(Result(call.request.sql, OnSession)))
<1>1. call.at \notin {"idle", "describe"} /\ UNCHANGED <<client, server>> /\ Gated(call.request)
    BY DEF Count, FlowInv, CallInv
<1>2. Statement(call.request.statement, TRUE, TRUE) /\ (count \/ Fails)
    BY DEF Count, Statement
<1>3. ASSUME count PROVE CallInv' /\ PagingInv'
  <2>1. {"at", "request", "settings", "follows", "total"} \subseteq DOMAIN call
      BY <1>1 DEF FlowInv, CallInv
  <2>2. /\ DOMAIN call' = DOMAIN call /\ call'.request = call.request /\ call'.follows = call.follows
        /\ call'.settings = call.settings
      BY <1>3, <2>1 DEF Counted
  <2> QED BY <1>1, <1>3, <2>2, CallGoesOn DEF clientVars, Counted
<1>4. CallInv' /\ PagingInv'
    BY <1>1, <1>2, <1>3, FailsKeeps
<1> QED BY <1>1, <1>2, <1>4, HandlerLeaves DEF FlowInv

\* The estimate explains it only.
LEMMA EstimateKeeps == ASSUME FlowInv, Estimate PROVE FlowInv'
<1> DEFINE Without == call' = [call EXCEPT !.at = "page", !.settings.count = "none"] /\ UNCHANGED clientVars
<1>1. call.at \notin {"idle", "describe"} /\ UNCHANGED <<client, server>>
    BY DEF Estimate
<1>2. Statement("none", TRUE, TRUE) /\ (To("page") \/ Without)
    BY DEF Estimate, Statement
<1>3. ASSUME Without PROVE CallInv' /\ PagingInv'
  <2>1. /\ {"at", "request", "settings", "follows", "total"} \subseteq DOMAIN call
        /\ {"timeout", "count"} \subseteq DOMAIN call.settings
      BY <1>1 DEF FlowInv, CallInv
  <2>2. /\ DOMAIN call' = DOMAIN call /\ call'.request = call.request /\ call'.follows = call.follows
        /\ call'.settings = [call.settings EXCEPT !.count = "none"]
      BY <1>3, <2>1
  <2>3. DOMAIN call'.settings = DOMAIN call.settings /\ call'.settings.timeout = call.settings.timeout
      BY <2>1, <2>2
  <2> QED BY <1>1, <1>3, <2>2, <2>3, CallGoesOn DEF clientVars
<1>4. CallInv' /\ PagingInv'
    BY <1>1, <1>2, <1>3, ToKeeps
<1> QED BY <1>1, <1>2, <1>4, HandlerLeaves, NoneWrites DEF FlowInv

\* The page runs it.
LEMMA PageActionKeeps == ASSUME FlowInv, Page PROVE FlowInv'
<1>1. call.at \notin {"idle", "describe"} /\ UNCHANGED <<client, server>> /\ Gated(call.request)
    BY DEF Page, FlowInv, CallInv
<1>2. Statement(call.request.statement, TRUE, TRUE) /\ ((\E granted : PageAnswer(granted)) \/ Fails)
    BY DEF Page, Statement
<1>3. CallInv' /\ PagingInv'
    BY <1>1, <1>2, FailsKeeps, PageKeeps
<1> QED BY <1>1, <1>2, <1>3, HandlerLeaves DEF FlowInv

\* What is neither counted nor paged runs as it is, behind the same gates.
LEMMA RunKeeps == ASSUME FlowInv, Run PROVE FlowInv'
<1>1. call.at \notin {"idle", "describe"} /\ UNCHANGED <<client, server>> /\ Gated(call.request)
    BY DEF Run, FlowInv, CallInv
<1>2. /\ Statement(call.request.statement, TRUE, TRUE)
      /\ (Answer([ok |-> TRUE, kind |-> "run"]) /\ paging' = paging) \/ Fails
    BY DEF Run, Statement
<1>3. ASSUME Answer([ok |-> TRUE, kind |-> "run"]), paging' = paging PROVE CallInv' /\ PagingInv'
  <2>1. call' = Idle /\ paging' = paging
      BY <1>3 DEF Answer
  <2> QED BY <1>1, <2>1 DEF FlowInv, CallInv, PagingInv, Gated, Idle
<1>4. CallInv' /\ PagingInv'
    BY <1>1, <1>2, <1>3, FailsKeeps
<1> QED BY <1>1, <1>2, <1>4, HandlerLeaves DEF FlowInv

\* A server that comes up has read its settings, and nothing was asked of it.
LEMMA StartKeeps == ASSUME FlowInv, Start PROVE FlowInv'
<1>1. /\ ~server.up
      /\ UNCHANGED <<client, call, paging, writes, orphans>>
    BY DEF Start
<1>2. PICK s \in Starts : Serves(s.e, s.reachable, s.missing) /\ server' = ServerOf(s.e, s.missing)
    BY DEF Start
<1>3. server'.up /\ server'.request \in Nat
    BY <1>2, StartsKnown DEF ServerOf
<1>4. call = Idle /\ paging = NoPaging /\ writes = {} /\ orphans = {}
    BY <1>1 DEF FlowInv, ServerInv
<1>5. ServerInv'
    BY <1>1, <1>3 DEF FlowInv, ServerInv
<1> QED BY <1>1, <1>4, <1>5 DEF FlowInv, CallInv, PagingInv, WritesInv, OverridesLeaveNothing, Idle, NoPaging

\* Steps that leave the calls and their statements as they are.
LEMMA NothingAsked ==
    ASSUME FlowInv, UNCHANGED <<client, server, call, paging, writes, orphans>>
    PROVE  FlowInv'
    BY DEF FlowInv, ServerInv, CallInv, PagingInv, WritesInv, OverridesLeaveNothing, Gated, Allowed

\* A call that is made has written nothing yet.
LEMMA CallKeeps ==
    ASSUME FlowInv, server.up, UNCHANGED <<client, server, writes, orphans>>, CallInv', PagingInv'
    PROVE  FlowInv'
    BY DEF FlowInv, ServerInv, WritesInv, OverridesLeaveNothing, Allowed

\* A new call passes the gates of its tool or is refused.
LEMMA AskKeeps == ASSUME FlowInv, Ask PROVE FlowInv'
<1>1. server.up /\ UNCHANGED <<client, server, writes, orphans>>
    BY DEF Ask
<1>2. PICK r \in client.requests : Call(r, <<>>, FALSE)
    BY DEF Ask
<1> QED BY <1>1, <1>2, CallMade, CallKeeps

\* So does a call that follows a page, for the request of the first.
LEMMA FollowKeeps == ASSUME FlowInv, Follow PROVE FlowInv'
<1>1. /\ UNCHANGED <<client, server, writes, orphans>>
      /\ paging.state = "open" /\ Call(paging.request, paging.cursor, TRUE)
    BY DEF Follow
<1>2. server.up /\ paging.request \in client.requests
    BY <1>1 DEF FlowInv, ServerInv, PagingInv, NoPaging
<1> QED BY <1>1, <1>2, CallMade, CallKeeps

\* So does another tool's call that is handed the cursor.
LEMMA DetourKeeps == ASSUME FlowInv, Detour PROVE FlowInv'
<1>1. UNCHANGED <<client, server, writes, orphans>> /\ paging.state = "open"
    BY DEF Detour
<1>2. PICK r \in client.requests : Call(r, paging.cursor, TRUE)
    BY DEF Detour
<1>3. server.up
    BY <1>1 DEF FlowInv, ServerInv, NoPaging
<1> QED BY <1>1, <1>2, <1>3, CallMade, CallKeeps

\* A count job writes as its page did.
LEMMA CountJobKeeps == ASSUME FlowInv, CountJob PROVE FlowInv'
<1>1. /\ UNCHANGED <<client, server, call, orphans>> /\ paging.state # "none"
    BY DEF CountJob
<1>2. /\ server.up /\ {"state", "request"} \subseteq DOMAIN paging
      /\ paging.request \in client.requests /\ Gated(paging.request)
    BY <1>1 DEF FlowInv, ServerInv, PagingInv, NoPaging
<1>3. PICK counted : paging' = [paging EXCEPT !.counted = counted]
    BY DEF CountJob
<1>4. DOMAIN paging' = DOMAIN paging /\ paging'.request = paging.request /\ paging'.state = paging.state
    BY <1>2, <1>3
<1>5. PagingInv' /\ CallInv' /\ ServerInv' /\ OverridesLeaveNothing'
  <2>1. PagingInv'
      BY <1>1, <1>2, <1>4 DEF PagingInv, Gated
  <2>2. CallInv'
      BY <1>1, <1>4 DEF FlowInv, CallInv, Gated
  <2> QED BY <1>1, <1>2, <2>1, <2>2 DEF FlowInv, ServerInv, OverridesLeaveNothing
<1>6. ASSUME NEW w \in writes' \ writes PROVE Allowed(w)
  <2>1. /\ Writes(paging.request.statement) /\ ~ReadOnly
        /\ w.tool = paging.request.tool /\ w.statement = paging.request.statement
    <3>1. TakesEffect(paging.request.statement, FALSE, paging.request.tool) /\ ~(ReadOnly /\ Writes(paging.request.statement))
        BY <1>6 DEF CountJob
    <3>2. Writes(paging.request.statement) /\ w = [tool |-> paging.request.tool, statement |-> paging.request.statement]
        BY <1>6, <3>1 DEF TakesEffect
    <3> QED BY <3>1, <3>2
  <2> QED BY <1>2, <2>1 DEF Allowed, Gated, ReadOnly, ReadSafe, Writes
<1>7. WritesInv'
    BY <1>1, <1>6 DEF FlowInv, WritesInv, Allowed
<1> QED BY <1>5, <1>7 DEF FlowInv

\* A cursor that expires changes nothing else.
LEMMA CursorExpiresKeeps == ASSUME FlowInv, CursorExpires PROVE FlowInv'
<1>1. /\ UNCHANGED <<client, server, call, writes, orphans>> /\ paging.state = "open"
      /\ paging' = [paging EXCEPT !.cursor = <<[Head(@) EXCEPT !.expired = TRUE]>>]
    BY DEF CursorExpires
<1>2. server.up /\ {"state", "request"} \subseteq DOMAIN paging
    BY <1>1 DEF FlowInv, ServerInv, PagingInv, NoPaging
<1>3. PICK cursor : paging' = [paging EXCEPT !.cursor = cursor]
    BY <1>1
<1>4. DOMAIN paging' = DOMAIN paging /\ paging'.request = paging.request /\ paging'.state = paging.state
    BY <1>2, <1>3
<1>5. PagingInv'
    BY <1>1, <1>4 DEF FlowInv, PagingInv, Gated
<1>6. CallInv'
    BY <1>1, <1>4 DEF FlowInv, CallInv, Gated
<1> QED BY <1>1, <1>2, <1>5, <1>6, CallKeeps

\* What was given up was allowed, and so is its late effect.
LEMMA OrphanEndsKeeps == ASSUME FlowInv, OrphanEnds PROVE FlowInv'
<1>1. UNCHANGED <<client, server, call, paging>>
    BY DEF OrphanEnds
<1>2. PICK o \in orphans :
          /\ orphans' = orphans \ {o}
          /\ TakesEffect(o.statement, FALSE, o.tool) \/ writes' = writes
    BY DEF OrphanEnds
<1>3. Allowed(o) /\ server.up
    BY <1>2 DEF FlowInv, WritesInv, ServerInv
<1>4. ASSUME NEW w \in writes' \ writes PROVE Allowed(w)
  <2>1. w.tool = o.tool /\ w.statement = o.statement
    <3>1. w = [tool |-> o.tool, statement |-> o.statement]
        BY <1>2, <1>4 DEF TakesEffect
    <3> QED BY <3>1
  <2> QED BY <1>3, <2>1 DEF Allowed
<1>5. WritesInv' /\ OverridesLeaveNothing'
    BY <1>1, <1>2, <1>4 DEF FlowInv, WritesInv, OverridesLeaveNothing, Allowed
<1>6. ServerInv' /\ CallInv' /\ PagingInv'
    BY <1>1, <1>3 DEF FlowInv, ServerInv, CallInv, PagingInv, Gated
<1> QED BY <1>5, <1>6 DEF FlowInv

\* The table, the session and the client's book are nothing to the policy.
LEMMA OthersKeep ==
    ASSUME FlowInv, OpenSession \/ SessionEnds \/ OthersWrite \/ UNCHANGED vars
    PROVE  FlowInv'
<1>1. UNCHANGED <<client, server, call, paging, writes, orphans>>
    BY DEF OpenSession, SessionEnds, OthersWrite, vars
<1> QED BY <1>1, NothingAsked

-----------------------------------------------------------------------------
(* The policy                                                              *)

\* Nothing has been asked at first.
LEMMA FlowInit == Init => FlowInv
    BY DEF Init, FlowInv, ServerInv, CallInv, PagingInv, WritesInv, OverridesLeaveNothing, Idle, NoPaging

\* No step writes what the policy forbids, or leaves what an override bounds.
LEMMA FlowStep == FlowInv /\ [Next]_vars => FlowInv'
    BY StartKeeps, AskKeeps, FollowKeeps, DetourKeeps, DescribeKeeps, PreflightKeeps, CountKeeps,
       EstimateKeeps, PageActionKeeps, RunKeeps, CountJobKeeps, CursorExpiresKeeps, OrphanEndsKeeps,
       OthersKeep
    DEF Next, Handle

\* No client and no configuration gets a write past restricted access. Past the gates of the
\* degraded mode and the runtime role only admin_sql gets one, which never comes to them: not
\* a cursor given to another call, a count job, or a statement that its call gave up and that
\* takes effect later.
THEOREM PolicyHolds == Spec => []PolicyKept
<1>1. FlowInv => PolicyKept
    BY DEF FlowInv, WritesInv, PolicyKept, Allowed
<1> QED BY FlowInit, FlowStep, <1>1, PTL DEF Spec

\* A call with a statement timeout of its own never gives up a statement that still runs,
\* whatever the client's timeout and the server's are.
THEOREM OverridesAreBounded == Spec => []OverridesLeaveNothing
<1>1. FlowInv => OverridesLeaveNothing
    BY DEF FlowInv
<1> QED BY FlowInit, FlowStep, <1>1, PTL DEF Spec

-----------------------------------------------------------------------------
(* The rows that a query lists                                             *)

\* What InOrder lists: each number of the set, once.
LEMMA InOrderLists ==
    ASSUME NEW n \in Nat, NEW set \in SUBSET (1..n)
    PROVE  /\ InOrder(set) \in Seq(set) /\ Len(InOrder(set)) = Cardinality(set)
           /\ Cardinality(set) \in Nat
           /\ {InOrder(set)[i] : i \in 1..Cardinality(set)} = set
           /\ \A i, j \in 1..Cardinality(set) : InOrder(set)[i] = InOrder(set)[j] => i = j
<1> DEFINE Below(k) == {j \in set : j <= k}
           size == Cardinality(set)
           rank == [k \in set |-> Cardinality(Below(k))]
<1>1. IsFiniteSet(set) /\ size \in Nat
  <2>1. IsFiniteSet(1..n)
      BY FS_Interval
  <2> QED BY <2>1, FS_Subset, FS_CardinalityType
<1>2. ASSUME NEW k \in set
      PROVE  /\ IsFiniteSet(Below(k)) /\ Cardinality(Below(k)) \in Nat
             /\ 1 <= Cardinality(Below(k)) /\ Cardinality(Below(k)) <= size
  <2>1. Below(k) \in SUBSET set /\ k \in Below(k)
      OBVIOUS
  <2>2. IsFiniteSet(Below(k)) /\ Cardinality(Below(k)) <= size
      BY <1>1, <2>1, FS_Subset
  <2>3. Cardinality(Below(k)) \in Nat
      BY <2>2, FS_CardinalityType
  <2>4. Cardinality(Below(k)) # 0
      BY <2>1, <2>2, FS_EmptySet
  <2> QED BY <2>2, <2>3, <2>4
<1>3. ASSUME NEW k \in set, NEW l \in set, k < l PROVE Cardinality(Below(k)) # Cardinality(Below(l))
  <2>1. Below(k) \in SUBSET Below(l) /\ l \in Below(l) /\ l \notin Below(k)
    <3>1. k \in Int /\ l \in Int /\ \A j \in set : j \in Int
        OBVIOUS
    <3>2. l \in Below(l) /\ l \notin Below(k)
        BY <1>3, <3>1
    <3>3. \A j \in set : j <= k => j <= l
        BY <1>3, <3>1
    <3> QED BY <3>2, <3>3
  <2>2. Below(k) # Below(l)
      BY <2>1
  <2>3. IsFiniteSet(Below(l))
      BY <1>2
  <2> DEFINE A == Below(k)
             B == Below(l)
  <2>4. A \in SUBSET B /\ A # B /\ IsFiniteSet(B)
      BY <2>1, <2>2, <2>3
  <2> HIDE DEF A, B
  <2>5. Cardinality(A) # Cardinality(B)
      BY <2>4, FS_Subset
  <2> QED BY <2>5 DEF A, B
<1> HIDE DEF Below, size
<1>4. rank \in Injection(set, 1..size)
  <2>1. rank \in [set -> 1..size]
      BY <1>1, <1>2
  <2>2. \A k, l \in set : rank[k] = rank[l] => k = l
    <3> SUFFICES ASSUME NEW k \in set, NEW l \in set, rank[k] = rank[l], k # l PROVE FALSE
        OBVIOUS
    <3>1. k < l \/ l < k
        OBVIOUS
    <3> QED BY <1>3, <3>1
  <2> QED BY <2>1, <2>2 DEF Injection, IsInjective
<1>5. \A i \in 1..size : \E k \in set : Cardinality(Below(k)) = i
  <2>1. IsFiniteSet(1..size) /\ Cardinality(1..size) = size
      BY <1>1, FS_Interval
  <2>2. rank \in Surjection(set, 1..size)
    <3> HIDE DEF rank
    <3> QED BY <1>4, <2>1, FS_Injection DEF size
  <2> QED BY <2>2 DEF Surjection
<1> DEFINE list == [i \in 1..size |-> CHOOSE k \in set : Cardinality(Below(k)) = i]
<1>6. InOrder(set) = list
    BY DEF InOrder, size, Below
<1>7. \A i \in 1..size : list[i] \in set /\ Cardinality(Below(list[i])) = i
    BY <1>5
<1>8. \A k \in set : k = list[Cardinality(Below(k))] /\ Cardinality(Below(k)) \in 1..size
  <2> TAKE k \in set
  <2>1. Cardinality(Below(k)) \in 1..size
      BY <1>1, <1>2
  <2>2. list[Cardinality(Below(k))] \in set
        /\ Cardinality(Below(list[Cardinality(Below(k))])) = Cardinality(Below(k))
      BY <1>7, <2>1
  <2> DEFINE l == list[Cardinality(Below(k))]
  <2>3. l = k
    <3>1. l \in set /\ rank[l] = rank[k]
        BY <2>2
    <3> HIDE DEF l, rank
    <3> QED BY <1>4, <3>1 DEF Injection, IsInjective
  <2> QED BY <2>1, <2>3
<1>9. list \in Seq(set) /\ Len(list) = size
  <2>1. list \in [1..size -> set]
      BY <1>7
  <2>2. list \in Seq(set)
      BY <1>1, <2>1
  <2>3. DOMAIN list = 1..size
      OBVIOUS
  <2> HIDE DEF list
  <2> QED BY <1>1, <2>2, <2>3
<1>10. {list[i] : i \in 1..size} = set
  <2> HIDE DEF list
  <2> QED BY <1>7, <1>8
<1>11. \A i, j \in 1..size : list[i] = list[j] => i = j
  <2> HIDE DEF list
  <2> QED BY <1>7
<1> HIDE DEF list
<1> QED BY <1>1, <1>6, <1>9, <1>10, <1>11 DEF size

\* The reverse of a list has the same entries.
LEMMA ReverseLists ==
    ASSUME NEW set, NEW list \in Seq(set), ToSet(list) = set,
           \A i, j \in 1..Len(list) : list[i] = list[j] => i = j
    PROVE  /\ Reverse(list) \in Seq(set) /\ ToSet(Reverse(list)) = set
           /\ \A i, j \in 1..Len(Reverse(list)) : Reverse(list)[i] = Reverse(list)[j] => i = j
<1> DEFINE n == Len(list)
           turned == [i \in 1..n |-> list[n - i + 1]]
<1>1. n \in Nat /\ \A i \in 1..n : n - i + 1 \in 1..n /\ list[n - i + 1] \in set
    OBVIOUS
<1>2. Reverse(list) = turned
    BY DEF Reverse
<1>3. turned \in [1..n -> set]
    BY <1>1
<1>4. turned \in Seq(set) /\ Len(turned) = n
  <2>1. turned \in Seq(set)
      BY <1>1, <1>3
  <2>2. DOMAIN turned = 1..n
      OBVIOUS
  <2> HIDE DEF turned, n
  <2> QED BY <1>1, <2>1, <2>2
<1>5. \A i, j \in 1..n : turned[i] = turned[j] => i = j
  <2> TAKE i \in 1..n, j \in 1..n
  <2>1. CASE turned[i] = turned[j]
    <3>1. list[n - i + 1] = list[n - j + 1]
        BY <2>1
    <3>2. n - i + 1 = n - j + 1
        BY <1>1, <3>1
    <3> QED BY <1>1, <3>2
  <2> QED BY <2>1
<1>6. ToSet(turned) = set
  <2>1. \A k \in set : \E i \in 1..n : list[i] = k
      BY DEF ToSet
  <2>2. \A k \in set : \E i \in 1..n : turned[i] = k
    <3> TAKE k \in set
    <3>1. PICK i \in 1..n : list[i] = k
        BY <2>1
    <3>2. n - i + 1 \in 1..n /\ n - (n - i + 1) + 1 = i
        BY <1>1
    <3> WITNESS n - i + 1 \in 1..n
    <3> QED BY <3>1, <3>2
  <2>3. \A i \in DOMAIN turned : turned[i] \in set
      BY <1>1
  <2>4. DOMAIN turned = 1..n
      OBVIOUS
  <2> HIDE DEF turned, n
  <2>5. ToSet(turned) = {turned[i] : i \in 1..n}
      BY <2>4 DEF ToSet
  <2> QED BY <2>2, <2>3, <2>4, <2>5
<1> HIDE DEF turned, n
<1> QED BY <1>2, <1>4, <1>5, <1>6

\* A query lists the rows it sees, each once.
LEMMA ResultLists ==
    ASSUME NEW sql, NEW onSession, rows \in Seq({"there", "open", "gone"})
    PROVE  /\ Result(sql, onSession) \in Seq(Seen(onSession))
           /\ ToSet(Result(sql, onSession)) = Seen(onSession)
           /\ \A i, j \in 1..Len(Result(sql, onSession)) :
                 Result(sql, onSession)[i] = Result(sql, onSession)[j] => i = j
<1> DEFINE seen == Seen(onSession)
           list == InOrder(seen)
<1>1. Len(rows) \in Nat /\ seen \in SUBSET (1..Len(rows))
    BY DEF Seen
<1> HIDE DEF seen
<1>2. /\ list \in Seq(seen) /\ Len(list) \in Nat
      /\ {list[i] : i \in 1..Len(list)} = seen
      /\ \A i, j \in 1..Len(list) : list[i] = list[j] => i = j
    BY <1>1, InOrderLists
<1> HIDE DEF list
<1>3. ToSet(list) = seen
    BY <1>2 DEF ToSet
<1>4. Result(sql, onSession) = IF sql = "newest" THEN Reverse(list) ELSE list
    BY DEF Result, list, seen
<1> QED BY <1>2, <1>3, <1>4, ReverseLists DEF seen

-----------------------------------------------------------------------------
(* The table, what was answered of it, and where a call is                 *)

\* The rows that have been inserted, and those of the session's open transaction.
TableInv ==
    /\ rows \in Seq({"there", "open", "gone"}) /\ Base <= Len(rows)
    /\ session \in {"none", "idle", "open", "aborted", "lost", "gone"}
    /\ \A i \in DOMAIN rows : rows[i] = "open" => session = "open" /\ i > Base

\* Answered rows are there for good, or open with their transaction.
AckedInv ==
    /\ acked = [open |-> acked.open, kept |-> acked.kept]
    /\ \A id \in acked.kept : id \in DOMAIN rows /\ id > Base /\ rows[id] = "there"
    /\ session = "open" => \A id \in acked.open : id \in DOMAIN rows /\ rows[id] = "open"
    /\ session \in {"none", "idle"} => acked.open = {}

\* What the handlers read of the settings, of a server and of a call.
SettingsKnown(r, s) ==
    /\ DOMAIN s = {"output", "pageSize", "verbosity", "timeout", "preflight", "count"}
    /\ r.tool \in ReadTools => s.output = "sparse"
    /\ r.tool \in ReadTools \cup {"admin_sql"} => s.count = "none"
    /\ r.tool \in {"execute_sql", "query_start"} =>
          s.output # "sparse" /\ s.verbosity \in {"full", "standard", "compact"}
    /\ s.count \in {"none", "exact", "estimated", "async"}
    /\ r.tool = "admin_sql" => s.preflight = FALSE
    /\ r.tool # "admin_sql" => s.pageSize \in Nat \ {0}

\* A server that is up has the settings it was started with.
ServerFits == server.up => server.pageSize \in Nat \ {0} /\ server.output # "sparse"

\* The call in progress is where its request leads.
CallFits ==
    call.at # "idle" =>
        /\ DOMAIN call = {"at", "request", "cursor", "settings", "follows", "total", "base", "steady"}
        /\ SettingsKnown(call.request, call.settings)
        /\ call.at \in {"describe", "preflight", "run", "count", "estimate", "page"}
        /\ call.at \in {"preflight", "count", "estimate", "page"} => call.request.tool # "admin_sql"
        /\ call.at \in {"count", "estimate", "page"} => SelectLike(call.request.statement)
        /\ call.at = "estimate" => call.settings.count = "estimated"

\* What the steps of a call need of the settings.
StageInv == ServerFits /\ CallFits

-----------------------------------------------------------------------------
(* What a step does to the rows                                            *)

\* What a step may do to the rows: those of the open transaction stay open with it, a row
\* goes for good, and only a first one without a transaction.
Moves ==
    /\ Len(rows) <= Len(rows')
    /\ \A i \in 1..Len(rows) :
          \/ rows'[i] = rows[i]
          \/ rows[i] = "open" /\ rows'[i] \in {"there", "gone"} /\ session' # "open"
          \/ rows[i] = "there" /\ rows'[i] = "gone" /\ i <= Base
    /\ \A i \in Len(rows)+1 .. Len(rows') : rows'[i] \in {"there", "open"}
    /\ session' = "open" => session \in {"open", "idle"}

\* No row of the session's transaction is new.
NoneOpened == \A i \in Len(rows)+1 .. Len(rows') : rows'[i] = "there"

\* The rows stay as they are, and so does an open transaction.
LEMMA RowsStay ==
    ASSUME TableInv, rows' = rows, session' \in {"none", "idle", "open", "aborted", "lost", "gone"},
           session = "open" => session' = "open", session' = "open" => session \in {"open", "idle"}
    PROVE  TableInv' /\ Moves /\ NoneOpened
    BY BaseKnown DEF TableInv, Moves, NoneOpened

\* A function over the first numbers is a sequence.
LEMMA ListOf ==
    ASSUME NEW n \in Nat, NEW set, NEW list \in [1..n -> set]
    PROVE  list \in Seq(set) /\ Len(list) = n /\ DOMAIN list = 1..n
<1>1. list \in Seq(set) /\ DOMAIN list = 1..n
    OBVIOUS
<1> QED BY <1>1

\* The session's transaction ends: its rows go or stay.
LEMMA BlockEnds ==
    ASSUME TableInv, NEW as \in {"there", "gone"}, rows' = Ended(as),
           session' \in {"none", "idle", "aborted", "lost", "gone"}
    PROVE  TableInv' /\ Moves /\ NoneOpened
<1>1. /\ Len(rows) \in Nat /\ rows \in Seq({"there", "open", "gone"})
      /\ \A i \in 1..Len(rows) : rows[i] \in {"there", "open", "gone"}
    BY DEF TableInv
<1> DEFINE table == [i \in 1..Len(rows) |-> IF rows[i] = "open" THEN as ELSE rows[i]]
<1>2. rows' = table
    BY <1>1 DEF Ended
<1>3. \A i \in 1..Len(rows) :
          /\ table[i] \in {"there", "gone"}
          /\ table[i] = rows[i] \/ rows[i] = "open"
    BY <1>1
<1>4. table \in [1..Len(rows) -> {"there", "open", "gone"}]
    BY <1>1
<1> HIDE DEF table
<1>5. table \in Seq({"there", "open", "gone"}) /\ Len(table) = Len(rows) /\ DOMAIN table = 1..Len(rows)
    BY <1>1, <1>4, ListOf
<1>6. \A i \in 1..Len(rows) : table[i] # "open"
    BY <1>3
<1>7. TableInv'
    BY <1>1, <1>2, <1>5, <1>6 DEF TableInv
<1> QED BY <1>1, <1>2, <1>3, <1>5, <1>7 DEF Moves, NoneOpened

\* Rows are inserted behind the others.
Adds(n, as) == rows' = rows \o [i \in 1..n |-> as]

\* Rows that are added: the table and the rows before them.
LEMMA RowsAdded ==
    ASSUME TableInv, NEW n \in Nat, NEW as \in {"there", "open"}, Adds(n, as),
           as = "open" /\ n > 0 => session' = "open",
           session' = session \/ (session \in {"idle", "open"} /\ session' = "open")
    PROVE  /\ TableInv' /\ Moves /\ (n = 0 \/ as = "there" => NoneOpened)
           /\ Len(rows') = Len(rows) + n /\ \A i \in Len(rows)+1 .. Len(rows)+n : rows'[i] = as
<1> DEFINE new == [i \in 1..n |-> as]
<1>1. Len(rows) \in Nat /\ Base \in Nat
      /\ rows \in Seq({"there", "open", "gone"})
    BY BaseKnown DEF TableInv
<1>2. new \in Seq({"there", "open", "gone"}) /\ Len(new) = n /\ \A i \in 1..n : new[i] = as
  <2>1. new \in [1..n -> {"there", "open", "gone"}]
      OBVIOUS
  <2>2. \A i \in 1..n : new[i] = as
      OBVIOUS
  <2> HIDE DEF new
  <2> QED BY <2>1, <2>2, ListOf
<1>3. rows' = rows \o new
    BY DEF Adds
<1> HIDE DEF new
<1>4. /\ rows' \in Seq({"there", "open", "gone"}) /\ Len(rows') = Len(rows) + n
      /\ DOMAIN rows' = 1..Len(rows') /\ DOMAIN rows = 1..Len(rows)
      /\ \A i \in 1..Len(rows) : rows'[i] = rows[i]
      /\ \A i \in Len(rows)+1 .. Len(rows)+n : rows'[i] = new[i - Len(rows)]
  <2> DEFINE longer == rows \o new
  <2>1. /\ longer \in Seq({"there", "open", "gone"}) /\ Len(longer) = Len(rows) + n
        /\ \A i \in 1..Len(rows)+n : longer[i] = IF i <= Len(rows) THEN rows[i] ELSE new[i - Len(rows)]
      BY <1>1, <1>2, ConcatProperties
  <2> HIDE DEF longer
  <2>2. rows' = longer
      BY <1>3 DEF longer
  <2>3. DOMAIN longer = 1..Len(longer) /\ DOMAIN rows = 1..Len(rows)
      BY <1>1, <2>1
  <2>4. \A i \in 1..Len(rows) : longer[i] = rows[i]
      BY <1>1, <2>1
  <2>5. \A i \in Len(rows)+1 .. Len(rows)+n : longer[i] = new[i - Len(rows)]
      BY <1>1, <2>1
  <2> QED BY <2>1, <2>3, <2>4, <2>5, <2>2
<1>5. \A i \in Len(rows)+1 .. Len(rows)+n : rows'[i] = as /\ i > Base
  <2> TAKE i \in Len(rows)+1 .. Len(rows)+n
  <2>1. i - Len(rows) \in 1..n /\ i > Base
      BY <1>1 DEF TableInv
  <2> QED BY <1>2, <1>4, <2>1
<1>6. \A i \in 1..Len(rows') : i \in 1..Len(rows) \/ i \in Len(rows)+1 .. Len(rows)+n
    BY <1>1, <1>4
<1>7. TableInv'
  <2>1. \A i \in 1..Len(rows') : rows'[i] = "open" => session' = "open" /\ i > Base
    <3> TAKE i \in 1..Len(rows')
    <3>1. CASE i \in 1..Len(rows)
        BY <1>4, <3>1 DEF TableInv
    <3>2. CASE i \in Len(rows)+1 .. Len(rows)+n
      <4>1. n > 0
          BY <1>1, <3>2
      <4> QED BY <1>5, <3>2, <4>1
    <3> QED BY <1>6, <3>1, <3>2
  <2> QED BY <1>1, <1>4, <2>1 DEF TableInv
<1>8. ASSUME NEW i \in Len(rows)+1 .. Len(rows') PROVE n # 0 /\ rows'[i] = as
  <2>1. i \in Len(rows)+1 .. Len(rows)+n
      BY <1>4, <1>8
  <2>2. n # 0
      BY <1>1, <2>1
  <2> QED BY <1>5, <2>1, <2>2
<1>9. Moves
  <2>1. session' = "open" => session \in {"open", "idle"}
      OBVIOUS
  <2>2. \A i \in Len(rows)+1 .. Len(rows') : rows'[i] \in {"there", "open"}
      BY <1>8
  <2>3. Len(rows) <= Len(rows')
      BY <1>1, <1>4
  <2> QED BY <1>1, <1>4, <2>1, <2>2, <2>3 DEF Moves
<1>10. n = 0 \/ as = "there" => NoneOpened
    BY <1>8 DEF NoneOpened
<1> QED BY <1>4, <1>5, <1>7, <1>9, <1>10

\* A statement inserts two rows at most.
LEMMA InsertsSome == \A effect : Inserts(effect) \in 0..2
    BY DEF Inserts

\* A statement that takes effect.
LEMMA TakesEffectMoves ==
    ASSUME TableInv, NEW effect, NEW onSession, NEW tool, TakesEffect(effect, onSession, tool),
           onSession => session \in {"idle", "open"}
    PROVE  TableInv' /\ Moves /\ (Inserts(effect) = 0 \/ ~onSession => NoneOpened)
<1>1. Inserts(effect) \in Nat
    BY InsertsSome
<1>2. rows' = RowsAfter(effect, onSession) /\ session' = BlockAfter(effect, onSession)
    BY DEF TakesEffect
<1>3. CASE onSession /\ effect = "rollback"
  <2>1. rows' = Ended("gone") /\ session' = "idle"
      BY <1>2, <1>3 DEF RowsAfter, BlockAfter, Closed
  <2> QED BY <2>1, BlockEnds
<1>4. CASE onSession /\ effect = "commit"
  <2>1. rows' = Ended("there") /\ session' = "idle"
      BY <1>2, <1>4 DEF RowsAfter, BlockAfter
  <2> QED BY <2>1, BlockEnds
<1>5. CASE ~onSession
  <2>1. Adds(Inserts(effect), "there") /\ session' = session
      BY <1>2, <1>5 DEF RowsAfter, BlockAfter, Adds
  <2> QED BY <1>1, <2>1, RowsAdded
<1>6. CASE onSession /\ effect \notin {"rollback", "commit"}
  <2>1. session' = IF effect = "begin" THEN "open" ELSE session
      BY <1>2, <1>6 DEF BlockAfter
  <2>2. CASE session = "open"
    <3>1. Adds(Inserts(effect), "open") /\ session' = "open"
        BY <1>2, <1>6, <2>1, <2>2 DEF RowsAfter, Adds
    <3> QED BY <1>1, <1>6, <2>2, <3>1, RowsAdded
  <2>3. CASE session = "idle"
    <3>1. Adds(Inserts(effect), "there")
        BY <1>2, <1>6, <2>3 DEF RowsAfter, Adds
    <3> QED BY <1>1, <2>1, <2>3, <3>1, RowsAdded
  <2> QED BY <1>6, <2>2, <2>3
<1> QED BY <1>3, <1>4, <1>5, <1>6

\* A statement that fails.
LEMMA HasNoneMoves ==
    ASSUME TableInv, NEW onSession, HasNone(onSession)
    PROVE  TableInv' /\ Moves /\ NoneOpened /\ session' \in {session, "aborted"}
<1>1. session' = (IF onSession /\ session = "open" THEN "aborted" ELSE session)
      /\ rows' = (IF session' = "aborted" THEN Closed ELSE rows)
    BY DEF HasNone
<1>2. CASE session' = "aborted"
  <2>1. rows' = Ended("gone")
      BY <1>1, <1>2 DEF Closed
  <2> QED BY <1>1, <1>2, <2>1, BlockEnds
<1>3. CASE session' # "aborted"
  <2>1. session' = session /\ rows' = rows
      BY <1>1, <1>3
  <2> QED BY <2>1, RowsStay DEF TableInv
<1> QED BY <1>2, <1>3

\* Whatever becomes of a statement.
LEMMA StatementMoves ==
    ASSUME TableInv, NEW effect, Statement(effect, TRUE, TRUE)
    PROVE  TableInv' /\ Moves /\ (Inserts(effect) = 0 \/ ~OnSession => NoneOpened)
<1>1. CASE Unanswered
  <2>1. rows' = rows /\ session' = (IF OnSession /\ session = "lost" /\ ~Refuses THEN "gone" ELSE session)
      BY <1>1 DEF Unanswered
  <2> QED BY <2>1, RowsStay DEF TableInv
<1>2. ~Unsent /\ OnSession => session \in {"idle", "open"}
    BY DEF Unsent, NotFound, BudgetFails, TableInv
<1>3. ASSUME ~Unsent, TakesEffect(effect, OnSession, call.request.tool)
      PROVE  TableInv' /\ Moves /\ (Inserts(effect) = 0 \/ ~OnSession => NoneOpened)
    BY <1>2, <1>3, TakesEffectMoves
<1>4. ASSUME NEW on, HasNone(on)
      PROVE  TableInv' /\ Moves /\ (Inserts(effect) = 0 \/ ~OnSession => NoneOpened)
    BY <1>4, HasNoneMoves
<1>5. ASSUME ~Unsent, GivenUp(effect)
      PROVE  TableInv' /\ Moves /\ (Inserts(effect) = 0 \/ ~OnSession => NoneOpened)
  <2>1. CASE OnSession
    <3>1. TakesEffect(effect, TRUE, call.request.tool) \/ HasNone(TRUE)
        BY <1>5, <2>1 DEF GivenUp
    <3>2. CASE TakesEffect(effect, TRUE, call.request.tool)
        BY <1>2, <1>5, <2>1, <3>2, TakesEffectMoves
    <3> QED BY <1>4, <3>1, <3>2
  <2>2. CASE ~OnSession
    <3>1. rows' = rows /\ session' = session
        BY <1>5, <2>2 DEF GivenUp
    <3> QED BY <3>1, RowsStay DEF TableInv
  <2> QED BY <2>1, <2>2
<1>6. ASSUME ~Unsent, Broken(effect)
      PROVE  TableInv' /\ Moves /\ (Inserts(effect) = 0 \/ ~OnSession => NoneOpened)
  <2>1. CASE OnSession
    <3>1. rows' = Ended("gone") /\ session' = "lost"
        BY <1>6, <2>1 DEF Broken, Closed
    <3> QED BY <3>1, BlockEnds
  <2>2. CASE ~OnSession
    <3>1. TakesEffect(effect, FALSE, call.request.tool) \/ HasNone(FALSE)
        BY <1>6, <2>2 DEF Broken
    <3> QED BY <1>4, <2>2, <3>1, TakesEffectMoves
  <2> QED BY <2>1, <2>2
<1>7. \/ Unanswered
      \/ ~Unsent /\ TakesEffect(effect, OnSession, call.request.tool)
      \/ HasNone(OnSession)
      \/ ~Unsent /\ GivenUp(effect)
      \/ ~Unsent /\ Broken(effect)
    BY DEF Statement
<1> QED BY <1>1, <1>3, <1>4, <1>5, <1>6, <1>7

\* A statement that a page or a count sends inserts nothing.
LEMMA SelectInsertsNothing == \A effect : SelectLike(effect) \/ effect = "none" => Inserts(effect) = 0
    BY DEF SelectLike, Inserts

\* Rows that others insert and delete.
LEMMA OthersWriteMoves == ASSUME TableInv, OthersWrite PROVE TableInv' /\ Moves /\ NoneOpened
<1>1. session' = session /\ rows \in Seq({"there", "open", "gone"})
    BY DEF OthersWrite, TableInv
<1>2. CASE rows' = Append(rows, "there")
  <2>1. rows' = rows \o <<"there">>
      BY <1>1, <1>2, AppendIsConcat
  <2>2. <<"there">> = [i \in 1..1 |-> "there"]
      OBVIOUS
  <2>3. Adds(1, "there")
      BY <2>1, <2>2 DEF Adds
  <2> QED BY <1>1, <2>3, RowsAdded
<1>3. ASSUME NEW i \in 1..Base, rows[i] = "there", rows' = [rows EXCEPT ![i] = "gone"]
      PROVE  TableInv' /\ Moves /\ NoneOpened
  <2>1. i \in 1..Len(rows) /\ Len(rows) \in Nat
      BY BaseKnown, <1>1 DEF TableInv
  <2> DEFINE less == [rows EXCEPT ![i] = "gone"]
  <2>2. /\ less \in Seq({"there", "open", "gone"}) /\ Len(less) = Len(rows)
        /\ \A j \in 1..Len(rows) : less[j] = IF j = i THEN "gone" ELSE rows[j]
      BY <1>1, <2>1, ExceptSeq
  <2>3. rows' = less
      BY <1>3
  <2> HIDE DEF less
  <2>4. DOMAIN less = 1..Len(rows) /\ DOMAIN rows = 1..Len(rows)
      BY <1>1, <2>2
  <2>5. TableInv'
      BY <1>1, <2>2, <2>3, <2>4 DEF TableInv
  <2>6. i <= Base /\ Len(rows') = Len(rows)
      BY <2>2, <2>3, BaseKnown
  <2>7. NoneOpened
      BY <2>1, <2>6 DEF NoneOpened
  <2>8. Moves
      BY <1>1, <1>3, <2>1, <2>2, <2>3, <2>6 DEF Moves
  <2> QED BY <2>5, <2>7, <2>8
<1> QED BY <1>2, <1>3 DEF OthersWrite

\* The table after any step. Only a call's own statement opens rows.
LEMMA TableStep ==
    ASSUME TableInv, StageInv, [Next]_vars
    PROVE  TableInv' /\ Moves /\ (call.at # "run" => NoneOpened)
<1>1. ASSUME rows' = rows, session' = session PROVE TableInv' /\ Moves /\ NoneOpened
    BY <1>1, RowsStay DEF TableInv
<1>2. CASE Start \/ Ask \/ Follow \/ Detour \/ CursorExpires \/ UNCHANGED vars
    BY <1>1, <1>2 DEF Start, Ask, Follow, Detour, CursorExpires, vars
<1>3. ASSUME NEW effect, call.at # "run" => Inserts(effect) = 0, Statement(effect, TRUE, TRUE)
      PROVE  TableInv' /\ Moves /\ (call.at # "run" => NoneOpened)
    BY <1>3, StatementMoves
<1>4. CASE Describe
    BY <1>3, <1>4, SelectInsertsNothing DEF Describe, Statement
<1>5. CASE Preflight
    BY <1>3, <1>5, SelectInsertsNothing DEF Preflight, Statement
<1>6. CASE Estimate
    BY <1>3, <1>6, SelectInsertsNothing DEF Estimate, Statement
<1>7. CASE Count \/ Page
  <2>1. SelectLike(call.request.statement)
      BY <1>7 DEF Count, Page, StageInv, ServerFits, CallFits
  <2>2. Statement(call.request.statement, TRUE, TRUE)
      BY <1>7 DEF Count, Page, Statement
  <2> QED BY <1>3, <2>1, <2>2, SelectInsertsNothing
<1>8. CASE Run
    BY <1>3, <1>8 DEF Run, Statement
<1>9. CASE CountJob
  <2>1. \/ TakesEffect(paging.request.statement, FALSE, paging.request.tool)
        \/ rows' = rows /\ session' = session
      BY <1>9 DEF CountJob
  <2> QED BY <1>1, <2>1, TakesEffectMoves
<1>10. CASE OrphanEnds
  <2>1. \/ \E o \in orphans : TakesEffect(o.statement, FALSE, o.tool)
        \/ rows' = rows /\ session' = session
      BY <1>10 DEF OrphanEnds
  <2> QED BY <1>1, <2>1, TakesEffectMoves
<1>11. CASE OpenSession
  <2>1. rows' = rows /\ session' = "idle" /\ session \in {"none", "gone"}
      BY <1>11 DEF OpenSession
  <2> QED BY <2>1, RowsStay
<1>12. CASE SessionEnds
  <2>1. rows' = Ended("gone") /\ session' \in {"gone", "lost"}
      BY <1>12 DEF SessionEnds, Closed
  <2> QED BY <2>1, BlockEnds
<1>13. CASE OthersWrite
    BY <1>13, OthersWriteMoves
<1> QED BY <1>2, <1>4, <1>5, <1>6, <1>7, <1>8, <1>9, <1>10, <1>11, <1>12, <1>13 DEF Next, Handle

-----------------------------------------------------------------------------
(* What was answered of the rows                                           *)

\* Nothing new is answered, or a failure forgets the block that ended.
LEMMA AckedStays ==
    ASSUME TableInv, AckedInv, Moves,
           \/ acked' = acked /\ (session' = session \/ session' \in {"aborted", "lost", "gone"})
           \/ acked' = IF session' = "open" THEN acked ELSE [acked EXCEPT !.open = {}]
    PROVE  AckedInv'
<1>1. \A id \in DOMAIN rows : id \in DOMAIN rows'
    BY DEF TableInv, Moves
<1>2. \A id \in acked.kept : id \in DOMAIN rows' /\ id > Base /\ rows'[id] = "there"
  <2> TAKE id \in acked.kept
  <2>1. id \in 1..Len(rows) /\ id > Base /\ rows[id] = "there"
      BY DEF TableInv, AckedInv
  <2>2. rows'[id] = rows[id]
      BY <2>1, BaseKnown DEF Moves
  <2> QED BY <1>1, <2>1, <2>2 DEF TableInv
<1>3. session' = "open" => \A id \in acked.open : id \in DOMAIN rows' /\ rows'[id] = "open"
  <2> SUFFICES ASSUME session' = "open", NEW id \in acked.open PROVE id \in DOMAIN rows' /\ rows'[id] = "open"
      OBVIOUS
  <2>1. session = "open" /\ id \in 1..Len(rows) /\ rows[id] = "open"
      BY DEF TableInv, AckedInv, Moves
  <2>2. rows'[id] = rows[id]
      BY <2>1 DEF Moves
  <2> QED BY <1>1, <2>1, <2>2 DEF TableInv
<1>4. CASE acked' = acked /\ (session' = session \/ session' \in {"aborted", "lost", "gone"})
    BY <1>2, <1>3, <1>4 DEF AckedInv
<1>5. CASE acked' = IF session' = "open" THEN acked ELSE [acked EXCEPT !.open = {}]
  <2>1. CASE session' = "open"
      BY <1>2, <1>3, <1>5, <2>1 DEF AckedInv
  <2>2. CASE session' # "open"
    <3>1. acked'.open = {} /\ acked'.kept = acked.kept /\ acked' = [open |-> acked'.open, kept |-> acked'.kept]
        BY <1>5, <2>2 DEF AckedInv
    <3> QED BY <1>2, <2>2, <3>1 DEF AckedInv
  <2> QED BY <2>1, <2>2
<1> QED BY <1>4, <1>5

\* What a statement that has no effect does to the session.
Quiet == session' = session \/ session' \in {"aborted", "lost", "gone"}

\* A statement that reads neither begins nor ends a transaction, other than by its failure.
LEMMA SelectIsQuiet ==
    ASSUME NEW effect, SelectLike(effect) \/ effect = "none", Statement(effect, TRUE, TRUE)
    PROVE  Quiet
<1>1. ASSUME NEW on, NEW tool, TakesEffect(effect, on, tool) PROVE session' = session
    BY <1>1 DEF TakesEffect, BlockAfter, SelectLike
<1>2. ASSUME NEW on, HasNone(on) PROVE Quiet
    BY <1>2 DEF HasNone, Quiet
<1>3. CASE Unanswered
    BY <1>3 DEF Unanswered, Quiet
<1>4. CASE GivenUp(effect)
  <2>1. session' = session \/ TakesEffect(effect, TRUE, call.request.tool) \/ HasNone(TRUE)
      BY <1>4 DEF GivenUp
  <2> QED BY <1>1, <1>2, <2>1 DEF Quiet
<1>5. CASE Broken(effect)
  <2>1. session' = "lost" \/ TakesEffect(effect, FALSE, call.request.tool) \/ HasNone(FALSE)
      BY <1>5 DEF Broken
  <2> QED BY <1>1, <1>2, <2>1 DEF Quiet
<1>6. TakesEffect(effect, OnSession, call.request.tool) \/ HasNone(OnSession)
      \/ Unanswered \/ GivenUp(effect) \/ Broken(effect)
    BY DEF Statement
<1> QED BY <1>1, <1>2, <1>3, <1>4, <1>5, <1>6 DEF Quiet

\* A statement of Run that was answered: its rows are there, or open with their block.
LEMMA RunAcks ==
    ASSUME TableInv, AckedInv, ~Unsent, NEW statement,
           TakesEffect(statement, OnSession, call.request.tool),
           acked' = IF OnSession /\ session = "open" /\ statement \notin {"commit", "rollback"}
                    THEN [acked EXCEPT !.open = @ \cup (Len(rows)+1 .. Len(rows)+Inserts(statement))]
                    ELSE [open |-> IF OnSession THEN {} ELSE acked.open,
                          kept |-> acked.kept \cup (Len(rows)+1 .. Len(rows)+Inserts(statement)) \cup
                                   (IF OnSession /\ statement = "commit" THEN acked.open ELSE {})]
    PROVE  AckedInv'
<1> DEFINE n == Inserts(statement)
           new == Len(rows)+1 .. Len(rows)+n
           as == IF OnSession /\ session = "open" THEN "open" ELSE "there"
<1>1. OnSession => session \in {"idle", "open"}
    BY DEF Unsent, NotFound, BudgetFails, TableInv
<1>2. TableInv' /\ Moves
    BY <1>1, TakesEffectMoves
<1>3. n \in Nat /\ Len(rows) \in Nat /\ Base \in Nat /\ Base <= Len(rows)
      /\ (statement \in {"begin", "commit", "rollback"} => n = 0)
    BY InsertsSome, BaseKnown DEF TableInv, Inserts
<1>4. rows' = RowsAfter(statement, OnSession) /\ session' = BlockAfter(statement, OnSession)
    BY DEF TakesEffect
<1> HIDE DEF n
<1>5. \A id \in new : id \in DOMAIN rows' /\ id > Base /\ rows'[id] = as
  <2>1. CASE OnSession /\ statement \in {"commit", "rollback"}
      BY <1>3, <2>1
  <2>2. CASE ~(OnSession /\ statement \in {"commit", "rollback"})
    <3>1. Adds(n, as)
        BY <1>1, <1>4, <2>2 DEF RowsAfter, Adds, n
    <3>2. as = "open" /\ n > 0 => session' = "open"
        BY <1>4, <2>2 DEF BlockAfter
    <3>3. session' = session \/ (session \in {"idle", "open"} /\ session' = "open")
        BY <1>1, <1>4, <2>2 DEF BlockAfter
    <3>4. Len(rows') = Len(rows) + n /\ \A i \in Len(rows)+1 .. Len(rows)+n : rows'[i] = as
        BY <1>3, <3>1, <3>2, <3>3, RowsAdded
    <3>5. DOMAIN rows' = 1..Len(rows')
        BY <1>2 DEF TableInv
    <3> QED BY <1>3, <3>4, <3>5
  <2> QED BY <2>1, <2>2
<1>6. \A id \in acked.kept : id \in DOMAIN rows' /\ id > Base /\ rows'[id] = "there"
  <2> TAKE id \in acked.kept
  <2>1. id \in 1..Len(rows) /\ id > Base /\ rows[id] = "there"
      BY DEF TableInv, AckedInv
  <2>2. rows'[id] = rows[id]
      BY <1>2, <2>1, BaseKnown DEF Moves
  <2> QED BY <1>2, <1>3, <2>1, <2>2 DEF TableInv, Moves
<1>7. ASSUME session = "open", NEW id \in acked.open
      PROVE  id \in DOMAIN rows /\ id \in DOMAIN rows' /\ id > Base /\ rows[id] = "open"
             /\ (session' = "open" => rows'[id] = "open")
  <2>1. id \in 1..Len(rows) /\ rows[id] = "open" /\ id > Base
      BY <1>7 DEF TableInv, AckedInv
  <2> QED BY <1>2, <1>3, <2>1 DEF TableInv, Moves
<1>8. CASE OnSession /\ session = "open" /\ statement \notin {"commit", "rollback"}
  <2>1. session' = "open"
      BY <1>4, <1>8 DEF BlockAfter
  <2>2. acked'.kept = acked.kept /\ acked'.open = acked.open \cup new
        /\ acked' = [open |-> acked'.open, kept |-> acked'.kept]
      BY <1>8 DEF AckedInv, n
  <2> HIDE DEF new
  <2>3. \A id \in acked'.open : id \in DOMAIN rows' /\ rows'[id] = "open"
      BY <1>5, <1>7, <1>8, <2>1, <2>2
  <2> QED BY <1>6, <2>1, <2>2, <2>3 DEF AckedInv
<1>9. CASE OnSession /\ session = "open" /\ statement = "commit"
  <2>1. session' = "idle" /\ rows' = Ended("there")
      BY <1>4, <1>9 DEF BlockAfter, RowsAfter
  <2>2. acked'.kept = acked.kept \cup new \cup acked.open /\ acked'.open = {}
        /\ acked' = [open |-> acked'.open, kept |-> acked'.kept]
      BY <1>9 DEF n
  <2>3. new = {}
      BY <1>3, <1>9
  <2>4. \A id \in acked.open : id \in DOMAIN rows' /\ id > Base /\ rows'[id] = "there"
      BY <1>7, <1>9, <2>1 DEF Ended
  <2> QED BY <1>6, <2>1, <2>2, <2>3, <2>4 DEF AckedInv
<1>10. CASE OnSession /\ (session # "open" \/ statement = "rollback")
  <2>1. statement = "rollback" => session' = "idle" /\ n = 0
      BY <1>3, <1>4, <1>10 DEF BlockAfter
  <2>2. acked'.kept = acked.kept \cup new /\ acked'.open = {}
        /\ acked' = [open |-> acked'.open, kept |-> acked'.kept]
    <3>1. statement = "commit" => acked.open = {}
        BY <1>1, <1>10 DEF AckedInv
    <3> QED BY <1>10, <3>1 DEF n
  <2>3. \A id \in new : id \in DOMAIN rows' /\ id > Base /\ rows'[id] = "there"
    <3>1. CASE statement = "rollback"
        BY <1>3, <2>1, <3>1
    <3>2. CASE session # "open"
        BY <1>5, <3>2
    <3> QED BY <1>10, <3>1, <3>2
  <2> QED BY <1>6, <2>2, <2>3 DEF AckedInv
<1>11. CASE ~OnSession
  <2>1. session' = session
      BY <1>4, <1>11 DEF BlockAfter
  <2>2. acked'.kept = acked.kept \cup new /\ acked'.open = acked.open
        /\ acked' = [open |-> acked'.open, kept |-> acked'.kept]
      BY <1>11 DEF n
  <2>3. \A id \in new : id \in DOMAIN rows' /\ id > Base /\ rows'[id] = "there"
      BY <1>5, <1>11
  <2>4. \A id \in acked'.kept : id \in DOMAIN rows' /\ id > Base /\ rows'[id] = "there"
      BY <1>6, <2>2, <2>3
  <2>5. session' = "open" => \A id \in acked'.open : id \in DOMAIN rows' /\ rows'[id] = "open"
      BY <1>7, <2>1, <2>2
  <2>6. session' \in {"none", "idle"} => acked'.open = {}
      BY <2>1, <2>2 DEF AckedInv
  <2> QED BY <2>2, <2>4, <2>5, <2>6 DEF AckedInv
<1> QED BY <1>8, <1>9, <1>10, <1>11

\* Rows that were answered, after any step.
LEMMA AckedStep ==
    ASSUME TableInv, StageInv, AckedInv, [Next]_vars
    PROVE  AckedInv'
<1>1. TableInv' /\ Moves
    BY TableStep
<1>2. ASSUME acked' = acked, Quiet PROVE AckedInv'
    BY <1>1, <1>2, AckedStays DEF Quiet
<1>3. ASSUME Fails PROVE AckedInv'
    BY <1>1, <1>3, AckedStays DEF Fails
<1>4. CASE Start \/ Ask \/ Follow \/ Detour \/ CursorExpires \/ OthersWrite \/ UNCHANGED vars
    BY <1>2, <1>4 DEF Start, Ask, Follow, Detour, CursorExpires, OthersWrite, vars, Quiet
<1>5. CASE SessionEnds
    BY <1>2, <1>5 DEF SessionEnds, Quiet
<1>6. CASE CountJob
  <2>1. acked' = acked /\ session' = session
      BY <1>6 DEF CountJob, TakesEffect, BlockAfter
  <2> QED BY <1>2, <2>1 DEF Quiet
<1>7. CASE OrphanEnds
  <2>1. acked' = acked /\ session' = session
      BY <1>7 DEF OrphanEnds, TakesEffect, BlockAfter
  <2> QED BY <1>2, <2>1 DEF Quiet
<1>8. CASE OpenSession
  <2>1. session' = "idle" /\ acked' = [acked EXCEPT !.open = {}]
      BY <1>8 DEF OpenSession
  <2> QED BY <1>1, <2>1, AckedStays
<1>9. CASE Describe
  <2>1. Statement("none", TRUE, TRUE) /\ (acked' = acked \/ Fails)
      BY <1>9 DEF Describe, Statement
  <2> QED BY <1>2, <1>3, <2>1, SelectIsQuiet
<1>10. CASE Preflight
  <2>1. Statement("none", TRUE, TRUE) /\ (ToBody \/ Fails)
      BY <1>10 DEF Preflight, Statement
  <2>2. acked' = acked \/ Fails
      BY <2>1 DEF ToBody, To, clientVars
  <2> QED BY <1>2, <1>3, <2>1, <2>2, SelectIsQuiet
<1>11. CASE Estimate
  <2>1. Statement("none", TRUE, TRUE) /\ (To("page") \/ UNCHANGED clientVars)
      BY <1>11 DEF Estimate, Statement
  <2>2. acked' = acked
      BY <2>1 DEF To, clientVars
  <2> QED BY <1>2, <2>1, <2>2, SelectIsQuiet
<1>12. CASE Count
  <2>1. SelectLike(call.request.statement)
      BY <1>12 DEF Count, StageInv, ServerFits, CallFits
  <2>2. Statement(call.request.statement, TRUE, TRUE)
        /\ (Counted(Len(Result(call.request.sql, OnSession))) \/ Fails)
      BY <1>12 DEF Count, Statement
  <2>3. acked' = acked \/ Fails
      BY <2>2 DEF Counted, clientVars
  <2> QED BY <1>2, <1>3, <2>1, <2>2, <2>3, SelectIsQuiet
<1>13. CASE Page
  <2>1. SelectLike(call.request.statement)
      BY <1>13 DEF Page, StageInv, ServerFits, CallFits
  <2>2. Statement(call.request.statement, TRUE, TRUE) /\ ((\E granted : PageAnswer(granted)) \/ Fails)
      BY <1>13 DEF Page, Statement
  <2>3. acked' = acked \/ Fails
      BY <2>2 DEF PageAnswer
  <2> QED BY <1>2, <1>3, <2>1, <2>2, <2>3, SelectIsQuiet
<1>14. CASE Run
  <2> DEFINE statement == call.request.statement
             new == Len(rows)+1 .. Len(rows)+Inserts(statement)
             acks == acked' = IF OnSession /\ session = "open" /\ statement \notin {"commit", "rollback"}
                              THEN [acked EXCEPT !.open = @ \cup new]
                              ELSE [open |-> IF OnSession THEN {} ELSE acked.open,
                                    kept |-> acked.kept \cup new \cup
                                             (IF OnSession /\ statement = "commit" THEN acked.open ELSE {})]
  <2>1. Fails \/ (~Unsent /\ TakesEffect(statement, OnSession, call.request.tool) /\ acks)
      BY <1>14 DEF Run, Statement
  <2> QED BY <1>3, <2>1, RunAcks
<1> QED BY <1>4, <1>5, <1>6, <1>7, <1>8, <1>9, <1>10, <1>11, <1>12, <1>13, <1>14 DEF Next, Handle

-----------------------------------------------------------------------------
(* Where a call goes                                                       *)

\* An argument that may be left out.
LEMMA OrIsEither == \A option, default : Or(option, default) \in {default, Head(option)}
                                         /\ (option = <<>> => Or(option, default) = default)
                                         /\ (option # <<>> => Or(option, default) = Head(option))
    BY DEF Or

\* What the handlers read of any request that a client makes.
LEMMA SettingsAre ==
    ASSUME client \in Clients, NEW r \in client.requests,
           server.pageSize \in Nat \ {0}, server.output # "sparse"
    PROVE  SettingsKnown(r, Settings(r, server))
<1>1. /\ r.tool \in {"execute_sql", "query_start", "admin_sql"} \cup ReadTools
      /\ r.rows = <<>> \/ Head(r.rows) \in Nat
      /\ r.count = <<>> \/ Head(r.count) \in {"none", "exact", "estimated", "async"}
      /\ r.output = <<>> \/ Head(r.output) # "sparse"
      /\ r.verbosity = <<>> \/ Head(r.verbosity) \in {"full", "standard", "compact"}
    BY RequestsKnown
<1>2. \A p : p \in Nat => Most(p, 1) \in Nat \ {0} /\ Most(1, p) \in Nat \ {0}
                          /\ (p # 0 => Least(p, 100) \in Nat \ {0}) /\ Least(p, 100) \in Nat
    BY DEF Most, Least
<1>3. CASE r.tool \in ReadTools
  <2>1. Settings(r, server) = ReadSettings(r, server)
      BY <1>3 DEF Settings, ReadTools
  <2> DEFINE s == ReadSettings(r, server)
             rows1 == IF r.tool = "render_sql"
                THEN Most(1, Least(Or(r.rows, IF r.profile = "inspect" THEN 100 ELSE 25), 100))
                ELSE Or(r.rows, IF r.profile = "compact" THEN Least(server.pageSize, 100) ELSE server.pageSize)
  <2>2. s = [output |-> "sparse", verbosity |-> "sparse", count |-> "none",
             pageSize |-> Most(rows1, 1), timeout |-> r.timeout,
             preflight |-> Or(r.preflight, r.profile = "inspect" \/ r.tool = "render_sql")]
      BY DEF ReadSettings
  <2>3. rows1 \in Nat
    <3>1. Or(r.rows, IF r.profile = "inspect" THEN 100 ELSE 25) \in Nat
        BY <1>1, OrIsEither
    <3>2. Or(r.rows, IF r.profile = "compact" THEN Least(server.pageSize, 100) ELSE server.pageSize) \in Nat
        BY <1>1, <1>2, OrIsEither
    <3>3. Least(Or(r.rows, IF r.profile = "inspect" THEN 100 ELSE 25), 100) \in Nat
        BY <1>2, <3>1
    <3> QED BY <1>2, <3>2, <3>3
  <2> HIDE DEF rows1
  <2>4. Most(rows1, 1) \in Nat \ {0}
      BY <1>2, <2>3
  <2>5. /\ DOMAIN s = {"output", "pageSize", "verbosity", "timeout", "preflight", "count"}
        /\ s.output = "sparse" /\ s.count = "none" /\ s.pageSize \in Nat \ {0}
      BY <2>2, <2>4
  <2> HIDE DEF s
  <2> QED BY <1>3, <2>1, <2>5 DEF SettingsKnown, ReadTools, s
<1>4. CASE r.tool = "admin_sql"
  <2>1. Settings(r, server) = AdminSettings(r)
      BY <1>4 DEF Settings, ReadTools
  <2> QED BY <1>4, <2>1 DEF SettingsKnown, AdminSettings, ReadTools
<1>5. CASE r.tool \in {"execute_sql", "query_start"}
  <2>1. Settings(r, server) = ExecuteSettings(r, server)
      BY <1>5 DEF Settings, ReadTools
  <2> DEFINE s == ExecuteSettings(r, server)
             pageSize == Most(Or(r.rows, server.pageSize), 1)
             output == CASE r.profile = "fast_agent" -> "data_only"
                         [] r.profile = "human_debug" -> "rows_safe"
                         [] r.profile = "heavy_view" -> "tuples"
                         [] OTHER -> server.output
  <2>2. /\ DOMAIN s = {"output", "pageSize", "verbosity", "timeout", "preflight", "count"}
        /\ s.output = Or(r.output, output) /\ s.count = CountMode(r)
        /\ s.pageSize = IF r.profile = "fast_agent" /\ r.rows = <<>> THEN Least(pageSize, 100) ELSE pageSize
      BY DEF ExecuteSettings
  <2>3. pageSize \in Nat \ {0}
    <3>1. Or(r.rows, server.pageSize) \in Nat
        BY <1>1, OrIsEither
    <3> QED BY <1>2, <3>1
  <2> HIDE DEF pageSize
  <2>4. s.pageSize \in Nat \ {0}
      BY <1>2, <2>2, <2>3
  <2>5. s.output # "sparse"
    <3>1. output # "sparse"
        OBVIOUS
    <3> QED BY <1>1, <2>2, <3>1, OrIsEither
  <2>6. s.verbosity \in {"full", "standard", "compact"}
    <3>1. s.verbosity = Or(r.verbosity, CASE r.profile = "human_debug" -> "full"
                                         [] r.profile = "heavy_view" -> "standard"
                                         [] OTHER -> "compact")
        BY DEF ExecuteSettings
    <3> QED BY <1>1, <3>1, OrIsEither
  <2>7. s.count \in {"none", "exact", "estimated", "async"}
      BY <1>1, <2>2 DEF CountMode
  <2> HIDE DEF s
  <2> QED BY <1>5, <2>1, <2>2, <2>4, <2>5, <2>7, <2>6 DEF SettingsKnown, ReadTools, s
<1> QED BY <1>1, <1>3, <1>4, <1>5

\* Where a call goes on to after its checks.
LEMMA BodyIs ==
    ASSUME NEW r, NEW s, SettingsKnown(r, s)
    PROVE  /\ Body(r, s) \in {"run", "count", "estimate", "page"}
           /\ Body(r, s) # "run" => SelectLike(r.statement) /\ r.tool # "admin_sql"
           /\ Body(r, s) = "estimate" => s.count = "estimated"
           /\ Body(r, s) = "page" => s.count # "exact"
    BY DEF Body, SettingsKnown

\* A call begins where its settings lead.
LEMMA CallBegins ==
    ASSUME FlowInv, StageInv, server.up, NEW r \in client.requests, NEW cursor, NEW follows,
           Call(r, cursor, follows)
    PROVE  CallFits'
<1>1. client \in Clients /\ server.pageSize \in Nat \ {0} /\ server.output # "sparse"
    BY DEF FlowInv, ServerInv, StageInv, ServerFits, CallFits
<1> DEFINE s == Settings(r, server)
<1>2. SettingsKnown(r, s)
    BY <1>1, SettingsAre
<1>3. CASE RefusedAtOnce(r, cursor)
  <2>1. call' = Idle
      BY <1>3 DEF Call, Error, Answer
  <2> QED BY <2>1 DEF CallFits, Idle
<1>4. CASE ~RefusedAtOnce(r, cursor)
  <2>1. call' = [at |-> FirstStage(r, s), request |-> r, cursor |-> cursor,
                 settings |-> s, follows |-> follows, total |-> <<>>,
                 base |-> Result(r.sql, r.session), steady |-> TRUE]
      BY <1>4 DEF Call
  <2>2. /\ FirstStage(r, s) \in {"describe", "preflight", Body(r, s)}
        /\ FirstStage(r, s) = "preflight" => r.tool # "admin_sql"
      BY <1>2, BodyIs DEF FirstStage, SettingsKnown
  <2> HIDE DEF s
  <2>3. /\ DOMAIN call' = {"at", "request", "cursor", "settings", "follows", "total", "base", "steady"}
        /\ call'.at = FirstStage(r, s) /\ call'.request = r /\ call'.settings = s
      BY <2>1
  <2> QED BY <1>2, <2>2, <2>3, BodyIs DEF CallFits
<1> QED BY <1>3, <1>4

\* It goes on where they lead.
LEMMA CallMovesOn ==
    ASSUME CallFits, call.at # "idle", NEW stage, call' = [call EXCEPT !.at = stage],
           (stage = "page" /\ call.at \in {"count", "estimate"})
           \/ (call.at = "preflight" /\ stage = Body(call.request, call.settings))
    PROVE  CallFits'
<1>1. /\ DOMAIN call' = DOMAIN call /\ call'.at = stage /\ call'.request = call.request
      /\ call'.settings = call.settings
    BY DEF CallFits
<1>2. CASE stage = "page" /\ call.at \in {"count", "estimate"}
    BY <1>1, <1>2 DEF CallFits
<1>3. CASE call.at = "preflight" /\ stage = Body(call.request, call.settings)
    BY <1>1, <1>3, BodyIs DEF CallFits
<1> QED BY <1>2, <1>3

\* Every step keeps what a call has read of the settings.
LEMMA StageStep == ASSUME FlowInv, StageInv, [Next]_vars PROVE StageInv'
<1>1. ServerFits /\ CallFits
    BY DEF StageInv, ServerFits, CallFits
<1>2. ASSUME call' = Idle PROVE CallFits'
    BY <1>2 DEF CallFits, Idle
<1>3. ASSUME Fails PROVE CallFits'
    BY <1>2, <1>3 DEF Fails, Error, Answer
<1>4. ASSUME server' = server, CallFits' PROVE StageInv'
  <2>1. ServerFits'
      BY <1>1, <1>4 DEF ServerFits
  <2> QED BY <1>4, <2>1 DEF ServerFits, CallFits, StageInv, ServerFits, CallFits
<1>5. CASE Start
  <2>1. PICK s \in Starts : Serves(s.e, s.reachable, s.missing) /\ server' = ServerOf(s.e, s.missing)
      BY <1>5 DEF Start
  <2>2. server'.pageSize \in Nat \ {0} /\ server'.output # "sparse"
      BY <2>1, StartsKnown
  <2>3. call' = call
      BY <1>5 DEF Start
  <2> QED BY <1>1, <2>2, <2>3 DEF CallFits, StageInv, ServerFits, CallFits
<1>6. CASE CountJob \/ OpenSession \/ SessionEnds \/ CursorExpires \/ OthersWrite \/ OrphanEnds \/ UNCHANGED vars
  <2>1. server' = server /\ call' = call
      BY <1>6 DEF CountJob, OpenSession, SessionEnds, CursorExpires, OthersWrite, OrphanEnds, vars
  <2>2. CallFits'
      BY <1>1, <2>1 DEF CallFits
  <2> QED BY <1>4, <2>1, <2>2
<1>7. CASE Ask
  <2>1. server.up /\ server' = server
      BY <1>7 DEF Ask
  <2>2. PICK r \in client.requests : Call(r, <<>>, FALSE)
      BY <1>7 DEF Ask
  <2> QED BY <1>4, <2>1, <2>2, CallBegins
<1>8. CASE Follow \/ Detour
  <2>1. paging.state = "open" /\ server' = server
      BY <1>8 DEF Follow, Detour
  <2>2. server.up /\ paging.request \in client.requests
      BY <2>1 DEF FlowInv, ServerInv, PagingInv, NoPaging
  <2>3. PICK r \in client.requests : Call(r, paging.cursor, TRUE)
      BY <1>8, <2>2 DEF Follow, Detour
  <2> QED BY <1>4, <2>1, <2>2, <2>3, CallBegins
<1>9. CASE Describe
  <2>1. server' = server /\ (Answer([ok |-> TRUE, kind |-> "columns"]) \/ Fails)
      BY <1>9 DEF Describe, Statement
  <2> QED BY <1>2, <1>3, <1>4, <2>1 DEF Answer
<1>10. CASE Preflight
  <2>1. server' = server /\ call.at = "preflight" /\ (To(Body(call.request, call.settings)) \/ Fails)
      BY <1>10 DEF Preflight, Statement, ToBody
  <2>2. ASSUME To(Body(call.request, call.settings)) PROVE CallFits'
      BY <1>1, <2>1, <2>2, CallMovesOn DEF To
  <2> QED BY <1>3, <1>4, <2>1, <2>2
<1>11. CASE Count
  <2> DEFINE total == Len(Result(call.request.sql, OnSession))
  <2>1. server' = server /\ call.at = "count" /\ (Counted(total) \/ Fails)
      BY <1>11 DEF Count, Statement
  <2>2. ASSUME Counted(total) PROVE CallFits'
    <3>1. /\ DOMAIN call' = DOMAIN call /\ call'.at = "page" /\ call'.request = call.request
          /\ call'.settings = call.settings
        BY <1>1, <2>1, <2>2 DEF Counted, CallFits
    <3> QED BY <1>1, <2>1, <3>1 DEF CallFits
  <2> QED BY <1>3, <1>4, <2>1, <2>2
<1>12. CASE Estimate
  <2> DEFINE Without == call' = [call EXCEPT !.at = "page", !.settings.count = "none"] /\ UNCHANGED clientVars
  <2>1. server' = server /\ call.at = "estimate" /\ (To("page") \/ Without)
      BY <1>12 DEF Estimate, Statement
  <2>2. ASSUME To("page") PROVE CallFits'
      BY <1>1, <2>1, <2>2, CallMovesOn DEF To
  <2>3. ASSUME Without PROVE CallFits'
    <3>1. /\ DOMAIN call' = DOMAIN call /\ call'.at = "page" /\ call'.request = call.request
          /\ call'.settings = [call.settings EXCEPT !.count = "none"]
        BY <1>1, <2>1, <2>3 DEF CallFits
    <3>2. SettingsKnown(call.request, call.settings)
        BY <1>1, <2>1 DEF CallFits
    <3>3. SettingsKnown(call.request, [call.settings EXCEPT !.count = "none"])
        BY <3>2 DEF SettingsKnown
    <3> QED BY <1>1, <2>1, <3>1, <3>3 DEF CallFits
  <2> QED BY <1>4, <2>1, <2>2, <2>3
<1>13. CASE Page
  <2>1. server' = server /\ ((\E granted : PageAnswer(granted)) \/ Fails)
      BY <1>13 DEF Page, Statement
  <2> QED BY <1>2, <1>3, <1>4, <2>1 DEF PageAnswer, Answer
<1>14. CASE Run
  <2>1. server' = server /\ (Answer([ok |-> TRUE, kind |-> "run"]) \/ Fails)
      BY <1>14 DEF Run, Statement
  <2> QED BY <1>2, <1>3, <1>4, <2>1 DEF Answer
<1> QED BY <1>5, <1>6, <1>7, <1>8, <1>9, <1>10, <1>11, <1>12, <1>13, <1>14 DEF Next, Handle

-----------------------------------------------------------------------------
(* What an answer says                                                     *)

\* The fields that a client needs survive, whatever mode and verbosity.
LEMMA MetaKeeps ==
    ASSUME NEW r, NEW s, SettingsKnown(r, s), r.tool # "admin_sql",
           r.tool \in {"execute_sql", "query_start"} \cup ReadTools,
           NEW mode, NEW has \in SUBSET {"next_cursor", "row_count_job_id", "capabilities"}
    PROVE  /\ "next_cursor" \in Meta(s, mode, has) <=> "next_cursor" \in has
           /\ "row_count_job_id" \in Meta(s, mode, has) => "row_count_job_id" \in has
           /\ r.tool \notin ReadTools => has \subseteq Meta(s, mode, has)
           /\ r.tool \notin ReadTools /\ mode = "count_exact" => "row_count_total" \in Meta(s, mode, has)
<1>1. CASE r.tool \in ReadTools
    BY <1>1 DEF Meta, SettingsKnown, SparseMeta
<1>2. CASE r.tool \in {"execute_sql", "query_start"}
  <2> DEFINE all == (RowsMeta \ Verbose(s.verbosity)) \cup Added \cup has
             cleaned == IF s.verbosity = "compact" THEN all \cap CompactKeeps(mode) ELSE all
  <2>1. Meta(s, mode, has) = IF s.output = "data_only" THEN cleaned \cap DataOnlyKeeps(mode) ELSE cleaned
      BY <1>2 DEF Meta, ExecuteMeta, SettingsKnown
  <2>2. {"next_cursor", "row_count_job_id", "capabilities"} \subseteq DataOnlyKeeps(mode)
        /\ DataOnlyKeeps(mode) \subseteq CompactKeeps(mode)
      BY DEF DataOnlyKeeps, CompactKeeps
  <2>3. mode = "count_exact" => "row_count_total" \in DataOnlyKeeps(mode)
      BY DEF DataOnlyKeeps
  <2>4. Verbose(s.verbosity) \subseteq {"columns", "query_hints"}
      BY <1>2 DEF Verbose, SettingsKnown
  <2>5. "row_count_total" \in all /\ has \subseteq all
      BY <2>4 DEF RowsMeta
  <2>6. \A f \in {"next_cursor", "row_count_job_id"} : f \in all => f \in has
      BY DEF RowsMeta, Added
  <2> HIDE DEF all
  <2>7. has \subseteq cleaned /\ cleaned \subseteq all
      BY <2>2, <2>5
  <2>8. mode = "count_exact" => "row_count_total" \in cleaned
      BY <2>2, <2>3, <2>5
  <2> HIDE DEF cleaned
  <2>9. Meta(s, mode, has) \subseteq cleaned /\ has \subseteq Meta(s, mode, has)
      BY <2>1, <2>2, <2>7
  <2>10. mode = "count_exact" => "row_count_total" \in Meta(s, mode, has)
      BY <2>1, <2>3, <2>8
  <2> QED BY <1>2, <2>6, <2>7, <2>9, <2>10 DEF ReadTools
<1> QED BY <1>1, <1>2

\* The modes of counting have a name each.
LEMMA ModeNames ==
    ASSUME NEW count \in {"none", "exact", "estimated", "async"}
    PROVE  /\ ModeOf(count) = "count_exact" <=> count = "exact"
           /\ ModeOf(count) = "page_window" <=> count = "none"
    BY DEF ModeOf

\* The answer to a page has the fields that a client goes on with.
LEMMA PageTells ==
    ASSUME FlowInv, StageInv, call.at = "page", NEW granted \in BOOLEAN, granted => WantsJob,
           PageAnswer(granted), server' = server
    PROVE  AnswersKeepWhatMatters'
<1> DEFINE r == call.request
           s == call.settings
           fetched == Fetched(Offset, FetchSize)
           next == NextOffset(fetched)
           count == IF s.count = "async" /\ ~granted THEN "none" ELSE s.count
           has == (IF next = <<>> THEN {} ELSE {"next_cursor"})
                  \cup (IF granted THEN {"row_count_job_id"} ELSE {})
                  \cup (IF server.degraded THEN {"capabilities"} ELSE {})
           fields == Meta(s, ModeOf(count), has)
<1>1. reply' = [ok |-> TRUE, kind |-> "page", tool |-> r.tool, mode |-> ModeOf(count),
                total |-> call.total, more |-> next # <<>>, job |-> granted, fields |-> fields,
                request |-> r, base |-> call.base]
    BY DEF PageAnswer, Answer
<1>2. /\ SettingsKnown(r, s) /\ r.tool # "admin_sql" /\ r.tool \in {"execute_sql", "query_start"} \cup ReadTools
  <2>1. client \in Clients /\ r \in client.requests
      BY DEF FlowInv, ServerInv, CallInv
  <2> QED BY <2>1, RequestsKnown DEF StageInv, ServerFits, CallFits
<1>3. has \in SUBSET {"next_cursor", "row_count_job_id", "capabilities"}
    OBVIOUS
<1>4. count \in {"none", "exact", "estimated", "async"} /\ (r.tool \in ReadTools => count = "none")
      /\ (granted => count = "async")
    BY <1>2 DEF SettingsKnown, WantsJob
<1>5. /\ next # <<>> <=> "next_cursor" \in has
      /\ granted <=> "row_count_job_id" \in has
      /\ server.degraded => "capabilities" \in has
    OBVIOUS
<1> HIDE DEF next, has, count, s, r
<1>6. /\ next # <<>> => "next_cursor" \in fields
      /\ granted => "row_count_job_id" \in fields
      /\ ModeOf(count) = "count_exact" => "row_count_total" \in fields
      /\ server.degraded /\ r.tool \notin ReadTools => "capabilities" \in fields
  <2>1. r.tool \in ReadTools => ModeOf(count) # "count_exact" /\ ~granted
      BY <1>4, ModeNames
  <2> QED BY <1>2, <1>3, <1>5, <2>1, MetaKeeps
<1> HIDE DEF fields
<1>7. /\ reply'.fields = fields /\ reply'.more = (next # <<>>) /\ reply'.job = granted
      /\ reply'.mode = ModeOf(count) /\ reply'.tool = r.tool
    BY <1>1
<1> QED BY <1>6, <1>7 DEF AnswersKeepWhatMatters

\* Nothing is answered before the server is up.
AnswersInv == AnswersKeepWhatMatters /\ (~server.up => ~reply.ok)

\* Most steps answer nothing, or an error.
LEMMA AnswerStays ==
    ASSUME AnswersInv, server' = server,
           reply' = reply \/ ((~reply'.ok \/ reply'.kind # "page") /\ server.up)
    PROVE  AnswersInv'
    BY DEF AnswersInv, AnswersKeepWhatMatters

\* Only a page changes what the last answer says of the pages.
LEMMA AnswersStep == ASSUME FlowInv, StageInv, AnswersInv, [Next]_vars PROVE AnswersInv'
<1>1. call.at # "idle" => server.up
    BY DEF FlowInv, ServerInv, Idle
<1>2. paging.state = "open" => server.up
    BY DEF FlowInv, ServerInv, NoPaging
<1>3. ASSUME Fails PROVE ~reply'.ok
    BY <1>3 DEF Fails, Error, Answer
<1>4. CASE Start
  <2>1. ~server.up /\ reply' = reply
      BY <1>4 DEF Start
  <2> QED BY <2>1 DEF AnswersInv, AnswersKeepWhatMatters
<1>5. CASE CountJob \/ OpenSession \/ SessionEnds \/ CursorExpires \/ OthersWrite \/ OrphanEnds \/ UNCHANGED vars
  <2>1. server' = server /\ reply' = reply
      BY <1>5 DEF CountJob, OpenSession, SessionEnds, CursorExpires, OthersWrite, OrphanEnds, vars
  <2> QED BY <2>1, AnswerStays
<1>6. ASSUME NEW r, NEW cursor, NEW follows, Call(r, cursor, follows) PROVE reply' = reply \/ ~reply'.ok
    BY <1>6 DEF Call, Error, Answer
<1>7. CASE Ask \/ Follow \/ Detour
  <2>1. server' = server /\ server.up /\ (reply' = reply \/ ~reply'.ok)
      BY <1>2, <1>6, <1>7 DEF Ask, Follow, Detour
  <2> QED BY <2>1, AnswerStays
<1>8. CASE Describe
  <2>1. server' = server /\ call.at # "idle" /\ (Answer([ok |-> TRUE, kind |-> "columns"]) \/ Fails)
      BY <1>8 DEF Describe, Statement
  <2> QED BY <1>1, <1>3, <2>1, AnswerStays DEF Answer
<1>9. CASE Preflight
  <2>1. server' = server /\ call.at # "idle" /\ (To(Body(call.request, call.settings)) \/ Fails)
      BY <1>9 DEF Preflight, Statement, ToBody
  <2> QED BY <1>1, <1>3, <2>1, AnswerStays DEF To, clientVars
<1>10. CASE Count
  <2>1. server' = server /\ call.at # "idle" /\ (Counted(Len(Result(call.request.sql, OnSession))) \/ Fails)
      BY <1>10 DEF Count, Statement
  <2> QED BY <1>1, <1>3, <2>1, AnswerStays DEF Counted, clientVars
<1>11. CASE Estimate
  <2>1. server' = server /\ (To("page") \/ UNCHANGED clientVars)
      BY <1>11 DEF Estimate, Statement
  <2> QED BY <2>1, AnswerStays DEF To, clientVars
<1>12. CASE Page
  <2>1. /\ server' = server /\ call.at = "page"
        /\ (\E granted \in (IF WantsJob THEN BOOLEAN ELSE {FALSE}) : PageAnswer(granted)) \/ Fails
      BY <1>12 DEF Page, Statement
  <2>2. CASE Fails
      BY <1>1, <1>3, <2>1, <2>2, AnswerStays
  <2>3. ASSUME NEW granted \in (IF WantsJob THEN BOOLEAN ELSE {FALSE}), PageAnswer(granted) PROVE AnswersInv'
    <3>1. granted \in BOOLEAN /\ (granted => WantsJob)
        OBVIOUS
    <3>2. AnswersKeepWhatMatters'
        BY <2>1, <2>3, <3>1, PageTells
    <3> QED BY <1>1, <2>1, <3>2 DEF AnswersInv
  <2> QED BY <2>1, <2>2, <2>3
<1>13. CASE Run
  <2>1. server' = server /\ call.at # "idle" /\ (Answer([ok |-> TRUE, kind |-> "run"]) \/ Fails)
      BY <1>13 DEF Run, Statement
  <2> QED BY <1>1, <1>3, <2>1, AnswerStays DEF Answer
<1> QED BY <1>4, <1>5, <1>7, <1>8, <1>9, <1>10, <1>11, <1>12, <1>13 DEF Next, Handle

-----------------------------------------------------------------------------
(* What a query had when it was asked for                                  *)

\* Some row of it is gone, or others came in for good: the query never has those rows alone again.
Gone(base) ==
    \/ \E i \in ToSet(base) : rows[i] = "gone"
    \/ \E i \in DOMAIN rows : i > Base /\ rows[i] = "there" /\ i \notin ToSet(base)

\* Rows that were inserted.
Known(base) == base \in Seq(DOMAIN rows)

\* The query still has them, or never will again.
Holds(base, sql, onSession) == Result(sql, onSession) = base \/ Gone(base)

\* What is gone stays gone, and what was added stays.
LEMMA GoneStays ==
    ASSUME TableInv, TableInv', Moves, NEW base, Known(base), Gone(base)
    PROVE  Gone(base)'
<1>1. ToSet(base) \subseteq 1..Len(rows)
    BY DEF Known, TableInv, ToSet
<1>2. /\ Len(rows) \in Nat /\ Len(rows') \in Nat /\ Len(rows) <= Len(rows') /\ Base \in Nat
      /\ DOMAIN rows = 1..Len(rows) /\ DOMAIN rows' = 1..Len(rows')
    BY BaseKnown DEF TableInv, Moves
<1>3. ASSUME NEW i \in ToSet(base), rows[i] = "gone" PROVE rows'[i] = "gone"
    BY <1>1, <1>3 DEF Moves
<1>4. ASSUME NEW i \in DOMAIN rows, i > Base, rows[i] = "there" PROVE i \in DOMAIN rows' /\ rows'[i] = "there"
    BY <1>2, <1>4 DEF Moves
<1> QED BY <1>3, <1>4 DEF Gone

\* Rows that are known stay known.
LEMMA KnownStays ==
    ASSUME TableInv, TableInv', Moves, NEW base, Known(base)
    PROVE  Known(base)'
<1>1. DOMAIN rows \subseteq DOMAIN rows'
    BY DEF TableInv, Moves
<1> QED BY <1>1, SeqMonotonic DEF Known

\* A query that had other rows in between cannot have its first rows again.
LEMMA HoldsStays ==
    ASSUME TableInv, TableInv', Moves, NEW base, NEW sql, NEW onSession, onSession => NoneOpened,
           Known(base), Holds(base, sql, onSession)
    PROVE  Holds(base, sql, onSession)'
<1>1. CASE Gone(base)
    BY <1>1, GoneStays DEF Holds
<1>2. CASE Result(sql, onSession) = base
  <2>1. ToSet(base) = Seen(onSession)
      BY <1>2, ResultLists DEF TableInv
  <2>2. CASE Seen(onSession)' = Seen(onSession)
    <3>1. Result(sql, onSession)' = Result(sql, onSession)
        BY <2>2 DEF Result
    <3> QED BY <1>2, <3>1 DEF Holds
  <2>3. /\ Len(rows) \in Nat /\ Len(rows') \in Nat /\ Len(rows) <= Len(rows') /\ Base \in Nat
        /\ DOMAIN rows = 1..Len(rows) /\ DOMAIN rows' = 1..Len(rows') /\ Base <= Len(rows)
        /\ \A i \in 1..Len(rows) : rows[i] \in {"there", "open", "gone"}
      BY BaseKnown DEF TableInv, Moves
  <2>4. ASSUME NEW i, i \in Seen(onSession), i \notin Seen(onSession)' PROVE Gone(base)'
    <3>1. i \in 1..Len(rows) /\ i \in DOMAIN rows' /\ (rows[i] = "there" \/ (onSession /\ rows[i] = "open"))
        BY <2>3, <2>4 DEF Seen
    <3>2. ~(rows'[i] = "there" \/ (onSession /\ rows'[i] = "open"))
        BY <2>4, <3>1 DEF Seen
    <3>3. rows'[i] = "gone"
        BY <3>1, <3>2 DEF Moves
    <3> QED BY <2>1, <2>4, <3>3 DEF Gone
  <2>5. ASSUME NEW i, i \in Seen(onSession)', i \notin Seen(onSession) PROVE Gone(base)'
    <3>1. i \in 1..Len(rows') /\ (rows'[i] = "there" \/ (onSession /\ rows'[i] = "open"))
        BY <2>3, <2>5 DEF Seen
    <3>2. CASE i \in 1..Len(rows)
      <4>1. ~(rows[i] = "there" \/ (onSession /\ rows[i] = "open"))
          BY <2>3, <2>5, <3>2 DEF Seen
      <4>2. rows[i] = "open" /\ rows'[i] = "there"
          BY <3>1, <3>2, <4>1 DEF Moves
      <4>3. i > Base
          BY <2>3, <3>2, <4>2 DEF TableInv
      <4> QED BY <2>1, <2>3, <2>5, <3>1, <4>2, <4>3 DEF Gone
    <3>3. CASE i \notin 1..Len(rows)
      <4>1. i \in Len(rows)+1 .. Len(rows') /\ i > Base
          BY <2>3, <3>1, <3>3
      <4>2. rows'[i] = "there"
          BY <3>1, <4>1 DEF NoneOpened
      <4> QED BY <2>1, <2>3, <2>5, <3>1, <4>1, <4>2 DEF Gone
    <3> QED BY <3>2, <3>3
  <2> QED BY <2>2, <2>4, <2>5 DEF Holds
<1> QED BY <1>1, <1>2 DEF Holds

\* What a query has now is known, and nothing of it is gone.
LEMMA ResultHolds ==
    ASSUME TableInv, NEW sql, NEW onSession
    PROVE  Known(Result(sql, onSession)) /\ ~Gone(Result(sql, onSession))
<1> DEFINE base == Result(sql, onSession)
<1>1. base \in Seq(Seen(onSession)) /\ ToSet(base) = Seen(onSession)
    BY ResultLists DEF TableInv
<1>2. Seen(onSession) \subseteq DOMAIN rows
    BY DEF Seen
<1>3. Known(base)
  <2> HIDE DEF base
  <2> QED BY <1>1, <1>2, SeqMonotonic DEF Known
<1>4. ~Gone(base)
  <2> HIDE DEF base
  <2> QED BY <1>1 DEF Gone, Seen
<1> QED BY <1>3, <1>4

-----------------------------------------------------------------------------
(* The pages that a client follows                                         *)

\* Pages that were seen against the rows that the query had at first.
Follows(seen, base) ==
    \A k \in 1..Len(seen) : IF k <= Len(base) THEN seen[k] = base[k] ELSE seen[k] \notin ToSet(base)

\* A cursor to the rows behind the first n.
StartsAt(cursor, n) == \E place : cursor = <<place>> /\ "offset" \in DOMAIN place /\ place.offset = n

\* The pages seen so far go on with the rows that were asked for, up to the next cursor.
PagingPages ==
    paging.state # "none" =>
        /\ DOMAIN paging = {"state", "request", "seen", "cursor", "jobs", "base", "counted", "steady"}
        /\ paging.seen \in Seq(Nat) /\ paging.base \in Seq(Nat) /\ paging.steady \in BOOLEAN
        /\ paging.steady => Follows(paging.seen, paging.base)
        /\ paging.state = "done" /\ paging.steady => Len(paging.base) <= Len(paging.seen)
        /\ paging.state = "open" =>
             /\ Len(paging.seen) > 0
             /\ StartsAt(paging.cursor, Len(paging.seen))

\* The rows that the first page was asked from.
First == IF call.follows THEN paging.base ELSE call.base

\* A call that follows starts behind what has been seen, and its count covers those rows.
CallPages ==
    call.at # "idle" =>
        /\ IF call.follows
           THEN /\ paging.state = "open"
                /\ StartsAt(call.cursor, Len(paging.seen))
           ELSE call.cursor = <<>>
        /\ call.steady \in BOOLEAN /\ call.base \in Seq(Nat)
        /\ call.at = "page" /\ call.settings.count = "exact" =>
             \E n \in Nat : call.total = <<n>> /\ (call.steady => Len(First) <= n)

\* What makes the last page end where the rows do.
PagesInv == PagingPages /\ CallPages

\* A prefix, entry by entry.
LEMMA PrefixIs ==
    ASSUME NEW s \in Seq(Nat), NEW t \in Seq(Nat)
    PROVE  IsPrefix(s, t) <=> Len(s) <= Len(t) /\ \A k \in 1..Len(s) : s[k] = t[k]
<1> DEFINE n == Len(s)
<1>1. n \in Nat /\ Len(t) \in Nat
    OBVIOUS
<1>2. SubSeq(s, 1, n) \in Seq(Nat) /\ Len(SubSeq(s, 1, n)) = n /\ \A k \in 1..n : SubSeq(s, 1, n)[k] = s[k]
  <2>1. \A k \in 1..n : s[k] \in Nat
      OBVIOUS
  <2>2. SubSeq(s, 1, n) = s
      BY SubSeqFull
  <2> QED BY <2>2
<1>3. ASSUME n <= Len(t)
      PROVE  SubSeq(t, 1, n) \in Seq(Nat) /\ Len(SubSeq(t, 1, n)) = n /\ \A k \in 1..n : SubSeq(t, 1, n)[k] = t[k]
  <2>1. \A k \in 1..n : t[k] \in Nat
      BY <1>1, <1>3
  <2>2. /\ SubSeq(t, 1, n) \in Seq(Nat) /\ Len(SubSeq(t, 1, n)) = IF 1 <= n THEN n - 1 + 1 ELSE 0
        /\ \A k \in 1..n - 1 + 1 : SubSeq(t, 1, n)[k] = t[1 + k - 1]
      BY <1>1, <2>1, SubSeqProperties
  <2>3. \A k \in 1..n : k \in 1..n - 1 + 1 /\ 1 + k - 1 = k
      BY <1>1
  <2>4. \A k \in 1..n : SubSeq(t, 1, n)[k] = t[k]
      BY <2>2, <2>3
  <2>5. (IF 1 <= n THEN n - 1 + 1 ELSE 0) = n
      BY <1>1
  <2> QED BY <2>2, <2>4, <2>5
<1>4. ASSUME n <= Len(t), \A k \in 1..n : s[k] = t[k] PROVE SubSeq(s, 1, n) = SubSeq(t, 1, n)
  <2> DEFINE a == SubSeq(s, 1, n)
             b == SubSeq(t, 1, n)
  <2>1. a \in Seq(Nat) /\ b \in Seq(Nat) /\ Len(a) = Len(b) /\ \A k \in 1..Len(a) : a[k] = b[k]
      BY <1>2, <1>3, <1>4
  <2> HIDE DEF a, b
  <2>2. a = b
      BY <2>1, SeqEqual
  <2> QED BY <2>2 DEF a, b
<1>5. ASSUME n <= Len(t), SubSeq(s, 1, n) = SubSeq(t, 1, n) PROVE \A k \in 1..n : s[k] = t[k]
    BY <1>2, <1>3, <1>5
<1> QED BY <1>4, <1>5 DEF IsPrefix

\* The first m entries of a sequence.
LEMMA CutIs ==
    ASSUME NEW s \in Seq(Nat), NEW m \in 0..Len(s)
    PROVE  /\ SubSeq(s, 1, m) \in Seq(Nat) /\ Len(SubSeq(s, 1, m)) = m
           /\ \A i \in 1..m : SubSeq(s, 1, m)[i] = s[i]
<1>1. m \in Int /\ \A i \in 1..m : s[i] \in Nat
    OBVIOUS
<1> DEFINE cut == SubSeq(s, 1, m)
<1>2. /\ cut \in Seq(Nat) /\ Len(cut) = IF 1 <= m THEN m - 1 + 1 ELSE 0
      /\ \A i \in 1..m - 1 + 1 : cut[i] = s[1 + i - 1]
    BY <1>1, SubSeqProperties
<1> HIDE DEF cut
<1>3. (IF 1 <= m THEN m - 1 + 1 ELSE 0) = m /\ \A i \in 1..m : i \in 1..m - 1 + 1 /\ 1 + i - 1 = i
    OBVIOUS
<1>4. \A i \in 1..m : cut[i] = s[i]
    BY <1>2, <1>3
<1> QED BY <1>2, <1>3, <1>4 DEF cut

\* The rows that a statement with LIMIT and OFFSET takes of those that a query lists, those of
\* them that make a page, and how many there are.
Window(all, from, limit) == SubSeq(all, from + 1, Least(from + limit, Len(all)))
Shown(fetched, size) == SubSeq(fetched, 1, Least(Len(fetched), size))
Taken(from, limit, n) == IF from < n THEN Least(limit, n - from) ELSE 0
Takes(page, all, from) == \A i \in 1..Len(page) : from + i <= Len(all) /\ page[i] = all[from + i]

\* What a statement with LIMIT and OFFSET takes of the rows that a query lists.
LEMMA WindowIs ==
    ASSUME NEW all \in Seq(Nat), NEW from \in Nat, NEW limit \in Nat \ {0}
    PROVE  /\ Window(all, from, limit) \in Seq(Nat)
           /\ Len(Window(all, from, limit)) = Taken(from, limit, Len(all))
           /\ Takes(Window(all, from, limit), all, from)
<1> DEFINE n == Len(all)
           to == Least(from + limit, n)
           piece == SubSeq(all, from + 1, to)
<1>1. n \in Nat /\ (\A i \in 1..n : all[i] \in Nat) /\ to = Least(from + limit, n)
    OBVIOUS
<1> HIDE DEF n, to, piece
<1>2. to \in Nat /\ to <= n /\ (from < n => to = from + Least(limit, n - from)) /\ (~(from < n) => to = n)
    BY <1>1 DEF Least
<1>3. from + 1 \in Int /\ to \in Int /\ \A i \in from + 1 .. to : all[i] \in Nat
    BY <1>1, <1>2
<1>4. /\ piece \in Seq(Nat)
      /\ Len(piece) = IF from + 1 <= to THEN to - (from + 1) + 1 ELSE 0
      /\ \A i \in 1 .. to - (from + 1) + 1 : piece[i] = all[(from + 1) + i - 1]
    BY <1>3, SubSeqProperties DEF piece
<1>5. Len(piece) = IF from < n THEN Least(limit, n - from) ELSE 0
    BY <1>1, <1>2, <1>4 DEF Least
<1>6. ASSUME NEW i \in 1..Len(piece) PROVE from + i <= n /\ piece[i] = all[from + i]
  <2>1. i \in 1 .. to - (from + 1) + 1 /\ (from + 1) + i - 1 = from + i /\ from + i <= n
      BY <1>1, <1>2, <1>4
  <2> QED BY <1>4, <2>1
<1>7. Window(all, from, limit) = piece
    BY DEF Window, piece, to, n
<1>8. Taken(from, limit, n) = Len(piece)
    BY <1>5 DEF Taken
<1>9. Takes(piece, all, from)
    BY <1>6 DEF Takes, n
<1> QED BY <1>4, <1>7, <1>8, <1>9 DEF n

\* A page is what was fetched without the row that only shows that there is more.
LEMMA PageTakes ==
    ASSUME NEW all \in Seq(Nat), NEW from \in Nat, NEW size \in Nat \ {0}, NEW fetched \in Seq(Nat),
           Takes(fetched, all, from)
    PROVE  /\ Shown(fetched, size) \in Seq(Nat) /\ Len(Shown(fetched, size)) = Least(Len(fetched), size)
           /\ Takes(Shown(fetched, size), all, from)
<1> DEFINE m == Least(Len(fetched), size)
           cut == SubSeq(fetched, 1, m)
<1>1. Len(fetched) \in Nat
    OBVIOUS
<1>2. m \in 0..Len(fetched)
    BY <1>1 DEF Least
<1>3. Shown(fetched, size) = cut
    BY DEF Shown
<1> HIDE DEF m
<1>4. cut \in Seq(Nat) /\ Len(cut) = m /\ \A i \in 1..m : cut[i] = fetched[i]
    BY <1>2, CutIs
<1> HIDE DEF cut
<1>5. \A i \in 1..m : i \in 1..Len(fetched)
    BY <1>1, <1>2
<1>6. \A i \in 1..m : from + i <= Len(all) /\ cut[i] = all[from + i]
    BY <1>4, <1>5 DEF Takes
<1> QED BY <1>3, <1>4, <1>6 DEF m, Takes

\* A page that starts where the others ended goes on with the same rows.
LEMMA PageJoins ==
    ASSUME NEW seen \in Seq(Nat), NEW base \in Seq(Nat), NEW all \in Seq(Nat), NEW page \in Seq(Nat),
           \A i, j \in 1..Len(all) : all[i] = all[j] => i = j,
           IsPrefix(base, all), Follows(seen, base), Takes(page, all, Len(seen))
    PROVE  Follows(seen \o page, base)
<1>1. Len(base) <= Len(all) /\ \A k \in 1..Len(base) : base[k] = all[k]
    BY PrefixIs
<1> DEFINE joined == seen \o page
<1>2. /\ Len(joined) = Len(seen) + Len(page)
      /\ \A k \in 1..Len(seen) + Len(page) : joined[k] = IF k <= Len(seen) THEN seen[k] ELSE page[k - Len(seen)]
    BY ConcatProperties
<1> HIDE DEF joined
<1>3. Len(seen) \in Nat /\ Len(page) \in Nat /\ Len(base) \in Nat /\ Len(all) \in Nat
    OBVIOUS
<1>4. ASSUME NEW k \in 1..Len(all), k > Len(base) PROVE all[k] \notin ToSet(base)
  <2> SUFFICES ASSUME all[k] \in ToSet(base) PROVE FALSE
      OBVIOUS
  <2>1. PICK i \in 1..Len(base) : base[i] = all[k]
    <3>1. DOMAIN base = 1..Len(base)
        OBVIOUS
    <3> QED BY <3>1 DEF ToSet
  <2>2. i \in 1..Len(all) /\ all[i] = all[k]
      BY <1>1, <1>3, <2>1
  <2>3. i = k
      BY <2>2
  <2> QED BY <1>3, <1>4, <2>1, <2>3
<1>5. ASSUME NEW k \in 1..Len(joined)
      PROVE  IF k <= Len(base) THEN joined[k] = base[k] ELSE joined[k] \notin ToSet(base)
  <2>1. CASE k <= Len(seen)
    <3>1. k \in 1..Len(seen) /\ joined[k] = seen[k]
        BY <1>2, <1>3, <2>1
    <3> QED BY <3>1 DEF Follows
  <2>2. CASE ~(k <= Len(seen))
    <3>1. k - Len(seen) \in 1..Len(page) /\ joined[k] = page[k - Len(seen)] /\ Len(seen) + (k - Len(seen)) = k
        BY <1>2, <1>3, <2>2
    <3>2. k \in 1..Len(all) /\ joined[k] = all[k]
        BY <1>3, <3>1 DEF Takes
    <3>3. CASE k <= Len(base)
      <4>1. k \in 1..Len(base)
          BY <1>3, <3>3
      <4> QED BY <1>1, <3>2, <3>3, <4>1
    <3>4. CASE ~(k <= Len(base))
        BY <1>3, <1>4, <3>2, <3>4
    <3> QED BY <3>3, <3>4
  <2> QED BY <2>1, <2>2
<1> QED BY <1>5 DEF Follows, joined

\* The next page starts behind the last row shown, and there is none when every row, or all of
\* the total, has been shown.
LimitOf(exact, size) == IF exact THEN size ELSE size + 1
NextOf(exact, from, fetched, size, total) ==
    IF exact THEN NextOfCount(from, fetched, total) ELSE NextOfWindow(from, fetched, size)
GoesOn(next, to, n, exact, total) ==
    /\ next = <<>> => to >= n \/ (exact /\ to >= total)
    /\ next # <<>> => Head(next) = to /\ to > 0

\* What the client has seen when it is told that there is no more, or where to go on.
LEMMA NextIs ==
    ASSUME NEW from \in Nat, NEW n \in Nat, NEW size \in Nat \ {0}, NEW exact \in BOOLEAN, NEW total \in Nat,
           NEW fetched \in Nat, fetched = Taken(from, LimitOf(exact, size), n),
           NEW next, next = NextOf(exact, from, fetched, size, total)
    PROVE  GoesOn(next, from + Least(fetched, size), n, exact, total)
<1>1. CASE exact
  <2>1. Least(fetched, size) = fetched /\ (fetched = 0 => from >= n)
      BY <1>1 DEF Least, Taken, LimitOf
  <2>2. next = IF fetched > 0 /\ from + fetched < total THEN <<from + fetched>> ELSE <<>>
      BY <1>1 DEF NextOf, NextOfCount
  <2>3. CASE fetched > 0 /\ from + fetched < total
    <3>1. next = <<from + fetched>> /\ next # <<>> /\ Head(next) = from + fetched
        BY <2>2, <2>3
    <3> QED BY <2>1, <2>3, <3>1 DEF GoesOn
  <2>4. CASE ~(fetched > 0 /\ from + fetched < total)
    <3>1. next = <<>>
        BY <2>2, <2>4
    <3>2. from + fetched >= n \/ from + fetched >= total
        BY <2>1, <2>4
    <3> QED BY <1>1, <2>1, <3>1, <3>2 DEF GoesOn
  <2> QED BY <2>3, <2>4
<1>2. CASE ~exact
  <2>1. next = IF fetched > size THEN <<from + size>> ELSE <<>>
      BY <1>2 DEF NextOf, NextOfWindow
  <2>2. CASE fetched > size
    <3>1. next = <<from + size>> /\ next # <<>> /\ Head(next) = from + size /\ Least(fetched, size) = size
        BY <2>1, <2>2 DEF Least
    <3> QED BY <2>2, <3>1 DEF GoesOn
  <2>3. CASE ~(fetched > size)
    <3>1. next = <<>> /\ Least(fetched, size) = fetched
        BY <2>1, <2>3 DEF Least
    <3>2. from + fetched >= n
        BY <1>2, <2>3 DEF Least, Taken, LimitOf
    <3> QED BY <3>1, <3>2 DEF GoesOn
  <2> QED BY <2>2, <2>3
<1> QED BY <1>1, <1>2

\* What a page shows and says of the next one.
LEMMA PageIs ==
    ASSUME NEW all \in Seq(Nat), NEW from \in Nat, NEW size \in Nat \ {0}, NEW exact \in BOOLEAN, NEW total \in Nat,
           NEW fetched, fetched = Window(all, from, LimitOf(exact, size)),
           NEW page, page = Shown(fetched, size),
           NEW next, next = NextOf(exact, from, Len(fetched), size, total)
    PROVE  /\ page \in Seq(Nat) /\ Takes(page, all, from)
           /\ GoesOn(next, from + Len(page), Len(all), exact, total)
<1>1. LimitOf(exact, size) \in Nat \ {0} /\ Len(all) \in Nat
    BY DEF LimitOf
<1>2. /\ fetched \in Seq(Nat) /\ Len(fetched) = Taken(from, LimitOf(exact, size), Len(all))
      /\ Takes(fetched, all, from)
    BY <1>1, WindowIs
<1>3. page \in Seq(Nat) /\ Len(page) = Least(Len(fetched), size) /\ Takes(page, all, from)
    BY <1>2, PageTakes
<1>4. Len(fetched) \in Nat
    BY <1>2
<1>5. GoesOn(next, from + Least(Len(fetched), size), Len(all), exact, total)
    BY <1>1, <1>2, <1>4, NextIs
<1> QED BY <1>3, <1>5

\* Where a page starts.
LEMMA OffsetIs ==
    ASSUME PagesInv, call.at # "idle"
    PROVE  Offset = (IF call.follows THEN Len(paging.seen) ELSE 0) /\ Offset \in Nat
<1>1. CASE call.follows
  <2>1. PICK place : call.cursor = <<place>> /\ place.offset = Len(paging.seen)
      BY <1>1 DEF PagesInv, CallPages, StartsAt
  <2>2. call.cursor # <<>> /\ Head(call.cursor).offset = Len(paging.seen)
      BY <2>1
  <2>3. Len(paging.seen) \in Nat
      BY <1>1 DEF PagesInv, CallPages, PagingPages
  <2> QED BY <1>1, <2>2, <2>3 DEF Offset, OffsetOf
<1>2. CASE ~call.follows
  <2>1. call.cursor = <<>>
      BY <1>2 DEF PagesInv, CallPages
  <2> QED BY <1>2, <2>1 DEF Offset, OffsetOf
<1> QED BY <1>1, <1>2

\* What a page says and hands on: the rows from all on, shown up to one, and what is told.
LEMMA PageGives ==
    ASSUME FlowInv, StageInv, TableInv, PagesInv, call.at = "page",
           NEW granted \in BOOLEAN, granted => WantsJob, PageAnswer(granted)
    PROVE  \E page \in Seq(Nat), jobs \in {0, 1}, all \in Seq(Nat) : \E next :
              /\ all = Result(call.request.sql, OnSession)
              /\ \A i, j \in 1..Len(all) : all[i] = all[j] => i = j
              /\ Takes(page, all, Offset)
              /\ GoesOn(next, Offset + Len(page), Len(all), Exact, Head(call.total))
              /\ jobs = 1 => Offset = 0
              /\ Pages(page, IF next # <<>> THEN Cursor(call.request, Head(next)) ELSE <<>>, jobs)
<1> DEFINE r == call.request
           s == call.settings
           all == Result(r.sql, OnSession)
           fetched == Fetched(Offset, FetchSize)
           page == SubSeq(fetched, 1, Least(Len(fetched), s.pageSize))
           next == NextOffset(fetched)
           count == IF s.count = "async" /\ ~granted THEN "none" ELSE s.count
           has == (IF next = <<>> THEN {} ELSE {"next_cursor"})
                  \cup (IF granted THEN {"row_count_job_id"} ELSE {})
                  \cup (IF server.degraded THEN {"capabilities"} ELSE {})
           fields == Meta(s, ModeOf(count), has)
           jobs == IF "row_count_job_id" \in fields THEN 1 ELSE 0
<1>1. Pages(page, IF "next_cursor" \in fields THEN Cursor(r, Head(next)) ELSE <<>>, jobs)
    BY DEF PageAnswer
<1>2. SettingsKnown(r, s) /\ r.tool # "admin_sql" /\ r.tool \in {"execute_sql", "query_start"} \cup ReadTools
  <2>1. client \in Clients /\ r \in client.requests
      BY DEF FlowInv, ServerInv, CallInv
  <2> QED BY <2>1, RequestsKnown DEF StageInv, ServerFits, CallFits
<1>3. /\ has \in SUBSET {"next_cursor", "row_count_job_id", "capabilities"}
      /\ "next_cursor" \in has <=> next # <<>>
      /\ "row_count_job_id" \in has <=> granted
    OBVIOUS
<1>4. s.pageSize \in Nat \ {0} /\ Offset \in Nat
    BY <1>2, OffsetIs DEF SettingsKnown
<1>5. /\ all \in Seq(Nat)
      /\ \A i, j \in 1..Len(all) : all[i] = all[j] => i = j
  <2>1. /\ all \in Seq(Seen(OnSession))
        /\ \A i, j \in 1..Len(all) : all[i] = all[j] => i = j
      BY ResultLists DEF TableInv
  <2>2. Seen(OnSession) \subseteq Nat
      BY DEF Seen, TableInv
  <2> HIDE DEF all
  <2> QED BY <2>1, <2>2, SeqMonotonic
<1>6. fetched = Window(all, Offset, FetchSize) /\ FetchSize = LimitOf(Exact, s.pageSize)
    BY DEF FetchSize, Fetched, Window, LimitOf
<1>7. /\ next = NextOf(Exact, Offset, Len(fetched), s.pageSize, Head(call.total))
      /\ page = Shown(fetched, s.pageSize)
    BY DEF NextOffset, NextOf, Shown
<1> HIDE DEF next, has, count
<1>8. /\ "next_cursor" \in fields <=> next # <<>>
      /\ "row_count_job_id" \in fields => granted
  <2> HIDE DEF s, r
  <2> QED BY <1>2, <1>3, MetaKeeps
<1>9. PICK size \in Nat \ {0}, from \in Nat, exact \in BOOLEAN : size = s.pageSize /\ from = Offset /\ exact = Exact
    BY <1>4 DEF Exact
<1>10. PICK total \in Nat : exact => total = Head(call.total)
  <2>1. CASE Exact
    <3>1. PICK n \in Nat : call.total = <<n>>
        BY <2>1 DEF Exact, PagesInv, CallPages
    <3> QED BY <3>1
  <2>2. CASE ~Exact
      BY <1>9, <2>2
  <2> QED BY <2>1, <2>2
<1> HIDE DEF all, fetched, fields, page, s
<1>11. PICK a \in Seq(Nat) : a = all
    BY <1>5
<1>12. PICK f, p, n : f = fetched /\ p = page /\ n = next
    OBVIOUS
<1>13. f = Window(a, from, LimitOf(exact, size)) /\ p = Shown(f, size)
    BY <1>6, <1>7, <1>9, <1>12, <1>11
<1>14. n = NextOf(exact, from, Len(f), size, total)
    BY <1>7, <1>9, <1>10, <1>12 DEF NextOf
<1>15. p \in Seq(Nat) /\ Takes(p, a, from) /\ GoesOn(n, from + Len(p), Len(a), exact, total)
    BY <1>13, <1>14, PageIs
<1>16. GoesOn(n, Offset + Len(p), Len(a), Exact, Head(call.total))
    BY <1>9, <1>10, <1>15 DEF GoesOn
<1>17. jobs \in {0, 1} /\ (jobs = 1 => Offset = 0)
    BY <1>8 DEF WantsJob
<1> HIDE DEF jobs
<1>18. Pages(page, IF next # <<>> THEN Cursor(r, Head(next)) ELSE <<>>, jobs)
    BY <1>1, <1>8
<1> HIDE DEF r, s
<1>19. all = Result(call.request.sql, OnSession) /\ r = call.request
    BY DEF all, r
<1>20. PICK j \in {0, 1} : j = jobs
    BY <1>17
<1>21. Pages(p, IF n # <<>> THEN Cursor(call.request, Head(n)) ELSE <<>>, j)
    BY <1>12, <1>18, <1>19, <1>20
<1>22. a = Result(call.request.sql, OnSession) /\ \A i, k \in 1..Len(a) : a[i] = a[k] => i = k
    BY <1>5, <1>19, <1>11
<1>23. j = 1 => Offset = 0
    BY <1>17, <1>20
<1>24. Takes(p, a, Offset)
    BY <1>9, <1>15
<1> USE <1>15
<1> WITNESS p \in Seq(Nat), j \in {0, 1}, a \in Seq(Nat)
<1> WITNESS n
<1> QED BY <1>16, <1>21, <1>22, <1>23, <1>24

\* The pages that a client has seen, after one more.
LEMMA PagingGoesOn ==
    ASSUME FlowInv, StageInv, TableInv, PagesInv, call.at = "page",
           NEW granted \in BOOLEAN, granted => WantsJob, PageAnswer(granted)
    PROVE  PagingPages'
<1>1. PICK page \in Seq(Nat), jobs \in {0, 1}, all \in Seq(Nat) : \E next :
              /\ all = Result(call.request.sql, OnSession)
              /\ \A i, j \in 1..Len(all) : all[i] = all[j] => i = j
              /\ Takes(page, all, Offset)
              /\ GoesOn(next, Offset + Len(page), Len(all), Exact, Head(call.total))
              /\ jobs = 1 => Offset = 0
              /\ Pages(page, IF next # <<>> THEN Cursor(call.request, Head(next)) ELSE <<>>, jobs)
    BY PageGives
<1>2. PICK next :
              /\ all = Result(call.request.sql, OnSession)
              /\ \A i, j \in 1..Len(all) : all[i] = all[j] => i = j
              /\ Takes(page, all, Offset)
              /\ GoesOn(next, Offset + Len(page), Len(all), Exact, Head(call.total))
              /\ jobs = 1 => Offset = 0
              /\ Pages(page, IF next # <<>> THEN Cursor(call.request, Head(next)) ELSE <<>>, jobs)
    BY <1>1
<1>3. Offset = (IF call.follows THEN Len(paging.seen) ELSE 0) /\ Offset \in Nat
    BY OffsetIs
<1> DEFINE cursor == IF next # <<>> THEN Cursor(call.request, Head(next)) ELSE <<>>
<1>4. /\ next # <<>> => StartsAt(cursor, Offset + Len(page))
      /\ cursor = <<>> <=> next = <<>>
  <2> DEFINE place == [hash |-> Hash(call.request), offset |-> Head(next), expired |-> FALSE]
  <2>1. cursor = IF next # <<>> THEN <<place>> ELSE <<>>
      BY DEF Cursor
  <2>2. "offset" \in DOMAIN place /\ place.offset = Head(next)
      OBVIOUS
  <2> HIDE DEF place
  <2>3. StartsAt(<<place>>, Head(next))
      BY <2>2 DEF StartsAt
  <2>4. <<place>> # <<>>
      OBVIOUS
  <2>5. next # <<>> => Head(next) = Offset + Len(page)
      BY <1>2 DEF GoesOn
  <2>6. CASE next # <<>>
    <3>1. cursor = <<place>>
        BY <2>1, <2>6
    <3>2. StartsAt(cursor, Head(next))
        BY <2>3, <3>1
    <3> QED BY <2>4, <2>5, <2>6, <3>1, <3>2
  <2>7. CASE next = <<>>
      BY <2>1, <2>7
  <2> QED BY <2>6, <2>7
<1>5. Len(page) \in Nat /\ Len(all) \in Nat
    OBVIOUS
<1>6. Pages(page, cursor, jobs)
    BY <1>2
<1> HIDE DEF cursor
<1>7. Steady = IsPrefix(First, all)
    BY <1>2 DEF Steady, First
<1>8. First \in Seq(Nat) /\ call.steady \in BOOLEAN /\ (call.follows => paging.state # "none")
    BY DEF PagesInv, PagingPages, CallPages, First
<1>9. ASSUME call.steady, Steady, next = <<>> PROVE Len(First) <= Offset + Len(page)
  <2>1. Len(First) <= Len(all) /\ Len(First) \in Nat
    <3>1. PICK first \in Seq(Nat) : first = First
        BY <1>8
    <3>2. IsPrefix(first, all)
        BY <1>7, <1>9, <3>1
    <3>3. Len(first) <= Len(all)
        BY <3>2, PrefixIs
    <3> QED BY <3>1, <3>3
  <2>2. CASE Offset + Len(page) >= Len(all)
      BY <1>3, <1>5, <2>1, <2>2
  <2>3. CASE Exact /\ Offset + Len(page) >= Head(call.total)
    <3>1. PICK n \in Nat : call.total = <<n>> /\ (call.steady => Len(First) <= n)
        BY <2>3 DEF Exact, PagesInv, CallPages
    <3>2. Head(call.total) = n
        BY <3>1
    <3> QED BY <1>3, <1>5, <1>9, <2>1, <2>3, <3>1, <3>2
  <2> QED BY <1>2, <1>9, <2>2, <2>3 DEF GoesOn
<1>10. ASSUME NEW seen \in Seq(Nat), Steady, Follows(seen, First), Offset = Len(seen)
      PROVE  Follows(seen \o page, First)
    BY <1>2, <1>7, <1>8, <1>10, PageJoins
<1>11. CASE call.follows
  <2>1. /\ DOMAIN paging = {"state", "request", "seen", "cursor", "jobs", "base", "counted", "steady"}
        /\ paging.seen \in Seq(Nat) /\ paging.base \in Seq(Nat) /\ paging.steady \in BOOLEAN
        /\ paging.steady => Follows(paging.seen, paging.base)
      BY <1>8, <1>11 DEF PagesInv, PagingPages
  <2>2. paging' = [paging EXCEPT !.seen = @ \o page, !.cursor = cursor, !.jobs = @ + jobs,
                                 !.steady = @ /\ call.steady /\ Steady,
                                 !.state = IF cursor = <<>> THEN "done" ELSE "open"]
      BY <1>6, <1>11 DEF Pages
  <2>3. /\ DOMAIN paging' = DOMAIN paging /\ paging'.seen = paging.seen \o page
        /\ paging'.base = paging.base /\ paging'.cursor = cursor
        /\ paging'.state = (IF cursor = <<>> THEN "done" ELSE "open")
      BY <2>1, <2>2
  <2>4. paging'.steady = (paging.steady /\ call.steady /\ Steady)
      BY <2>1, <2>2
  <2>5. /\ paging'.steady \in BOOLEAN
        /\ paging'.steady => paging.steady /\ call.steady /\ Steady
      BY <2>4
  <2>6. First = paging.base /\ Offset = Len(paging.seen)
      BY <1>3, <1>11 DEF First
  <2>7. paging.seen \o page \in Seq(Nat) /\ Len(paging.seen \o page) = Offset + Len(page)
      BY <2>1, <2>6, ConcatProperties
  <2>8. paging'.steady => Follows(paging.seen \o page, paging.base)
      BY <1>10, <2>1, <2>5, <2>6
  <2>9. paging'.state = "done" /\ paging'.steady => Len(paging.base) <= Len(paging.seen \o page)
      BY <1>4, <1>9, <2>3, <2>5, <2>6, <2>7
  <2>10. paging'.state = "open" =>
            /\ Len(paging.seen \o page) > 0
            /\ StartsAt(cursor, Len(paging.seen \o page))
    <3> SUFFICES ASSUME paging'.state = "open"
                 PROVE  /\ Len(paging.seen \o page) > 0
                        /\ StartsAt(cursor, Len(paging.seen \o page))
        OBVIOUS
    <3>1. next # <<>>
        BY <1>4, <2>3
    <3>2. Offset + Len(page) > 0
        BY <1>2, <3>1 DEF GoesOn
    <3> QED BY <1>4, <2>7, <3>1, <3>2
  <2> QED BY <2>1, <2>3, <2>5, <2>7, <2>8, <2>9, <2>10 DEF PagingPages
<1>12. CASE ~call.follows
  <2>1. paging' = [state |-> IF cursor = <<>> THEN "done" ELSE "open", request |-> call.request,
                   seen |-> page, cursor |-> cursor, jobs |-> jobs, base |-> call.base, counted |-> <<>>,
                   steady |-> call.steady /\ Steady]
      BY <1>6, <1>12 DEF Pages
  <2>2. /\ DOMAIN paging' = {"state", "request", "seen", "cursor", "jobs", "base", "counted", "steady"}
        /\ paging'.seen = page /\ paging'.base = call.base /\ paging'.cursor = cursor
        /\ paging'.state = (IF cursor = <<>> THEN "done" ELSE "open")
      BY <2>1
  <2>3. paging'.steady = (call.steady /\ Steady)
      BY <2>1
  <2>4. paging'.steady \in BOOLEAN /\ (paging'.steady => call.steady /\ Steady)
      BY <2>3
  <2>5. First = call.base /\ Offset = 0
      BY <1>3, <1>12 DEF First
  <2>6. ASSUME Steady PROVE Follows(page, call.base)
    <3>1. <<>> \in Seq(Nat) /\ Len(<<>>) = 0 /\ Follows(<<>>, First)
        BY DEF Follows
    <3>2. Follows(<<>> \o page, First)
        BY <1>10, <2>5, <2>6, <3>1
    <3>3. <<>> \o page = page
        BY ConcatEmptySeq
    <3> QED BY <2>5, <3>2, <3>3
  <2>7. paging'.state = "done" /\ paging'.steady => Len(call.base) <= Len(page)
      BY <1>4, <1>5, <1>9, <2>2, <2>4, <2>5
  <2>8. paging'.state = "open" =>
            /\ Len(page) > 0
            /\ StartsAt(cursor, Len(page))
    <3> SUFFICES ASSUME paging'.state = "open"
                 PROVE  /\ Len(page) > 0
                        /\ StartsAt(cursor, Len(page))
        OBVIOUS
    <3>1. next # <<>> /\ Offset + Len(page) = Len(page)
        BY <1>4, <1>5, <2>2, <2>5
    <3>2. Len(page) > 0
        BY <1>2, <3>1 DEF GoesOn
    <3> QED BY <1>4, <3>1, <3>2
  <2> QED BY <1>8, <2>2, <2>4, <2>5, <2>6, <2>7, <2>8 DEF PagingPages
<1> QED BY <1>11, <1>12

\* The steps that leave the client's pages as they were, or give them up.
LEMMA PagesStay ==
    ASSUME PagingPages, paging' = paging \/ (paging.state # "none" /\ paging' = [paging EXCEPT !.state = "failed"])
    PROVE  PagingPages'
<1>1. CASE paging' = paging
    BY <1>1 DEF PagingPages
<1>2. CASE paging.state # "none" /\ paging' = [paging EXCEPT !.state = "failed"]
  <2>1. /\ DOMAIN paging = {"state", "request", "seen", "cursor", "jobs", "base", "counted", "steady"}
        /\ paging.seen \in Seq(Nat) /\ paging.base \in Seq(Nat) /\ paging.steady \in BOOLEAN
        /\ paging.steady => Follows(paging.seen, paging.base)
      BY <1>2 DEF PagingPages
  <2>2. /\ DOMAIN paging' = DOMAIN paging /\ paging'.seen = paging.seen /\ paging'.base = paging.base
        /\ paging'.steady = paging.steady /\ paging'.state = "failed"
      BY <1>2, <2>1
  <2> QED BY <2>1, <2>2 DEF PagingPages
<1> QED BY <1>1, <1>2

\* The call in progress keeps the place it started from.
LEMMA PlaceStays ==
    ASSUME CallPages, call.at # "idle", paging' = paging,
           /\ call'.cursor = call.cursor /\ call'.follows = call.follows /\ call'.base = call.base
           /\ call'.steady = call.steady
           /\ ~(call'.at = "page" /\ call'.settings.count = "exact")
    PROVE  CallPages'
<1>1. IF call.follows
      THEN /\ paging.state = "open"
           /\ StartsAt(call.cursor, Len(paging.seen))
      ELSE call.cursor = <<>>
    BY DEF CallPages
<1>2. call.steady \in BOOLEAN /\ call.base \in Seq(Nat)
    BY DEF CallPages
<1> QED BY <1>1, <1>2 DEF CallPages

\* A call starts at the first row, or where the client was told to go on.
LEMMA CallStarts ==
    ASSUME FlowInv, StageInv, TableInv, PagesInv, call = Idle, server.up, NEW r \in client.requests,
           NEW cursor, NEW follows \in BOOLEAN, Call(r, cursor, follows),
           IF follows THEN paging.state = "open" /\ cursor = paging.cursor ELSE cursor = <<>>
    PROVE  PagesInv'
<1> DEFINE s == Settings(r, server)
           base == Result(r.sql, r.session)
<1>1. CASE RefusedAtOnce(r, cursor)
  <2>1. call' = Idle /\ paging' = (IF follows THEN [paging EXCEPT !.state = "failed"] ELSE paging)
      BY <1>1 DEF Call, Error, Answer, PagingFails
  <2>2. PagingPages'
      BY <2>1, PagesStay DEF PagesInv
  <2> QED BY <2>1, <2>2 DEF PagesInv, CallPages, Idle
<1>2. CASE ~RefusedAtOnce(r, cursor)
  <2>1. /\ call' = [at |-> FirstStage(r, s), request |-> r, cursor |-> cursor, settings |-> s,
                    follows |-> follows, total |-> <<>>, base |-> base, steady |-> TRUE]
        /\ paging' = paging
      BY <1>2 DEF Call
  <2>2. SettingsKnown(r, s)
      BY SettingsAre DEF FlowInv, ServerInv, StageInv, ServerFits, CallFits
  <2>3. ~(FirstStage(r, s) = "page" /\ s.count = "exact")
      BY <2>2, BodyIs DEF FirstStage
  <2>4. base \in Seq(Nat)
    <3>1. base \in Seq(Seen(r.session)) /\ Seen(r.session) \subseteq Nat
        BY ResultLists DEF TableInv, Seen
    <3> HIDE DEF base
    <3> QED BY <3>1, SeqMonotonic
  <2>5. IF follows
        THEN /\ paging.state = "open"
             /\ StartsAt(cursor, Len(paging.seen))
        ELSE cursor = <<>>
      BY DEF PagesInv, PagingPages
  <2> HIDE DEF s, base
  <2>6. /\ call'.at = FirstStage(r, s) /\ call'.settings = s /\ call'.cursor = cursor
        /\ call'.follows = follows /\ call'.base = base /\ call'.steady = TRUE
      BY <2>1
  <2>7. CallPages'
      BY <2>1, <2>3, <2>4, <2>5, <2>6 DEF CallPages
  <2>8. PagingPages'
      BY <2>1, PagesStay DEF PagesInv
  <2> QED BY <2>7, <2>8 DEF PagesInv
<1> QED BY <1>1, <1>2

\* A count of rows that are still in front is no smaller than they are many.
LEMMA TotalCovers ==
    ASSUME FlowInv, StageInv, TableInv, PagesInv, call.at = "count",
           Counted(Len(Result(call.request.sql, OnSession)))
    PROVE  PagesInv'
<1> DEFINE all == Result(call.request.sql, OnSession)
<1>1. all \in Seq(Nat)
  <2>1. all \in Seq(Seen(OnSession)) /\ Seen(OnSession) \subseteq Nat
      BY ResultLists DEF TableInv, Seen
  <2> HIDE DEF all
  <2> QED BY <2>1, SeqMonotonic
<1>2. call' = [call EXCEPT !.at = "page", !.total = <<Len(all)>>, !.steady = Steady] /\ paging' = paging
    BY DEF Counted, clientVars
<1>3. Steady = IsPrefix(First, all)
    BY DEF Steady, First
<1> HIDE DEF all
<1>4. DOMAIN call = {"at", "request", "cursor", "settings", "follows", "total", "base", "steady"}
    BY DEF StageInv, ServerFits, CallFits
<1>5. /\ call'.at = "page" /\ call'.cursor = call.cursor /\ call'.follows = call.follows
      /\ call'.base = call.base /\ call'.total = <<Len(all)>>
    BY <1>2, <1>4
<1>6. call'.steady = Steady
    BY <1>2, <1>4
<1>7. First \in Seq(Nat) /\ (call.follows => paging.state # "none")
    BY DEF PagesInv, PagingPages, CallPages, First
<1>8. call'.steady \in BOOLEAN /\ (call'.steady => Len(First) <= Len(all))
  <2>1. PICK first \in Seq(Nat), a \in Seq(Nat) : first = First /\ a = all
      BY <1>1, <1>7
  <2>2. IsPrefix(first, a) \in BOOLEAN /\ (IsPrefix(first, a) => Len(first) <= Len(a))
      BY PrefixIs DEF IsPrefix
  <2> QED BY <1>3, <1>6, <2>1, <2>2
<1>9. First' = First
    BY <1>2, <1>5 DEF First
<1>10. Len(all) \in Nat
    BY <1>1
<1>11. IF call.follows
       THEN /\ paging.state = "open"
            /\ StartsAt(call.cursor, Len(paging.seen))
       ELSE call.cursor = <<>>
    BY DEF PagesInv, CallPages
<1>12. call.base \in Seq(Nat)
    BY DEF PagesInv, CallPages
<1>13. CallPages'
    BY <1>2, <1>5, <1>8, <1>9, <1>10, <1>11, <1>12 DEF CallPages
<1> QED BY <1>2, <1>13, PagesStay DEF PagesInv

\* Others' steps and the client's own beside a call.
LEMMA PagesBeside ==
    ASSUME FlowInv, PagesInv,
           CountJob \/ CursorExpires \/ OpenSession \/ SessionEnds \/ OthersWrite \/ OrphanEnds \/ Start \/ UNCHANGED vars
    PROVE  PagesInv'
<1>1. call' = call
    BY DEF CountJob, CursorExpires, OpenSession, SessionEnds, OthersWrite, OrphanEnds, Start, vars
<1>2. ASSUME paging'.state = paging.state, paging'.seen = paging.seen, paging'.base = paging.base PROVE CallPages'
    BY <1>1, <1>2 DEF PagesInv, CallPages, First
<1>3. ASSUME paging' = paging PROVE PagesInv'
    BY <1>2, <1>3, PagesStay DEF PagesInv
<1>4. CASE CountJob
  <2>1. PICK counted : paging' = [paging EXCEPT !.counted = counted]
      BY <1>4 DEF CountJob
  <2>2. paging.state # "none"
      BY <1>4 DEF CountJob
  <2>3. DOMAIN paging = {"state", "request", "seen", "cursor", "jobs", "base", "counted", "steady"}
      BY <2>2 DEF PagesInv, PagingPages
  <2>4. /\ DOMAIN paging' = DOMAIN paging /\ paging'.state = paging.state /\ paging'.seen = paging.seen
        /\ paging'.base = paging.base /\ paging'.steady = paging.steady /\ paging'.cursor = paging.cursor
      BY <2>1, <2>3
  <2>5. PagingPages'
      BY <2>2, <2>4 DEF PagesInv, PagingPages
  <2> QED BY <1>2, <2>4, <2>5 DEF PagesInv
<1>5. CASE CursorExpires
  <2>1. paging.state = "open" /\ paging' = [paging EXCEPT !.cursor = <<[Head(@) EXCEPT !.expired = TRUE]>>]
      BY <1>5 DEF CursorExpires
  <2>2. PICK place : paging.cursor = <<place>> /\ "offset" \in DOMAIN place /\ place.offset = Len(paging.seen)
      BY <2>1 DEF PagesInv, PagingPages, StartsAt
  <2>3. /\ DOMAIN paging = {"state", "request", "seen", "cursor", "jobs", "base", "counted", "steady"}
        /\ Len(paging.seen) > 0 /\ paging.seen \in Seq(Nat) /\ paging.base \in Seq(Nat) /\ paging.steady \in BOOLEAN
        /\ paging.steady => Follows(paging.seen, paging.base)
      BY <2>1 DEF PagesInv, PagingPages
  <2> DEFINE later == [Head(paging.cursor) EXCEPT !.expired = TRUE]
  <2>4. "offset" \in DOMAIN later /\ later.offset = Len(paging.seen)
      BY <2>2
  <2>5. paging' = [paging EXCEPT !.cursor = <<later>>]
      BY <2>1
  <2> HIDE DEF later
  <2>6. StartsAt(<<later>>, Len(paging.seen))
      BY <2>4 DEF StartsAt
  <2>7. /\ DOMAIN paging' = DOMAIN paging /\ paging'.state = paging.state /\ paging'.seen = paging.seen
        /\ paging'.base = paging.base /\ paging'.steady = paging.steady /\ paging'.cursor = <<later>>
      BY <2>3, <2>5
  <2>8. PagingPages'
      BY <2>1, <2>3, <2>6, <2>7 DEF PagingPages
  <2> QED BY <1>2, <2>8, <2>7 DEF PagesInv
<1>6. CASE OpenSession \/ SessionEnds \/ OthersWrite \/ OrphanEnds \/ Start \/ UNCHANGED vars
  <2>1. paging' = paging
      BY <1>6 DEF OpenSession, SessionEnds, OthersWrite, OrphanEnds, Start, vars
  <2> QED BY <1>3, <2>1
<1> QED BY <1>4, <1>5, <1>6

\* Every step keeps the pages in front of the rows that were asked for.
LEMMA PagesStep == ASSUME FlowInv, StageInv, TableInv, PagesInv, [Next]_vars PROVE PagesInv'
<1>1. call.at # "idle" => CallPages
    BY DEF PagesInv
<1>2. ASSUME call' = Idle, PagingPages' PROVE PagesInv'
    BY <1>2 DEF PagesInv, CallPages, Idle
<1>3. ASSUME call.at # "idle", Fails PROVE PagesInv'
  <2>1. call' = Idle /\ paging' = (IF call.follows THEN [paging EXCEPT !.state = "failed"] ELSE paging)
      BY <1>3 DEF Fails, Error, Answer, PagingFails
  <2>2. call.follows => paging.state # "none"
      BY <1>3 DEF FlowInv, CallInv
  <2>3. PagingPages'
      BY <2>1, <2>2, PagesStay DEF PagesInv
  <2> QED BY <1>2, <2>1, <2>3
<1>4. call.at # "idle" =>
        DOMAIN call = {"at", "request", "cursor", "settings", "follows", "total", "base", "steady"}
    BY DEF StageInv, ServerFits, CallFits
<1>5. ASSUME call.at # "idle", NEW stage, To(stage), stage = "page" => call.settings.count # "exact"
      PROVE  PagesInv'
  <2>1. call' = [call EXCEPT !.at = stage] /\ paging' = paging
      BY <1>5 DEF To, clientVars
  <2>2. /\ call'.at = stage /\ call'.cursor = call.cursor /\ call'.follows = call.follows
        /\ call'.base = call.base /\ call'.steady = call.steady /\ call'.settings = call.settings
      BY <1>4, <1>5, <2>1
  <2> QED BY <1>1, <1>5, <2>1, <2>2, PlaceStays, PagesStay DEF PagesInv
<1>6. CASE Ask
  <2>1. call = Idle /\ server.up
      BY <1>6 DEF Ask
  <2>2. PICK r \in client.requests : Call(r, <<>>, FALSE)
      BY <1>6 DEF Ask
  <2> QED BY <2>1, <2>2, CallStarts
<1>7. CASE Follow \/ Detour
  <2>1. call = Idle /\ paging.state = "open"
      BY <1>7 DEF Follow, Detour
  <2>2. server.up /\ paging.request \in client.requests
      BY <2>1 DEF FlowInv, ServerInv, PagingInv, NoPaging
  <2>3. PICK r \in client.requests : Call(r, paging.cursor, TRUE)
      BY <1>7, <2>2 DEF Follow, Detour
  <2> QED BY <2>1, <2>2, <2>3, CallStarts
<1>8. CASE Describe
  <2>1. call.at = "describe" /\ ((Answer([ok |-> TRUE, kind |-> "columns"]) /\ paging' = paging) \/ Fails)
      BY <1>8 DEF Describe, Statement
  <2> QED BY <1>2, <1>3, <2>1, PagesStay DEF Answer, PagesInv
<1>9. CASE Preflight
  <2>1. call.at = "preflight" /\ (To(Body(call.request, call.settings)) \/ Fails)
      BY <1>9 DEF Preflight, Statement, ToBody
  <2>2. SettingsKnown(call.request, call.settings)
      BY <2>1 DEF StageInv, ServerFits, CallFits
  <2> QED BY <1>3, <1>5, <2>1, <2>2, BodyIs
<1>10. CASE Count
  <2>1. call.at = "count" /\ (Counted(Len(Result(call.request.sql, OnSession))) \/ Fails)
      BY <1>10 DEF Count, Statement
  <2> QED BY <1>3, <2>1, TotalCovers
<1>11. CASE Estimate
  <2> DEFINE Without == call' = [call EXCEPT !.at = "page", !.settings.count = "none"] /\ UNCHANGED clientVars
  <2>1. call.at = "estimate" /\ (To("page") \/ Without)
      BY <1>11 DEF Estimate, Statement
  <2>2. call.settings.count = "estimated" /\ "count" \in DOMAIN call.settings
      BY <2>1 DEF StageInv, ServerFits, CallFits, SettingsKnown
  <2>3. ASSUME Without PROVE PagesInv'
    <3>1. /\ paging' = paging /\ call'.cursor = call.cursor /\ call'.follows = call.follows
          /\ call'.base = call.base /\ call'.steady = call.steady /\ call'.settings.count = "none"
        BY <1>4, <2>1, <2>2, <2>3 DEF clientVars
    <3> QED BY <1>1, <2>1, <3>1, PlaceStays, PagesStay DEF PagesInv
  <2> QED BY <1>5, <2>1, <2>2, <2>3
<1>12. CASE Page
  <2>1. /\ call.at = "page"
        /\ (\E granted \in (IF WantsJob THEN BOOLEAN ELSE {FALSE}) : PageAnswer(granted)) \/ Fails
      BY <1>12 DEF Page, Statement
  <2>2. ASSUME NEW granted \in (IF WantsJob THEN BOOLEAN ELSE {FALSE}), PageAnswer(granted) PROVE PagesInv'
    <3>1. granted \in BOOLEAN /\ (granted => WantsJob)
        OBVIOUS
    <3>2. PagingPages'
        BY <2>1, <2>2, <3>1, PagingGoesOn
    <3>3. call' = Idle
        BY <2>2 DEF PageAnswer, Answer
    <3> QED BY <1>2, <3>2, <3>3
  <2> QED BY <1>3, <2>1, <2>2
<1>13. CASE Run
  <2>1. call.at = "run" /\ ((Answer([ok |-> TRUE, kind |-> "run"]) /\ paging' = paging) \/ Fails)
      BY <1>13 DEF Run, Statement
  <2> QED BY <1>2, <1>3, <2>1, PagesStay DEF Answer, PagesInv
<1> QED BY <1>6, <1>7, <1>8, <1>9, <1>10, <1>11, <1>12, <1>13, PagesBeside DEF Next, Handle

\* What was followed to the end is complete.
LEMMA PagesSay == ASSUME PagesInv PROVE PagingLosesNothing
<1> SUFFICES ASSUME paging.state = "done", paging.steady
             PROVE  /\ IsPrefix(paging.base, paging.seen)
                    /\ \A k \in Len(paging.base)+1 .. Len(paging.seen) : paging.seen[k] \notin ToSet(paging.base)
    BY DEF PagingLosesNothing
<1>1. PICK seen \in Seq(Nat), base \in Seq(Nat) : seen = paging.seen /\ base = paging.base
    BY DEF PagesInv, PagingPages
<1>2. Follows(seen, base) /\ Len(base) <= Len(seen)
    BY <1>1 DEF PagesInv, PagingPages
<1>3. Len(seen) \in Nat /\ Len(base) \in Nat
    OBVIOUS
<1>4. \A k \in 1..Len(base) : base[k] = seen[k]
  <2> TAKE k \in 1..Len(base)
  <2>1. k \in 1..Len(seen) /\ k <= Len(base)
      BY <1>2, <1>3
  <2> QED BY <1>2, <2>1 DEF Follows
<1>5. IsPrefix(base, seen)
    BY <1>2, <1>4, PrefixIs
<1>6. ASSUME NEW k \in Len(base)+1 .. Len(seen) PROVE seen[k] \notin ToSet(base)
  <2>1. k \in 1..Len(seen) /\ ~(k <= Len(base))
      BY <1>3
  <2> QED BY <1>2, <2>1 DEF Follows
<1> QED BY <1>1, <1>5, <1>6

-----------------------------------------------------------------------------
(* Totals                                                                  *)

\* The rows that a call's query had when it was asked for are known, and so is its total.
Asked(b, sql, on) ==
    /\ call.at \in {"preflight", "count", "estimate", "page"}
    /\ b = call.base /\ sql = call.request.sql /\ on = call.request.session
CallTotals ==
    \A b, sql, on : Asked(b, sql, on) =>
        /\ Known(b) /\ Holds(b, sql, on)
        /\ call.at = "page" /\ call.settings.count = "exact" => call.total = <<Len(b)>> \/ Gone(b)

\* So are those of the last answer.
ReplyTotals ==
    \A b : reply.ok /\ reply.kind = "page" /\ b = reply.base =>
        Known(b) /\ (reply.mode = "count_exact" => reply.total = <<Len(b)>> \/ Gone(b))

\* And those of the pages that are followed; a count job's of a session are not compared.
Followed(b, sql) == paging.state # "none" /\ b = paging.base /\ sql = paging.request.sql
PagingTotals ==
    \A b, sql : Followed(b, sql) =>
        /\ Known(b)
        /\ ~paging.request.session =>
              /\ Holds(b, sql, FALSE)
              /\ paging.counted # <<>> => paging.counted[1] \in {Len(b), -1} \/ Gone(b)

\* One job at most counts them.
JobsOnce == paging.state # "none" => paging.counted \in Seq(Int) /\ paging.jobs \in {0, 1}

\* What makes a total that of the rows that were asked for.
TotalsInv == CallTotals /\ ReplyTotals /\ PagingTotals /\ JobsOnce

\* What a step leaves of the rows that a query had.
FirstRowsLast ==
    /\ \A b : Known(b) => Known(b)'
    /\ \A b : Known(b) /\ Gone(b) => Gone(b)'
    /\ \A b, sql : Known(b) /\ Holds(b, sql, FALSE) => Holds(b, sql, FALSE)'
    /\ call.at # "run" => \A b, sql, on : Known(b) /\ Holds(b, sql, on) => Holds(b, sql, on)'

\* A step leaves what is known of the first rows.
LEMMA RowsLast == ASSUME TableInv, StageInv, [Next]_vars PROVE FirstRowsLast
<1>1. TableInv' /\ Moves /\ (call.at # "run" => NoneOpened)
    BY TableStep
<1>2. ASSUME NEW b, Known(b) PROVE Known(b)'
    BY <1>1, <1>2, KnownStays
<1>3. ASSUME NEW b, Known(b), Gone(b) PROVE Gone(b)'
    BY <1>1, <1>3, GoneStays
<1>4. ASSUME NEW b, NEW sql, Known(b), Holds(b, sql, FALSE) PROVE Holds(b, sql, FALSE)'
    BY <1>1, <1>4, HoldsStays
<1>5. ASSUME call.at # "run", NEW b, NEW sql, NEW on, Known(b), Holds(b, sql, on) PROVE Holds(b, sql, on)'
    BY <1>1, <1>5, HoldsStays
<1> QED BY <1>2, <1>3, <1>4, <1>5 DEF FirstRowsLast

\* Off the session its transaction is not seen.
LEMMA OffSession == ASSUME NEW sql, NEW on, ~on PROVE Result(sql, on) = Result(sql, FALSE)
<1>1. Seen(on) = Seen(FALSE)
    BY DEF Seen
<1> QED BY <1>1 DEF Result

\* The call in progress, at a step that keeps its request.
LEMMA CallTotalsStay ==
    ASSUME FirstRowsLast, CallTotals, call.at \in {"preflight", "count", "estimate", "page"} \/ call'.at = "idle" \/ call' = call,
           call' = call \/ call'.at = "idle"
           \/ /\ call'.base = call.base /\ call'.request = call.request
              /\ ~(call'.at = "page" /\ call'.settings.count = "exact")
    PROVE  CallTotals'
<1> SUFFICES ASSUME NEW b, NEW sql, NEW on, Asked(b, sql, on)'
             PROVE  /\ Known(b)' /\ Holds(b, sql, on)'
                    /\ call'.at = "page" /\ call'.settings.count = "exact" => call'.total = <<Len(b)>> \/ Gone(b)'
    BY DEF CallTotals
<1>1. Asked(b, sql, on) /\ call.at # "run"
    BY DEF Asked
<1>2. /\ Known(b) /\ Holds(b, sql, on)
      /\ call.at = "page" /\ call.settings.count = "exact" => call.total = <<Len(b)>> \/ Gone(b)
    BY <1>1 DEF CallTotals
<1>3. Known(b)' /\ Holds(b, sql, on)' /\ (Gone(b) => Gone(b)')
    BY <1>1, <1>2 DEF FirstRowsLast
<1> QED BY <1>2, <1>3 DEF Asked

\* A call starts from what its query has at that moment.
LEMMA CallTotalsBegin ==
    ASSUME FlowInv, StageInv, TableInv, FirstRowsLast, call.at = "idle", server.up,
           NEW r \in client.requests, NEW cursor, NEW follows, Call(r, cursor, follows)
    PROVE  CallTotals'
<1> DEFINE s == Settings(r, server)
<1>1. CASE RefusedAtOnce(r, cursor)
    BY <1>1 DEF Call, Error, Answer, Idle, CallTotals, Asked
<1>2. CASE ~RefusedAtOnce(r, cursor)
  <2>1. call' = [at |-> FirstStage(r, s), request |-> r, cursor |-> cursor, settings |-> s,
                 follows |-> follows, total |-> <<>>, base |-> Result(r.sql, r.session), steady |-> TRUE]
      BY <1>2 DEF Call
  <2>2. SettingsKnown(r, s)
      BY SettingsAre DEF FlowInv, ServerInv, StageInv, ServerFits, CallFits
  <2>3. ~(FirstStage(r, s) = "page" /\ s.count = "exact")
      BY <2>2, BodyIs DEF FirstStage
  <2> HIDE DEF s
  <2>4. call'.at = FirstStage(r, s) /\ call'.settings = s /\ call'.request = r /\ call'.base = Result(r.sql, r.session)
      BY <2>1
  <2> SUFFICES ASSUME NEW b, NEW sql, NEW on, Asked(b, sql, on)' PROVE Known(b)' /\ Holds(b, sql, on)'
      BY <2>3, <2>4 DEF CallTotals
  <2>5. sql = r.sql /\ on = r.session /\ b = Result(r.sql, r.session)
      BY <2>4 DEF Asked
  <2>6. b = Result(sql, on)
      BY <2>5
  <2>7. Known(b) /\ Holds(b, sql, on)
      BY <2>6, ResultHolds DEF Holds
  <2> QED BY <2>7 DEF FirstRowsLast
<1> QED BY <1>1, <1>2

\* The count is that of the rows that the query had, unless they have changed for good.
LEMMA CallIsCounted ==
    ASSUME StageInv, FirstRowsLast, CallTotals, call.at = "count", Counted(Len(Result(call.request.sql, OnSession)))
    PROVE  CallTotals'
<1> DEFINE all == Result(call.request.sql, OnSession)
<1>1. call' = [call EXCEPT !.at = "page", !.total = <<Len(all)>>, !.steady = Steady]
    BY DEF Counted
<1>2. DOMAIN call = {"at", "request", "cursor", "settings", "follows", "total", "base", "steady"}
    BY DEF StageInv, ServerFits, CallFits
<1> HIDE DEF all
<1>3. call'.request = call.request /\ call'.base = call.base /\ call'.total = <<Len(all)>>
    BY <1>1, <1>2
<1> SUFFICES ASSUME NEW b, NEW sql, NEW on, Asked(b, sql, on)'
             PROVE  Known(b)' /\ Holds(b, sql, on)' /\ (call'.total = <<Len(b)>> \/ Gone(b)')
    BY DEF CallTotals
<1>4. Asked(b, sql, on) /\ sql = call.request.sql /\ on = OnSession
    BY <1>3 DEF Asked, OnSession
<1>5. Known(b) /\ Holds(b, sql, on)
    BY <1>4 DEF CallTotals
<1>6. all = Result(sql, on)
    BY <1>4 DEF all
<1>7. call'.total = <<Len(b)>> \/ Gone(b)
    BY <1>3, <1>5, <1>6 DEF Holds
<1> QED BY <1>5, <1>7 DEF FirstRowsLast

\* The last answer.
LEMMA ReplyTotalsStay ==
    ASSUME FirstRowsLast, ReplyTotals, reply' = reply \/ ~reply'.ok \/ reply'.kind # "page"
    PROVE  ReplyTotals'
<1> SUFFICES ASSUME NEW b, reply'.ok, reply'.kind = "page", b = reply'.base
             PROVE  Known(b)' /\ (reply'.mode = "count_exact" => reply'.total = <<Len(b)>> \/ Gone(b)')
    BY DEF ReplyTotals
<1>1. reply' = reply
    OBVIOUS
<1>2. Known(b) /\ (reply.mode = "count_exact" => reply.total = <<Len(b)>> \/ Gone(b))
    BY <1>1 DEF ReplyTotals
<1> QED BY <1>1, <1>2 DEF FirstRowsLast

\* The answer hands the count on.
LEMMA ReplyIsHonest ==
    ASSUME StageInv, FirstRowsLast, CallTotals, call.at = "page", NEW granted \in BOOLEAN, PageAnswer(granted)
    PROVE  ReplyTotals'
<1> DEFINE count == IF call.settings.count = "async" /\ ~granted THEN "none" ELSE call.settings.count
<1>1. /\ reply'.base = call.base /\ reply'.total = call.total /\ reply'.mode = ModeOf(count)
    BY DEF PageAnswer, Answer
<1>2. count \in {"none", "exact", "estimated", "async"} /\ (count = "exact" => call.settings.count = "exact")
    BY DEF StageInv, ServerFits, CallFits, SettingsKnown
<1> HIDE DEF count
<1>3. reply'.mode = "count_exact" => call.settings.count = "exact"
    BY <1>1, <1>2, ModeNames
<1> SUFFICES ASSUME NEW b, b = reply'.base
             PROVE  Known(b)' /\ (reply'.mode = "count_exact" => reply'.total = <<Len(b)>> \/ Gone(b)')
    BY DEF ReplyTotals
<1>4. PICK sql, on : sql = call.request.sql /\ on = call.request.session
    OBVIOUS
<1>5. Asked(b, sql, on)
    BY <1>1, <1>4 DEF Asked
<1>6. Known(b) /\ (call.settings.count = "exact" => call.total = <<Len(b)>> \/ Gone(b))
    BY <1>5 DEF CallTotals
<1> QED BY <1>1, <1>3, <1>6 DEF FirstRowsLast

\* The pages that the client follows.
LEMMA PagingTotalsStay ==
    ASSUME FirstRowsLast, PagingTotals, JobsOnce,
           paging' = paging
           \/ /\ paging.state # "none"
              /\ paging'.base = paging.base /\ paging'.request = paging.request
              /\ paging'.counted = paging.counted /\ paging'.jobs = paging.jobs
    PROVE  PagingTotals' /\ JobsOnce'
<1>1. JobsOnce'
    BY DEF JobsOnce
<1>2. PagingTotals'
  <2> SUFFICES ASSUME NEW b, NEW sql, Followed(b, sql)'
               PROVE  /\ Known(b)'
                      /\ ~paging'.request.session =>
                            /\ Holds(b, sql, FALSE)'
                            /\ paging'.counted # <<>> => paging'.counted[1] \in {Len(b), -1} \/ Gone(b)'
      BY DEF PagingTotals
  <2>1. Followed(b, sql)
      BY DEF Followed
  <2>2. /\ Known(b)
        /\ ~paging.request.session =>
              /\ Holds(b, sql, FALSE)
              /\ paging.counted # <<>> => paging.counted[1] \in {Len(b), -1} \/ Gone(b)
      BY <2>1 DEF PagingTotals
  <2> QED BY <2>2 DEF FirstRowsLast
<1> QED BY <1>1, <1>2

\* So does the count job.
LEMMA JobIsHonest ==
    ASSUME FirstRowsLast, TableInv, PagesInv, PagingTotals, JobsOnce, CountJob
    PROVE  PagingTotals' /\ JobsOnce'
<1>1. PICK total : /\ paging' = [paging EXCEPT !.counted = Append(paging.counted, total)]
                   /\ total = -1 \/ total = Len(Result(paging.request.sql, FALSE))
    BY DEF CountJob
<1>2. paging.state # "none"
    BY DEF CountJob
<1>3. DOMAIN paging = {"state", "request", "seen", "cursor", "jobs", "base", "counted", "steady"}
    BY <1>2 DEF PagesInv, PagingPages
<1>4. /\ paging'.state = paging.state /\ paging'.base = paging.base /\ paging'.request = paging.request
      /\ paging'.jobs = paging.jobs /\ paging'.counted = Append(paging.counted, total)
    BY <1>1, <1>3
<1>5. PICK counted \in Seq(Int), n \in Int : counted = paging.counted /\ n = total
  <2>1. paging.counted \in Seq(Int)
      BY <1>2 DEF JobsOnce
  <2>2. total \in Int
    <3>1. CASE total = Len(Result(paging.request.sql, FALSE))
      <4>1. Result(paging.request.sql, FALSE) \in Seq(Seen(FALSE))
          BY ResultLists DEF TableInv
      <4> QED BY <3>1, <4>1
    <3>2. CASE total = -1
        BY <3>2
    <3> QED BY <1>1, <3>1, <3>2
  <2> QED BY <2>1, <2>2
<1>6. /\ Append(counted, n) \in Seq(Int)
      /\ Append(counted, n)[1] = IF counted = <<>> THEN n ELSE counted[1]
    BY <1>5
<1>7. JobsOnce'
    BY <1>2, <1>4, <1>5, <1>6 DEF JobsOnce
<1>8. PagingTotals'
  <2> SUFFICES ASSUME NEW b, NEW sql, Followed(b, sql)'
               PROVE  /\ Known(b)'
                      /\ ~paging'.request.session =>
                            /\ Holds(b, sql, FALSE)'
                            /\ paging'.counted # <<>> => paging'.counted[1] \in {Len(b), -1} \/ Gone(b)'
      BY DEF PagingTotals
  <2>1. Followed(b, sql) /\ sql = paging.request.sql
      BY <1>4 DEF Followed
  <2>2. /\ Known(b)
        /\ ~paging.request.session =>
              /\ Holds(b, sql, FALSE)
              /\ paging.counted # <<>> => paging.counted[1] \in {Len(b), -1} \/ Gone(b)
      BY <2>1 DEF PagingTotals
  <2>3. /\ Known(b)' /\ (Gone(b) => Gone(b)')
        /\ Holds(b, sql, FALSE) => Holds(b, sql, FALSE)'
      BY <2>2 DEF FirstRowsLast
  <2>4. ASSUME ~paging.request.session PROVE paging'.counted[1] \in {Len(b), -1} \/ Gone(b)
    <3>1. n \in {Len(b), -1} \/ Gone(b)
        BY <1>1, <1>5, <2>1, <2>2, <2>4 DEF Holds
    <3>2. paging'.counted[1] = IF paging.counted = <<>> THEN n ELSE paging.counted[1]
        BY <1>4, <1>5, <1>6
    <3> QED BY <2>2, <2>4, <3>1, <3>2
  <2> QED BY <1>4, <2>2, <2>3, <2>4
<1> QED BY <1>7, <1>8

\* A page starts what is followed from the call's rows, and a job with the first page only.
LEMMA PageIsHonest ==
    ASSUME FlowInv, StageInv, TableInv, PagesInv, FirstRowsLast, CallTotals, PagingTotals, JobsOnce, call.at = "page",
           NEW granted \in BOOLEAN, granted => WantsJob, PageAnswer(granted)
    PROVE  PagingTotals' /\ JobsOnce'
<1>1. PICK page \in Seq(Nat), jobs \in {0, 1}, all \in Seq(Nat) : \E next :
              /\ all = Result(call.request.sql, OnSession)
              /\ \A i, j \in 1..Len(all) : all[i] = all[j] => i = j
              /\ Takes(page, all, Offset)
              /\ GoesOn(next, Offset + Len(page), Len(all), Exact, Head(call.total))
              /\ jobs = 1 => Offset = 0
              /\ Pages(page, IF next # <<>> THEN Cursor(call.request, Head(next)) ELSE <<>>, jobs)
    BY PageGives
<1>2. PICK cursor : Pages(page, cursor, jobs) /\ (jobs = 1 => Offset = 0)
    BY <1>1
<1>3. CASE call.follows
  <2>1. paging.state = "open" /\ Len(paging.seen) > 0 /\ paging.seen \in Seq(Nat)
      BY <1>3 DEF PagesInv, CallPages, PagingPages
  <2>2. Offset # 0
      BY <1>3, <2>1, OffsetIs
  <2>3. jobs = 0
      BY <1>2, <2>2
  <2>4. DOMAIN paging = {"state", "request", "seen", "cursor", "jobs", "base", "counted", "steady"}
      BY <2>1 DEF PagesInv, PagingPages
  <2>5. paging' = [paging EXCEPT !.seen = @ \o page, !.cursor = cursor, !.jobs = @ + jobs,
                                 !.steady = @ /\ call.steady /\ Steady,
                                 !.state = IF cursor = <<>> THEN "done" ELSE "open"]
      BY <1>2, <1>3 DEF Pages
  <2>6. /\ paging'.base = paging.base /\ paging'.request = paging.request /\ paging'.counted = paging.counted
        /\ paging'.jobs = paging.jobs + jobs
      BY <2>4, <2>5
  <2>7. paging'.jobs = paging.jobs
      BY <2>1, <2>3, <2>6 DEF JobsOnce
  <2> QED BY <2>1, <2>6, <2>7, PagingTotalsStay
<1>4. CASE ~call.follows
  <2>1. paging' = [state |-> IF cursor = <<>> THEN "done" ELSE "open", request |-> call.request,
                   seen |-> page, cursor |-> cursor, jobs |-> jobs, base |-> call.base, counted |-> <<>>,
                   steady |-> call.steady /\ Steady]
      BY <1>2, <1>4 DEF Pages
  <2>2. paging'.request = call.request /\ paging'.jobs = jobs /\ paging'.base = call.base /\ paging'.counted = <<>>
      BY <2>1
  <2>3. JobsOnce'
      BY <2>2 DEF JobsOnce
  <2>4. PagingTotals'
    <3> SUFFICES ASSUME NEW b, NEW sql, Followed(b, sql)'
                 PROVE  Known(b)' /\ (~call.request.session => Holds(b, sql, FALSE)')
        BY <2>2 DEF PagingTotals
    <3>1. PICK on : on = call.request.session
        OBVIOUS
    <3>2. Asked(b, sql, on)
        BY <2>2, <3>1 DEF Asked, Followed
    <3>3. Known(b) /\ Holds(b, sql, on)
        BY <3>2 DEF CallTotals
    <3>4. ~on => Holds(b, sql, FALSE)
        BY <3>3, OffSession DEF Holds
    <3> QED BY <3>1, <3>3, <3>4 DEF FirstRowsLast
  <2> QED BY <2>3, <2>4
<1> QED BY <1>3, <1>4

\* Every step keeps the totals honest.
LEMMA TotalsStep ==
    ASSUME FlowInv, StageInv, TableInv, PagesInv, TotalsInv, [Next]_vars
    PROVE  TotalsInv'
<1> USE DEF TotalsInv
<1>1. FirstRowsLast
    BY RowsLast
<1>2. call.at # "idle" =>
        DOMAIN call = {"at", "request", "cursor", "settings", "follows", "total", "base", "steady"}
    BY DEF StageInv, ServerFits, CallFits
<1>3. paging.state # "none" =>
        DOMAIN paging = {"state", "request", "seen", "cursor", "jobs", "base", "counted", "steady"}
    BY DEF PagesInv, PagingPages
<1>4. ASSUME NEW follows, follows => paging.state # "none", PagingFails(follows)
      PROVE  PagingTotals' /\ JobsOnce'
  <2>1. paging' = paging \/ (follows /\ paging' = [paging EXCEPT !.state = "failed"])
      BY <1>4 DEF PagingFails
  <2>2. paging' = paging \/ (/\ paging.state # "none" /\ paging'.base = paging.base
                             /\ paging'.request = paging.request /\ paging'.counted = paging.counted
                             /\ paging'.jobs = paging.jobs)
      BY <1>3, <1>4, <2>1
  <2> QED BY <1>1, <2>2, PagingTotalsStay
<1>5. ASSUME call.at # "idle", Fails PROVE TotalsInv'
  <2>1. call'.at = "idle" /\ ~reply'.ok /\ PagingFails(call.follows)
      BY <1>5 DEF Fails, Error, Answer, Idle
  <2>2. call.follows => paging.state # "none"
      BY <1>5 DEF FlowInv, CallInv
  <2> QED BY <1>1, <1>4, <2>1, <2>2, CallTotalsStay, ReplyTotalsStay
<1>6. ASSUME paging' = paging, reply' = reply, CallTotals' PROVE TotalsInv'
    BY <1>1, <1>6, ReplyTotalsStay, PagingTotalsStay
<1>7. ASSUME call.at \in {"preflight", "count", "estimate", "page"}, NEW stage, To(stage),
             stage = "page" => call.settings.count # "exact"
      PROVE  TotalsInv'
  <2>1. call' = [call EXCEPT !.at = stage] /\ paging' = paging /\ reply' = reply
      BY <1>7 DEF To, clientVars
  <2>2. /\ call'.at = stage /\ call'.base = call.base /\ call'.request = call.request
        /\ call'.settings = call.settings
      BY <1>2, <1>7, <2>1
  <2> QED BY <1>1, <1>6, <1>7, <2>1, <2>2, CallTotalsStay
<1>8. ASSUME server.up, call.at = "idle", NEW r \in client.requests, NEW cursor, NEW follows \in BOOLEAN,
             follows => paging.state # "none", Call(r, cursor, follows)
      PROVE  TotalsInv'
  <2>1. CallTotals'
      BY <1>1, <1>8, CallTotalsBegin
  <2>2. (~reply'.ok /\ PagingFails(follows)) \/ (reply' = reply /\ paging' = paging)
      BY <1>8 DEF Call, Error, Answer
  <2>3. ASSUME ~reply'.ok, PagingFails(follows) PROVE TotalsInv'
      BY <1>1, <1>4, <1>8, <2>1, <2>3, ReplyTotalsStay
  <2> QED BY <1>6, <2>1, <2>2, <2>3
<1>9. CASE Ask
  <2>1. call.at = "idle" /\ server.up
      BY <1>9 DEF Ask, Idle
  <2>2. PICK r \in client.requests : Call(r, <<>>, FALSE)
      BY <1>9 DEF Ask
  <2> QED BY <1>8, <2>1, <2>2
<1>10. CASE Follow \/ Detour
  <2>1. call = Idle /\ paging.state = "open"
      BY <1>10 DEF Follow, Detour
  <2>2. call.at = "idle"
      BY <2>1 DEF Idle
  <2>3. server.up /\ paging.request \in client.requests
      BY <2>1 DEF FlowInv, ServerInv, PagingInv, NoPaging
  <2>4. PICK r \in client.requests : Call(r, paging.cursor, TRUE)
      BY <1>10, <2>3 DEF Follow, Detour
  <2> QED BY <1>8, <2>1, <2>3, <2>4, <2>2
<1>11. CASE Describe
  <2>1. call.at = "describe" /\ ((Answer([ok |-> TRUE, kind |-> "columns"]) /\ paging' = paging) \/ Fails)
      BY <1>11 DEF Describe, Statement
  <2>2. ASSUME Answer([ok |-> TRUE, kind |-> "columns"]), paging' = paging PROVE TotalsInv'
    <3>1. call'.at = "idle" /\ reply'.kind # "page"
        BY <2>2 DEF Answer, Idle
    <3> QED BY <1>1, <2>2, <3>1, CallTotalsStay, ReplyTotalsStay, PagingTotalsStay
  <2> QED BY <1>5, <2>1, <2>2
<1>12. CASE Preflight
  <2>1. call.at = "preflight" /\ (To(Body(call.request, call.settings)) \/ Fails)
      BY <1>12 DEF Preflight, Statement, ToBody
  <2>2. SettingsKnown(call.request, call.settings)
      BY <2>1 DEF StageInv, ServerFits, CallFits
  <2> QED BY <1>5, <1>7, <2>1, <2>2, BodyIs
<1>13. CASE Count
  <2>1. call.at = "count" /\ (Counted(Len(Result(call.request.sql, OnSession))) \/ Fails)
      BY <1>13 DEF Count, Statement
  <2>2. ASSUME Counted(Len(Result(call.request.sql, OnSession))) PROVE TotalsInv'
    <3>1. paging' = paging /\ reply' = reply
        BY <2>2 DEF Counted, clientVars
    <3> QED BY <1>1, <1>6, <2>1, <2>2, <3>1, CallIsCounted
  <2> QED BY <1>5, <2>1, <2>2
<1>14. CASE Estimate
  <2> DEFINE Without == call' = [call EXCEPT !.at = "page", !.settings.count = "none"] /\ UNCHANGED clientVars
  <2>1. call.at = "estimate" /\ (To("page") \/ Without)
      BY <1>14 DEF Estimate, Statement
  <2>2. call.settings.count = "estimated" /\ "count" \in DOMAIN call.settings
      BY <2>1 DEF StageInv, ServerFits, CallFits, SettingsKnown
  <2>3. ASSUME Without PROVE TotalsInv'
    <3>1. /\ paging' = paging /\ reply' = reply /\ call'.base = call.base /\ call'.request = call.request
          /\ call'.settings.count = "none"
        BY <1>2, <2>1, <2>2, <2>3 DEF clientVars
    <3> QED BY <1>1, <1>6, <2>1, <3>1, CallTotalsStay
  <2> QED BY <1>7, <2>1, <2>2, <2>3
<1>15. CASE Page
  <2>1. /\ call.at = "page"
        /\ (\E granted \in (IF WantsJob THEN BOOLEAN ELSE {FALSE}) : PageAnswer(granted)) \/ Fails
      BY <1>15 DEF Page, Statement
  <2>2. ASSUME NEW granted \in (IF WantsJob THEN BOOLEAN ELSE {FALSE}), PageAnswer(granted) PROVE TotalsInv'
    <3>1. granted \in BOOLEAN /\ (granted => WantsJob)
        OBVIOUS
    <3>2. PagingTotals' /\ JobsOnce'
        BY <1>1, <2>1, <2>2, <3>1, PageIsHonest
    <3>3. ReplyTotals'
        BY <1>1, <2>1, <2>2, <3>1, ReplyIsHonest
    <3>4. call'.at = "idle"
        BY <2>2 DEF PageAnswer, Answer, Idle
    <3> QED BY <1>1, <3>2, <3>3, <3>4, CallTotalsStay
  <2> QED BY <1>5, <2>1, <2>2
<1>16. CASE Run
  <2>1. call.at = "run" /\ ((Answer([ok |-> TRUE, kind |-> "run"]) /\ paging' = paging) \/ Fails)
      BY <1>16 DEF Run, Statement
  <2>2. ASSUME Answer([ok |-> TRUE, kind |-> "run"]), paging' = paging PROVE TotalsInv'
    <3>1. call'.at = "idle" /\ reply'.kind # "page"
        BY <2>2 DEF Answer, Idle
    <3> QED BY <1>1, <2>2, <3>1, CallTotalsStay, ReplyTotalsStay, PagingTotalsStay
  <2> QED BY <1>5, <2>1, <2>2
<1>17. CASE CountJob
  <2>1. call' = call /\ reply' = reply
      BY <1>17 DEF CountJob
  <2> QED BY <1>1, <1>17, <2>1, CallTotalsStay, ReplyTotalsStay, JobIsHonest
<1>18. CASE CursorExpires
  <2>1. PICK cursor : paging' = [paging EXCEPT !.cursor = cursor]
      BY <1>18 DEF CursorExpires
  <2>2. call' = call /\ reply' = reply /\ paging.state = "open"
      BY <1>18 DEF CursorExpires
  <2>3. /\ paging'.base = paging.base /\ paging'.request = paging.request
        /\ paging'.counted = paging.counted /\ paging'.jobs = paging.jobs
      BY <1>3, <2>1, <2>2
  <2> QED BY <1>1, <2>2, <2>3, CallTotalsStay, ReplyTotalsStay, PagingTotalsStay
<1>19. CASE Start \/ OpenSession \/ SessionEnds \/ OthersWrite \/ OrphanEnds \/ UNCHANGED vars
  <2>1. call' = call /\ reply' = reply /\ paging' = paging
      BY <1>19 DEF Start, OpenSession, SessionEnds, OthersWrite, OrphanEnds, vars
  <2> QED BY <1>1, <1>6, <2>1, CallTotalsStay
<1> QED BY <1>9, <1>10, <1>11, <1>12, <1>13, <1>14, <1>15, <1>16, <1>17, <1>18, <1>19 DEF Next, Handle

\* What was counted is what the query had, where it still has it.
LEMMA TotalsSay == ASSUME TableInv, TotalsInv PROVE TotalsAreHonest
<1>1. ASSUME reply.ok, reply.kind = "page", reply.mode = "count_exact",
             Result(reply.request.sql, reply.request.session) = reply.base
      PROVE  reply.total = <<Len(reply.base)>>
  <2>1. PICK b, sql, on : b = reply.base /\ sql = reply.request.sql /\ on = reply.request.session
      OBVIOUS
  <2>2. b = Result(sql, on)
      BY <1>1, <2>1
  <2>3. ~Gone(b)
      BY <2>2, ResultHolds
  <2>4. reply.total = <<Len(b)>> \/ Gone(b)
      BY <1>1, <2>1 DEF TotalsInv, ReplyTotals
  <2> QED BY <2>1, <2>3, <2>4
<1>2. ASSUME paging.state # "none", paging.counted # <<>>, ~paging.request.session,
             Result(paging.request.sql, FALSE) = paging.base
      PROVE  paging.counted[1] \in {Len(paging.base), -1}
  <2>1. PICK b, sql : b = paging.base /\ sql = paging.request.sql
      OBVIOUS
  <2>2. b = Result(sql, FALSE)
      BY <1>2, <2>1
  <2>3. ~Gone(b)
      BY <2>2, ResultHolds
  <2>4. paging.counted[1] \in {Len(b), -1} \/ Gone(b)
      BY <1>2, <2>1 DEF TotalsInv, PagingTotals, Followed
  <2> QED BY <2>1, <2>3, <2>4
<1>3. paging.state # "none" => paging.jobs <= 1
    BY DEF TotalsInv, JobsOnce
<1> QED BY <1>1, <1>2, <1>3 DEF TotalsAreHonest

-----------------------------------------------------------------------------
(* The theorems                                                            *)

\* What holds of every state of the calls, the table and the client's pages.
QueryInv == FlowInv /\ StageInv /\ TableInv /\ AckedInv /\ AnswersInv /\ PagesInv /\ TotalsInv

\* Nothing has been asked at first, and every row is there.
LEMMA QueryInit == Init => QueryInv
<1> SUFFICES ASSUME Init PROVE QueryInv
    OBVIOUS
<1>1. FlowInv
    BY FlowInit
<1>2. ~server.up /\ call.at = "idle" /\ reply.ok = FALSE /\ paging.state = "none"
    BY DEF Init, Idle, NoPaging
<1>3. StageInv
    BY <1>2 DEF StageInv, ServerFits, CallFits
<1>4. TableInv
  <2> DEFINE table == [i \in 1..Base |-> "there"]
  <2>1. table \in [1..Base -> {"there", "open", "gone"}]
      OBVIOUS
  <2>2. \A i \in 1..Base : table[i] = "there"
      OBVIOUS
  <2> HIDE DEF table
  <2>3. table \in Seq({"there", "open", "gone"}) /\ Len(table) = Base /\ DOMAIN table = 1..Base
      BY <2>1, BaseKnown, ListOf
  <2>4. rows = table /\ session = "none"
      BY DEF Init, table
  <2> QED BY <2>2, <2>3, <2>4, BaseKnown DEF TableInv
<1>5. AckedInv
    BY DEF Init, AckedInv
<1>6. AnswersInv
    BY <1>2 DEF AnswersInv, AnswersKeepWhatMatters
<1>7. PagesInv
    BY <1>2 DEF PagesInv, PagingPages, CallPages
<1>8. TotalsInv
    BY <1>2 DEF TotalsInv, CallTotals, ReplyTotals, PagingTotals, JobsOnce, Asked, Followed
<1> QED BY <1>1, <1>3, <1>4, <1>5, <1>6, <1>7, <1>8 DEF QueryInv

\* Every step keeps all of it.
LEMMA QueryStep == QueryInv /\ [Next]_vars => QueryInv'
<1> SUFFICES ASSUME QueryInv, [Next]_vars PROVE QueryInv'
    OBVIOUS
<1> USE DEF QueryInv
<1> QED BY FlowStep, StageStep, TableStep, AckedStep, AnswersStep, PagesStep, TotalsStep

\* The invariant that the theorems below are read from.
THEOREM QueryInvariant == Spec => []QueryInv
    BY QueryInit, QueryStep, PTL DEF Spec

\* A row whose insertion was answered outside a transaction, or whose COMMIT was answered, is
\* there: whatever else is sent on the session, and whether the calls after it are answered,
\* fail, are given up or lose their connection.
THEOREM AnsweredWritesStay == Spec => []AnsweredWritesLast
<1>1. QueryInv => AnsweredWritesLast
    BY DEF QueryInv, AckedInv, AnsweredWritesLast
<1> QED BY QueryInvariant, <1>1, PTL

\* Whatever output mode, verbosity and count mode a request asks for, its answer keeps the
\* cursor, the count job, the total and the degraded server's capabilities.
THEOREM AnswersTell == Spec => []AnswersKeepWhatMatters
<1>1. QueryInv => AnswersKeepWhatMatters
    BY DEF QueryInv, AnswersInv
<1> QED BY QueryInvariant, <1>1, PTL

\* Pages followed to the last are all the rows that were asked for, once and in order, for
\* every table, page size, profile and count mode, with calls of others in between.
THEOREM PagesAreComplete == Spec => []PagingLosesNothing
<1>1. QueryInv => PagingLosesNothing
    BY PagesSay DEF QueryInv
<1> QED BY QueryInvariant, <1>1, PTL

\* Exact totals and the totals of count jobs are those of the rows that were asked for, and
\* the pages of one query start one job at most.
THEOREM TotalsHold == Spec => []TotalsAreHonest
<1>1. QueryInv => TotalsAreHonest
    BY TotalsSay DEF QueryInv
<1> QED BY QueryInvariant, <1>1, PTL
=============================================================================

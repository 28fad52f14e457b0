------------------------------ MODULE Startup ------------------------------
(* From a command line and an environment to a server that serves:         *)
(* Settings::from_cli of src/config.rs, run of src/main.rs without its     *)
(* lease (StartupLease models that), and src/startup_dependencies.rs.      *)
(*                                                                         *)
(* A value that may be left out is <<>> or <<value>>. Times are seconds.   *)
EXTENDS Integers, Sequences, FiniteSets

CONSTANT Bad   \* a value that does not parse

Or(option, default) == IF option = <<>> THEN default ELSE Head(option)
Least(a, b) == IF a < b THEN a ELSE b
Most(a, b) == IF a > b THEN a ELSE b

\* No timeout at all, longer than any.
Never == 1000000

\* Command line first, then environment, then the default: timeouts, the cursor's time to
\* live, the probe's mode, schema lists, the advisor.
CliFirst(cli, env, default) == Or(cli \o env, default)

\* Environment first: role, metadata policy, response mode and output, page size.
EnvFirst(cli, env) == Or(env, cli)

\* parse_env_bool: a flag of the command line cannot be taken back.
Flag(cli, env) == IF cli THEN TRUE ELSE Or(env, FALSE)

\* resolve_timeout_ms.
Timeout(cli, env, default) ==
    LET value == CliFirst(cli, env, default) IN IF value = 0 THEN Never ELSE value

\* resolve_positive_u64, resolve_bounded_usize: whether a value is refused.
NotPositive(value) == value \in {Bad, 0}
OutOfBounds(value, least, most) == IF value = Bad THEN TRUE ELSE value \notin least..most

\* The external advisor's command must be there and absolute, unless the flag allows others.
AdvisorRefused(e) ==
    LET command == CliFirst(e.cli.command, e.env.command, "none")
    IN  \/ OutOfBounds(CliFirst(e.cli.attempts, e.env.attempts, 3), 1, 10)
        \/ Flag(e.cli.advisor, e.env.advisor) = Bad
        \/ /\ Flag(e.cli.advisor, e.env.advisor) = TRUE
           /\ \/ command = "none"
              \/ command = "relative" /\ Flag(e.cli.relative, e.env.relative) # TRUE

\* StartupDependencyConfig::from_env: the migrator checks unless told not to.
DependencyMode(e) ==
    Or(e.env.dependencies, IF EnvFirst(e.cli.role, e.env.role) = "migrator" THEN "fail" ELSE "off")

\* Any value that does not parse, and any out of its range, refuses the start.
Refused(e) ==
    \/ Bad \in {EnvFirst(e.cli.pageSize, e.env.pageSize), Timeout(e.cli.request, e.env.request, 300),
                Timeout(e.cli.statement, e.env.statement, 10)}
    \/ Bad \in {EnvFirst(e.cli.role, e.env.role), DependencyMode(e)}
    \/ Flag(e.cli.admin, e.env.admin) = Bad
    \/ NotPositive(CliFirst(e.cli.cursorTtl, e.env.cursorTtl, 900))
    \/ AdvisorRefused(e)

\* validate_startup_dependencies: what the missing relations make of the start.
Dependencies(e, missing) ==
    LET absent == e.required \cap missing
    IN  CASE DependencyMode(e) = "off" \/ absent = {} -> "healthy"
          [] DependencyMode(e) = "fail" /\ absent # {} -> "failed"
          [] DependencyMode(e) = "degrade-read-only" /\ absent # {} -> "degraded"

\* run_startup_db_connect: only fail-fast lets an unreachable database end the start; the
\* background default goes on before it knows. Under a lease background means warn.
ProbeFails(e, reachable) ==
    CliFirst(e.cli.dbConnect, e.env.dbConnect, "background") = "fail-fast" /\ ~reachable

\* A dependency check that cannot ask the database fails the start as well.
Serves(e, reachable, missing) ==
    /\ ~Refused(e) /\ e.cli.oneShot = "none" /\ ~ProbeFails(e, reachable)
    /\ DependencyMode(e) # "off" /\ e.required # {} => reachable
    /\ Dependencies(e, missing) # "failed"

\* What the handlers read of it.
ServerOf(e, missing) ==
    [up |-> TRUE,
     access |-> e.cli.access,
     role |-> EnvFirst(e.cli.role, e.env.role),
     admin |-> Flag(e.cli.admin, e.env.admin),
     degraded |-> Dependencies(e, missing) = "degraded",
     pageSize |-> Most(EnvFirst(e.cli.pageSize, e.env.pageSize), 1),
     output |-> EnvFirst(e.cli.output, e.env.output),
     request |-> Timeout(e.cli.request, e.env.request, 300),
     statement |-> Timeout(e.cli.statement, e.env.statement, 10)]
=============================================================================

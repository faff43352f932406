------------------------------ MODULE Migration ------------------------------
(***************************************************************************)
(* The schema of the database and its upgrade at startup: migrateTo in     *)
(* migrate.go, called by Init in db.go before anything is served.  The     *)
(* statements run one by one outside a transaction, and the version is     *)
(* written once, at the end; the process may die between any two.          *)
(***************************************************************************)
EXTENDS Integers, Sequences

Create(thing) == [op |-> "create", on |-> thing]  \* IF NOT EXISTS
Add(thing) == [op |-> "add", on |-> thing]
Drop(thing) == [op |-> "drop", on |-> thing]
Update(what) == [op |-> "update", on |-> what]

(* Mutant: the column is dropped before its values are taken over.         *)
LocationStepsSwapped ==
    <<Add("hooks.ssh_host_id"), Drop("scripts.ssh_host_id"), Update("location"),
      Add("executions.exec_target")>>

LocationSteps ==
    <<Add("hooks.ssh_host_id"), Update("location"), Drop("scripts.ssh_host_id"),
      Add("executions.exec_target")>>

(* Steps[v] upgrades the schema from version v - 1 to version v.           *)
Steps ==
    << <<Create("hooks"), Create("executions"), Create("idx_executions_hook_id"),
         Create("idx_executions_started_at")>>,
       <<Add("hooks.trigger_token")>>,
       <<Create("scripts")>>,
       <<Create("ssh_hosts")>>,
       <<Add("hooks.script_id")>>,
       <<Add("scripts.ssh_host_id")>>,
       LocationSteps,
       <<Add("ssh_hosts.target_os")>>,
       <<Create("execution_logs"), Create("idx_execution_logs_exec_seq")>>,
       <<Add("hooks.async"), Add("hooks.timeout_seconds")>>,
       <<Create("settings")>>,
       <<Update("auth")>>,
       <<Add("hooks.success_hook_id"), Add("hooks.success_body"),
         Add("executions.parent_execution_id"), Add("executions.chain_path"),
         Add("executions.success_hook_id"), Add("executions.success_body"),
         Add("executions.success_status"), Add("executions.success_error"),
         Add("executions.success_execution_id"), Add("executions.success_attempt"),
         Add("idx_executions_parent")>> >>

SchemaVersion == Len(Steps)

VARIABLES
    phase,        \* "down", "migrate", "serve"
    version,      \* PRAGMA user_version
    schema,       \* the tables, columns and indexes there are
    at, step,     \* the version being left and the next statement of its upgrade
    scriptHost,   \* scripts.ssh_host_id of the script a hook runs, if there is one
    hookHost,     \* hooks.ssh_host_id of that hook
    auth,         \* what the hook asks of a trigger: none, hmac, token, both
    home,         \* history: where the hook ran before the upgrade
    interrupted   \* history: an upgrade was cut short

dataVars == <<scriptHost, hookHost, auth>>
migrationVars == <<phase, version, schema, at, step, dataVars, home, interrupted>>

-----------------------------------------------------------------------------
(* What a release of some version left behind.                             *)
Things(op, v) ==
    UNION {{Steps[u][i].on : i \in {j \in DOMAIN Steps[u] : Steps[u][j].op = op}} : u \in 1..v}

SchemaOf(v) ==
    (Things("create", v) \cup Things("add", v)) \ Things("drop", v)

MigrationInit ==
    /\ phase = "down" /\ version \in 0..SchemaVersion /\ schema = SchemaOf(version)
    /\ at = 0 /\ step = 0 /\ interrupted = FALSE
    /\ home \in IF version < 6 THEN {"local"} ELSE {"local", "host"}
    /\ scriptHost = IF version = 6 THEN home ELSE "local"
    /\ hookHost = IF version >= 7 THEN home ELSE "local"
    /\ auth \in {"none", "hmac", "token", "both"}
    /\ version >= 12 => auth # "both"
    /\ version < 2 => auth \in {"none", "hmac"}

-----------------------------------------------------------------------------
Boot ==
    /\ phase = "down"
    /\ phase' = IF version >= SchemaVersion THEN "serve" ELSE "migrate"
    /\ at' = version /\ step' = 1
    /\ UNCHANGED <<version, schema, dataVars, home, interrupted>>

Statement == Steps[at + 1][step]

(* A column or an index that is there cannot be added, one that is not     *)
(* there cannot be dropped or read.                                        *)
Refused ==
    \/ Statement.op = "add" /\ Statement.on \in schema
    \/ Statement.op = "drop" /\ Statement.on \notin schema
    \/ Statement = Update("location") /\ "scripts.ssh_host_id" \notin schema

Migrating == phase = "migrate" /\ at < SchemaVersion

Advance ==
    IF step < Len(Steps[at + 1]) THEN at' = at /\ step' = step + 1
                                 ELSE at' = at + 1 /\ step' = 1

Execute ==
    /\ Migrating /\ ~Refused
    /\ Advance
    /\ schema' = CASE Statement.op = "drop" -> schema \ {Statement.on}
                   [] Statement.op = "update" -> schema
                   [] OTHER -> schema \cup {Statement.on}
    /\ hookHost' = IF Statement = Update("location") THEN scriptHost ELSE hookHost
    /\ auth' = IF Statement = Update("auth") /\ auth = "both" THEN "hmac" ELSE auth
    /\ UNCHANGED <<phase, version, scriptHost, home, interrupted>>

(* log.Fatal: on a statement the schema refuses, or that fails anyway.     *)
Fatal ==
    /\ phase = "migrate" /\ phase' = "down"
    /\ interrupted' = TRUE
    /\ UNCHANGED <<version, schema, at, step, dataVars, home>>

(* Mutant: the version is written before its statements are run.           *)
SetVersionEarly ==
    /\ phase = "migrate" /\ version < SchemaVersion
    /\ version' = SchemaVersion
    /\ phase' = IF Migrating THEN "migrate" ELSE "serve"
    /\ UNCHANGED <<schema, at, step, dataVars, home, interrupted>>

SetVersion ==
    /\ phase = "migrate" /\ ~Migrating
    /\ version' = SchemaVersion /\ phase' = "serve"
    /\ UNCHANGED <<schema, at, step, dataVars, home, interrupted>>

(* The process dies, serving or not.                                       *)
Stop ==
    /\ phase # "down" /\ phase' = "down"
    /\ interrupted' = (interrupted \/ phase = "migrate")
    /\ UNCHANGED <<version, schema, at, step, dataVars, home>>

-----------------------------------------------------------------------------
(* Wherever an upgrade is cut short, and however often it is started anew, *)
(* the host a hook runs on is still in the database, in the hook or in its *)
(* script (migrate.go:92): one that ran on a host is never taken for local.*)
LocationKept ==
    \/ hookHost = home
    \/ scriptHost = home /\ "scripts.ssh_host_id" \in schema

(* What is served is the whole schema of this release and data carried     *)
(* over as it says, never half of an upgrade; and an upgrade refuses to go *)
(* on only where an earlier one was cut short (migrate.go:158).            *)
UpgradeSound ==
    /\ phase = "serve" =>
        /\ version = SchemaVersion /\ schema = SchemaOf(SchemaVersion)
        /\ hookHost = home /\ auth # "both"
    /\ phase = "migrate" /\ Migrating /\ Refused => interrupted
=============================================================================

------------------------------- MODULE Server -------------------------------
(***************************************************************************)
(* The process around them: main.go opens and upgrades the database before *)
(* anything is served; logins and the hosts are served side by side, and   *)
(* what the process kept in memory is gone with it: lockouts, rate windows *)
(* and connections, with a key that was learned and not yet written.       *)
(***************************************************************************)
EXTENDS Migration, Login, HostKeys

VARIABLE follow  \* bound: the one part whose steps a behaviour follows

vars == <<migrationVars, loginVars, hostVars, follow>>

(* bound: what is served starts from a database of this release, and all   *)
(* servers show one key at first.                                          *)
Init ==
    /\ MigrationInit /\ LoginInit /\ HostInit
    /\ follow \in {"upgrade", "logins", "hosts"}
    /\ follow # "upgrade" => version = SchemaVersion /\ home = "local" /\ auth = "none"
    /\ follow # "hosts" => host.key = NoKey
    /\ host.addr = Idle.addr /\ server = [a \in Addr |-> CHOOSE k \in Key : TRUE]

-----------------------------------------------------------------------------
Upgrade ==
    /\ Boot \/ Execute \/ Fatal \/ SetVersion
    /\ UNCHANGED <<loginVars, hostVars, follow>>

ServeLogins ==
    /\ phase = "serve" /\ follow = "logins"
    /\ LoginStep
    /\ UNCHANGED <<migrationVars, hostVars, follow>>

ServeHosts ==
    /\ phase = "serve" /\ follow = "hosts"
    /\ HostStep
    /\ UNCHANGED <<migrationVars, loginVars, follow>>

Crash == Stop /\ Forget /\ Disconnected /\ UNCHANGED follow

(* Outside the process: servers are installed anew.                        *)
Outside ==
    /\ follow = "hosts" /\ (\E a \in Addr, k \in Key : Reinstall(a, k))
    /\ UNCHANGED <<migrationVars, loginVars, follow>>

Next == Upgrade \/ ServeLogins \/ ServeHosts \/ Crash \/ Outside

Spec == Init /\ [][Next]_vars
=============================================================================

------------------------------ MODULE HostKeys ------------------------------
(***************************************************************************)
(* The key an SSH host is known by: the row of one host in ssh_hosts, the  *)
(* connections that are opened to it (DialSSH in ssh.go, runRemote in      *)
(* scriptexec.go, SSHHostHandler.Test in sshhost.go) and the operators who *)
(* save and delete it.  A host without a key trusts the first one it is    *)
(* shown, and whoever was shown it writes it to the row.                   *)
(***************************************************************************)
EXTENDS Integers

CONSTANTS
    Addr, Key,      \* where a server may be, and the keys servers show
    NoKey,          \* the empty host_key
    Conn,           \* connections
    MaxEdits,       \* bound: times the row is saved
    MaxReinstalls,  \* bound: times a server changes its key
    MaxTests        \* bound: tests of values that are in a form

ASSUME KeyAssumption ==
    /\ NoKey \notin Key
    /\ MaxEdits \in Nat /\ MaxReinstalls \in Nat /\ MaxTests \in Nat

VARIABLES
    host,     \* the row: whether it is there, its address and its key
    server,   \* the key the server at each address shows
    conn,     \* each connection: its next step and what it was opened with
    edits, reinstalls, tests,
    pinned,   \* history: the key an operator saved last
    shown,    \* history: the keys each address has shown on a first use
    crossed   \* history: a key was learned for other values than the row's

rowVars == <<host, edits, pinned>>
hostVars == <<rowVars, server, conn, reinstalls, tests, shown, crossed>>

Idle == [pc |-> "idle", test |-> FALSE, addr |-> CHOOSE a \in Addr : TRUE, key |-> NoKey,
         learned |-> NoKey]

HostInit ==
    /\ host \in [present : {TRUE}, addr : Addr, key : Key \cup {NoKey}]
    /\ pinned = host.key /\ server \in [Addr -> Key]
    /\ conn = [c \in Conn |-> Idle]
    /\ edits = 0 /\ reinstalls = 0 /\ tests = 0
    /\ shown = [a \in Addr |-> {}] /\ crossed = FALSE

-----------------------------------------------------------------------------
(* Under way with nothing pinned, its key not yet written.                 *)
Learning(c) == conn[c].pc \in {"loaded", "dialed"} /\ conn[c].key = NoKey

(* SSHHostHandler.Update: every column of the form, the key included.      *)
SaveHost(a, k) ==
    /\ edits < MaxEdits /\ edits' = edits + 1
    /\ host.present
    /\ host' = [host EXCEPT !.addr = a, !.key = k] /\ pinned' = k
    /\ crossed' = \E c \in Conn : Learning(c)
    /\ UNCHANGED <<server, conn, reinstalls, tests, shown>>

(* The row is gone for good: an id is not given out again.                 *)
DeleteHost ==
    /\ host.present /\ host' = [host EXCEPT !.present = FALSE]
    /\ UNCHANGED <<edits, pinned, server, conn, reinstalls, tests, shown, crossed>>

(* runRemote: the row as it is now; without one there is no connection.    *)
Load(c) ==
    /\ conn[c].pc = "idle" /\ host.present
    /\ conn' = [conn EXCEPT ![c] = [Idle EXCEPT !.pc = "loaded", !.addr = host.addr,
                                                !.key = host.key]]
    /\ UNCHANGED <<rowVars, server, reinstalls, tests, shown, crossed>>

(* Test: the values of the form, with the id of the row they belong to.    *)
TestForm(c, a, k) ==
    /\ tests < MaxTests /\ tests' = tests + 1
    /\ conn[c].pc = "idle"
    /\ conn' = [conn EXCEPT ![c] = [Idle EXCEPT !.pc = "loaded", !.test = TRUE, !.addr = a,
                                                !.key = k]]
    /\ crossed' = (crossed \/ (k = NoKey /\ (host.key # NoKey \/ host.addr # a)))
    /\ UNCHANGED <<rowVars, server, reinstalls, shown>>

(* Mutant: the pin is not compared with the key the server shows.          *)
DialTrusting(c) ==
    /\ conn[c].pc = "loaded"
    /\ conn' = [conn EXCEPT ![c].pc = "dialed", ![c].learned = server[conn[c].addr]]
    /\ shown' = shown
    /\ UNCHANGED <<rowVars, server, reinstalls, tests, crossed>>

(* DialSSH: a pinned key must be the one shown; without one, what is shown *)
(* is learned.                                                             *)
Dial(c) ==
    LET a == conn[c].addr
    IN  /\ conn[c].pc = "loaded"
        /\ \/ /\ conn[c].key = server[a]
              /\ conn' = [conn EXCEPT ![c].pc = "dialed"] /\ UNCHANGED shown
           \/ /\ conn[c].key = NoKey
              /\ conn' = [conn EXCEPT ![c].pc = "dialed", ![c].learned = server[a]]
              /\ shown' = [shown EXCEPT ![a] = @ \cup {server[a]}]
        /\ UNCHANGED <<rowVars, server, reinstalls, tests, crossed>>

(* Another key is shown, or the network, the handshake or the login fail;  *)
(* or the command of a test does.                                          *)
DialFails(c) ==
    /\ conn[c].pc \in {"loaded", "dialed"} /\ (conn[c].pc = "dialed" => conn[c].test)
    /\ conn' = [conn EXCEPT ![c] = Idle]
    /\ UNCHANGED <<rowVars, server, reinstalls, tests, shown, crossed>>

(* persistLearnedHostKey, by id alone; a statement that fails is logged.   *)
Persist(c) ==
    /\ conn[c].pc = "dialed"
    /\ conn' = [conn EXCEPT ![c] = IF conn[c].test THEN Idle ELSE [@ EXCEPT !.pc = "connected"]]
    /\ \/ UNCHANGED host
       \/ /\ conn[c].learned # NoKey /\ host.present
          /\ host' = [host EXCEPT !.key = conn[c].learned]
    /\ UNCHANGED <<edits, pinned, server, reinstalls, tests, shown, crossed>>

Disconnect(c) ==
    /\ conn[c].pc = "connected" /\ conn' = [conn EXCEPT ![c] = Idle]
    /\ UNCHANGED <<rowVars, server, reinstalls, tests, shown, crossed>>

(* The process ends, and every connection with it.                         *)
Disconnected ==
    /\ conn' = [c \in Conn |-> Idle]
    /\ UNCHANGED <<rowVars, server, reinstalls, tests, shown, crossed>>

(* A server is installed anew.                                             *)
Reinstall(a, k) ==
    /\ reinstalls < MaxReinstalls /\ reinstalls' = reinstalls + 1
    /\ k # server[a] /\ server' = [server EXCEPT ![a] = k]
    /\ UNCHANGED <<rowVars, conn, tests, shown, crossed>>

HostStep ==
    \/ \E a \in Addr, k \in Key \cup {NoKey} : SaveHost(a, k)
    \/ DeleteHost
    \/ \E c \in Conn :
          \/ Load(c) \/ Dial(c) \/ DialFails(c) \/ Persist(c) \/ Disconnect(c)
          \/ \E a \in Addr, k \in Key \cup {NoKey} : TestForm(c, a, k)

-----------------------------------------------------------------------------
(* A key an operator pinned stays until an operator saves another, and a   *)
(* key that was learned is one the server at the saved address did show    *)
(* (ssh.go:27) -- unless a connection that began with nothing pinned was   *)
(* under way while the row was saved (scriptexec.go:72), or a form with    *)
(* other values than the row's was tested under its id (sshhost.go:208).   *)
PinsAreOwn ==
    ~crossed /\ host.present =>
        host.key \in IF pinned = NoKey THEN {NoKey} \cup shown[host.addr] ELSE {pinned}
=============================================================================

----------------------------- MODULE References -----------------------------
(***************************************************************************)
(* The hooks table with the scripts and SSH hosts that hooks refer to:     *)
(* HookHandler, ScriptHandler.Delete and SSHHostHandler.Delete.  A save of *)
(* a hook is checked and written in one transaction but for its host; a    *)
(* delete of a host or a script looks at hooks in one statement and        *)
(* deletes in the next.  Any request may come between the two.             *)
(***************************************************************************)
EXTENDS HookConfig

CONSTANTS
    Host,     \* ids of SSH hosts, generated and never used again
    Script,   \* ids of scripts, which a client may choose
    None,     \* the empty reference
    Req       \* requests, each one save or one delete

ASSUME ReferencesAssumption == Host \cap Script = {} /\ None \notin Host \cup Script

VARIABLES
    refs,     \* hook -> what it refers to; an absent hook refers to nothing
    things,   \* the scripts and hosts in their tables
    created,  \* the hosts that were ever created
    req,      \* request -> its next step
    crossed   \* history: hosts and scripts whose delete crossed a save of a hook

vars == <<configVars, refs, things, created, req, crossed>>

Target == [host : Host \cup {None}, script : Script \cup {None}]
NoTarget == [host |-> None, script |-> None]
Named(target) == {target.host, target.script} \ {None}
Idle == [at |-> "idle"]

Init ==
    /\ ConfigInit
    /\ refs = [h \in Hook |-> NoTarget]
    /\ things = {} /\ created = {} /\ crossed = {}
    /\ req = [r \in Req |-> Idle]

-----------------------------------------------------------------------------
CreateHost(x) ==
    /\ x \in Host \ created
    /\ created' = created \cup {x} /\ things' = things \cup {x}
    /\ UNCHANGED <<configVars, refs, req, crossed>>

CreateScript(x) ==
    /\ x \in Script \ things /\ things' = things \cup {x}
    /\ UNCHANGED <<configVars, refs, created, req, crossed>>

(* Mutant: the host a hook is to run on is not looked up.                  *)
HostExistsUnchecked(target) == TRUE

HostExists(target) == target.host \in things \cup {None}

(* HookHandler.Create and Update look the host up before they begin their  *)
(* transaction; the script is never looked up.                             *)
CheckHook(r, h, target) ==
    /\ req[r] = Idle /\ HostExists(target)
    /\ req' = [req EXCEPT ![r] = [at |-> "commit", hook |-> h, target |-> target]]
    /\ UNCHANGED <<configVars, refs, things, created, crossed>>

Deleting == {req[r].thing : r \in {q \in Req : req[q].at = "delete"}}
Saving == UNION {Named(req[r].target) : r \in {q \in Req : req[q].at = "commit"}}

(* The transaction, which inserts or updates the whole row.                *)
CommitHook(r, a, t) ==
    LET h == req[r].hook
        target == req[r].target
    IN  /\ req[r].at = "commit"
        /\ CreateHook(h, a, t) \/ UpdateHook(h, a, t)
        /\ refs' = [refs EXCEPT ![h] = target]
        /\ req' = [req EXCEPT ![r] = Idle]
        /\ crossed' = crossed \cup (Named(target) \cap Deleting)
        /\ UNCHANGED <<things, created>>

(* An id in use or unknown, a successor that is refused, or an error.      *)
RollBack(r) ==
    /\ req[r].at = "commit"
    /\ req' = [req EXCEPT ![r] = Idle]
    /\ UNCHANGED <<configVars, refs, things, created, crossed>>

RemoveHook(h) ==
    /\ DeleteHook(h)
    /\ refs' = [refs EXCEPT ![h] = NoTarget]
    /\ UNCHANGED <<things, created, req, crossed>>

Users(x) == {h \in Hook : x \in Named(refs[h])}

(* Mutant: hooks are asked for their hosts only.                           *)
CheckUsersHosts(r, x) ==
    /\ req[r] = Idle
    /\ x \in Host => Users(x) = {}
    /\ req' = [req EXCEPT ![r] = [at |-> "delete", thing |-> x]]
    /\ UNCHANGED <<configVars, refs, things, created, crossed>>

(* The first statement of a delete; with a user it is answered 409.        *)
CheckUsers(r, x) ==
    /\ req[r] = Idle /\ Users(x) = {}
    /\ req' = [req EXCEPT ![r] = [at |-> "delete", thing |-> x]]
    /\ UNCHANGED <<configVars, refs, things, created, crossed>>

(* The second.                                                             *)
DeleteThing(r) ==
    /\ req[r].at = "delete"
    /\ things' = things \ {req[r].thing}
    /\ crossed' = crossed \cup ({req[r].thing} \cap Saving)
    /\ req' = [req EXCEPT ![r] = Idle]
    /\ UNCHANGED <<configVars, refs, created>>

Next ==
    \/ \E x \in Host : CreateHost(x)
    \/ \E x \in Script : CreateScript(x)
    \/ \E h \in Hook : RemoveHook(h)
    \/ \E r \in Req :
         \/ \E h \in Hook, target \in Target : CheckHook(r, h, target)
         \/ \E a \in AsyncChoices, t \in Hook \cup {NoHook} : CommitHook(r, a, t)
         \/ RollBack(r)
         \/ \E x \in things : CheckUsers(r, x)
         \/ DeleteThing(r)

Spec == Init /\ [][Next]_vars

-----------------------------------------------------------------------------
(* A hook that names a host that is gone was saved while that host was     *)
(* being deleted, both having looked before either wrote: no other order   *)
(* of saves, edits and deletes leaves a hook without its host.             *)
LostHostWasCrossed ==
    \A h \in Hook : refs[h].host \in things \cup {None} \cup crossed

(* Deleting takes nothing away from a hook, unless it crossed a save.      *)
DeleteTakesNothing ==
    [][\A x \in things \ things' : Users(x) = {} \/ x \in crossed']_vars

(* What the README says (354, 392): deleting a script or a host that a     *)
(* hook refers to is answered 409.                                         *)
ReferencedIsKept == [][\A x \in things \ things' : Users(x) = {}]_vars
=============================================================================

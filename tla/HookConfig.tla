----------------------------- MODULE HookConfig -----------------------------
(***************************************************************************)
(* The hooks table and the handlers that edit it                           *)
(* (internal/handlers/hook.go, validateSuccessTarget in success_chain.go). *)
(*                                                                         *)
(* A hook may name another hook to be triggered when it succeeds           *)
(* (success_hook_id).  Every create, update and delete is one transaction  *)
(* on the only connection to SQLite, so each is one action here.  A row    *)
(* keeps the two columns that steer control flow: async, which picks how   *)
(* the hook is triggered, and succ, its success_hook_id.                   *)
(***************************************************************************)
EXTENDS Ids

CONSTANTS
    InitialHooks,  \* the tables the process may start with
    AsyncChoices,  \* bound: the values of async an edit may choose from
    MaxEdits       \* bound: successful edits of the table

VARIABLES
    hooks,  \* hook id -> its row
    edits   \* number of edits so far, bounded by MaxEdits

configVars == <<hooks, edits>>

HookRow == [present : BOOLEAN, async : BOOLEAN, succ : Hook \cup {NoHook}]

Absent == [present |-> FALSE, async |-> FALSE, succ |-> NoHook]

(* Every set of hooks has one whose successor lies outside it.             *)
Acyclic(table) ==
    \A S \in SUBSET Hook : S # {} => \E h \in S : table[h].succ \notin S

Closed(table) ==
    \A h \in Hook :
        table[h].succ # NoHook => table[h].present /\ table[table[h].succ].present

ASSUME EditsAssumption == MaxEdits \in Nat /\ AsyncChoices \subseteq BOOLEAN
(* A table was left by earlier requests to these same handlers.            *)
ASSUME InitialAssumption ==
    \A table \in InitialHooks :
        table \in [Hook -> HookRow] /\ Acyclic(table) /\ Closed(table)

ConfigTypeOK ==
    /\ hooks \in [Hook -> HookRow]
    /\ edits \in Nat

(* A walk along success_hook_id as validateSuccessTarget makes it: it      *)
(* starts at the proposed target, follows the stored column, meets only    *)
(* hooks that exist, none of them twice and never the hook being saved,    *)
(* and ends at a hook with no successor.                                   *)
IsWalk(w, h, t) ==
    /\ w[1] = t
    /\ \A i \in 1..Len(w) : w[i] # h /\ hooks[w[i]].present
    /\ \A i \in 1..Len(w) - 1 : hooks[w[i]].succ = w[i + 1]
    /\ \A i, j \in 1..Len(w) : w[i] = w[j] => i = j
    /\ hooks[w[Len(w)]].succ = NoHook

(* Mutant: only the hook itself is refused, longer rings pass.             *)
ValidTargetDirect(h, t) == t # NoHook => t # h /\ hooks[t].present

ValidTarget(h, t) ==
    \/ t = NoHook
    \/ \E n \in 1..Cardinality(Hook) : \E w \in [1..n -> Hook] : IsWalk(w, h, t)

Referenced(h) == \E g \in Hook : hooks[g].present /\ hooks[g].succ = h

-----------------------------------------------------------------------------
ConfigInit ==
    /\ hooks \in InitialHooks
    /\ edits = 0

Edit == edits < MaxEdits /\ edits' = edits + 1

(* POST /api/hooks.  The primary key refuses an id already in use.         *)
CreateHook(h, a, t) ==
    /\ Edit
    /\ ~hooks[h].present
    /\ ValidTarget(h, t)
    /\ hooks' = [hooks EXCEPT ![h] = [present |-> TRUE, async |-> a, succ |-> t]]

(* PUT /api/hooks/:id rewrites the whole row; an unknown id is a 404.      *)
UpdateHook(h, a, t) ==
    /\ Edit
    /\ hooks[h].present
    /\ ValidTarget(h, t)
    /\ hooks' = [hooks EXCEPT ![h] = [present |-> TRUE, async |-> a, succ |-> t]]

(* Mutant: references are not looked up.                                   *)
DeleteUnchecked(h) ==
    /\ Edit
    /\ hooks[h].present
    /\ hooks' = [hooks EXCEPT ![h] = Absent]

(* DELETE /api/hooks/:id is refused while another hook hands off to it.    *)
DeleteHook(h) ==
    /\ Edit
    /\ hooks[h].present
    /\ ~Referenced(h)
    /\ hooks' = [hooks EXCEPT ![h] = Absent]

ConfigNext ==
    \E h \in Hook :
        \/ \E a \in AsyncChoices, t \in Hook \cup {NoHook} :
               CreateHook(h, a, t) \/ UpdateHook(h, a, t)
        \/ DeleteHook(h)

ConfigSpec == ConfigInit /\ [][ConfigNext]_configVars

-----------------------------------------------------------------------------
(* Two requests, one saving A -> B and one saving B -> A, or a longer ring *)
(* closed by edits that each look harmless, never leave a configuration in *)
(* which a hook can come back to itself (comment at success_chain.go:143). *)
SuccessGraphAcyclic == Acyclic(hooks)

(* No edit leaves a hook handing off to one that was deleted or never      *)
(* existed: Delete checks references in the transaction that deletes.      *)
NoDanglingTarget == Closed(hooks)
=============================================================================

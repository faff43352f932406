--------------------------- MODULE ExecutionTable ---------------------------
(***************************************************************************)
(* The executions table, one operator per SQL statement that writes it     *)
(* (webhook.go, success_chain.go, execution.go).  SQLite is used through   *)
(* a single connection, so a statement, or a transaction of several, is    *)
(* one atomic step.  Columns no other step reads (output, error, source,   *)
(* times) are left out; chain_path is the set of hooks it lists, since the *)
(* code only asks whether a hook is in it.                                 *)
(***************************************************************************)
EXTENDS Ids

VARIABLES
    rows,   \* execution id -> row
    nextId  \* the id AUTOINCREMENT hands out next

tableVars == <<rows, nextId>>

Live == {"queued", "running"}
EndedBadly == {"failed", "canceled", "interrupted"}
Finished == {"success"} \cup EndedBadly

Row == [hook : Hook \cup {NoHook},
        status : {"absent"} \cup Live \cup Finished,
        parent : {0} \cup ExecId,             \* parent_execution_id
        path : SUBSET Hook,                   \* chain_path
        target : Hook \cup {NoHook},          \* success_hook_id
        handoff : {"none", "pending", "dispatched", "failed", "interrupted"},
                                              \* success_status
        child : {0} \cup ExecId,              \* success_execution_id
        attempt : Nat]                        \* success_attempt

NoRow == [hook |-> NoHook, status |-> "absent", parent |-> 0, path |-> {},
          target |-> NoHook, handoff |-> "none", child |-> 0, attempt |-> 0]

NewRow(h, status, parent, path, target) ==
    [NoRow EXCEPT !.hook = h, !.status = status, !.parent = parent,
                  !.path = path, !.target = target]

TableTypeOK ==
    /\ rows \in [ExecId -> Row]
    /\ nextId \in 1..MaxExec + 1

TableInit ==
    /\ rows = [e \in ExecId |-> NoRow]
    /\ nextId = 1

-----------------------------------------------------------------------------
HasRoom == nextId <= MaxExec

Insert(row) ==
    /\ HasRoom
    /\ rows' = [rows EXCEPT ![nextId] = row]
    /\ nextId' = nextId + 1

SetStatus(e, status) ==
    /\ rows' = [rows EXCEPT ![e].status = status]
    /\ UNCHANGED nextId

(* markRunning and logExecutionEnd update whatever row they find.          *)
MarkRunning(e) == SetStatus(e, "running")
LogEnd(e, status) == SetStatus(e, status)

(* finishHookExecution: the result and the pending handoff in one          *)
(* statement, on a row that is still live.                                 *)
FinishedRow(row, status) ==
    IF row.status \in Live
    THEN IF status = "success" /\ row.target # NoHook
         THEN [row EXCEPT !.status = status, !.handoff = "pending", !.attempt = 1]
         ELSE [row EXCEPT !.status = status, !.handoff = "none", !.attempt = 0]
    ELSE row

FinishRow(e, status) ==
    /\ rows' = [rows EXCEPT ![e] = FinishedRow(@, status)]
    /\ UNCHANGED nextId

(* dispatchPendingSuccess acts only on a successful row still pending.     *)
Pending(e) == rows[e].status = "success" /\ rows[e].handoff = "pending"

(* Mutant: chain_path holds the new hook only.                             *)
(* Mutant: success_execution_id is not updated on a retry.                 *)
InsertSuccessorOldChild(p, target) ==
    /\ HasRoom
    /\ LET h == rows[p].target
       IN  rows' = [rows EXCEPT
               ![nextId] = NewRow(h, "queued", p, rows[p].path \cup {h}, target),
               ![p].handoff = "dispatched",
               ![p].child = IF @ = 0 THEN nextId ELSE @]
    /\ nextId' = nextId + 1

InsertSuccessorShortPath(p, target) ==
    /\ HasRoom
    /\ LET h == rows[p].target
       IN  rows' = [rows EXCEPT
               ![nextId] = NewRow(h, "queued", p, {h}, target),
               ![p].handoff = "dispatched",
               ![p].child = nextId]
    /\ nextId' = nextId + 1

(* The child row and the parent's "dispatched" commit together.            *)
InsertSuccessor(p, target) ==
    /\ HasRoom
    /\ LET h == rows[p].target
       IN  rows' = [rows EXCEPT
               ![nextId] = NewRow(h, "queued", p, rows[p].path \cup {h}, target),
               ![p].handoff = "dispatched",
               ![p].child = nextId]
    /\ nextId' = nextId + 1

FailHandoff(p) ==
    /\ rows' = [rows EXCEPT ![p].handoff = IF @ = "pending" THEN "failed" ELSE @]
    /\ UNCHANGED nextId

(* Mutant: a handoff still under way may be claimed.                       *)
RetryablePending(p) ==
    /\ rows[p].status = "success"
    /\ rows[p].target # NoHook
    /\ rows[p].handoff \in {"pending", "failed", "interrupted"}

(* Mutant: how the successor fared is not looked at.                       *)
RetryableDispatched(p) ==
    /\ rows[p].status = "success"
    /\ rows[p].target # NoHook
    /\ rows[p].handoff \in {"dispatched", "failed", "interrupted"}

(* claimSuccessRetry: which rows may be handed off once more.              *)
Retryable(p) ==
    /\ rows[p].status = "success"
    /\ rows[p].target # NoHook
    /\ \/ rows[p].handoff \in {"failed", "interrupted"}
       \/ rows[p].handoff = "dispatched" /\ rows[rows[p].child].status \in EndedBadly

Claim(p) ==
    /\ rows' = [rows EXCEPT ![p].handoff = "pending", ![p].attempt = @ + 1]
    /\ UNCHANGED nextId

(* Mutant: queued rows are forgotten.                                      *)
SweptRowRunning(row) ==
    [row EXCEPT !.handoff = IF @ = "pending" THEN "interrupted" ELSE @,
                !.status = IF @ = "running" THEN "interrupted" ELSE @]

(* Mutant: everything but a success is interrupted.                        *)
SweptRowUnsuccessful(row) ==
    [row EXCEPT !.handoff = IF @ = "pending" THEN "interrupted" ELSE @,
                !.status = IF @ \notin {"absent", "success"} THEN "interrupted" ELSE @]

(* SweepInterruptedExecutions, one transaction at startup.                 *)
SweptRow(row) ==
    [row EXCEPT !.handoff = IF @ = "pending" THEN "interrupted" ELSE @,
                !.status = IF @ \in Live THEN "interrupted" ELSE @]

Sweep ==
    /\ rows' = [e \in ExecId |-> SweptRow(rows[e])]
    /\ UNCHANGED nextId
=============================================================================

---------------------------- MODULE MCExecutions ----------------------------
(* Instances of Executions: model values for hooks and requests, and the   *)
(* tables of hooks the runs start from.                                    *)
EXTENDS ExecutionProperties, TLC

CONSTANTS hA, hB, hC, r1, r2

Two == {hA, hB}
Three == {hA, hB, hC}
OneReq == {r1}
TwoReq == {r1, r2}
ReqSymmetry == Permutations(TwoReq)

Hands(isAsync, target) == [present |-> TRUE, async |-> isAsync, succ |-> target]

(* hA -> hB, both asynchronous, or hA synchronous.                         *)
AsyncPair == {hA :> Hands(TRUE, hB) @@ hB :> Hands(TRUE, NoHook)}
SyncPair == {hA :> Hands(FALSE, hB) @@ hB :> Hands(TRUE, NoHook)}

(* hA -> hB, and hC on its own, all asynchronous.                          *)
AsyncThree == {hA :> Hands(TRUE, hB) @@ hB :> Hands(TRUE, NoHook) @@ hC :> Hands(TRUE, NoHook)}

Busy == {r \in Req : thread[r] # Idle}

(* Bound: after a restart one request at a time is under way.              *)
RestartedAlone == crashes = 0 \/ Cardinality(Busy) <= 1

(* Bound: hooks are edited and writes fail in the behaviours in which      *)
(* every command succeeds, no handoff is retried and one request at a time *)
(* is under way, and not both in one behaviour.                            *)
EditsAndFaultsAlone ==
    \/ edits = 0 /\ faults = 0
    \/ /\ edits = 0 \/ faults = 0
       /\ \A e \in ExecId : rows[e].status \notin EndedBadly /\ rows[e].attempt <= 1
       /\ canceled = {}
       /\ Cardinality(Busy) <= 1
=============================================================================

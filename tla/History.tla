------------------------------ MODULE History ------------------------------
(***************************************************************************)
(* The execution history: rows that are handed off, retried and swept as   *)
(* in ExecutionTable while CleanupOldExecutions deletes old ones and their *)
(* logs.  What Executions says about who may take a step, and when, is     *)
(* left out: any statement may run on any row that meets its conditions.   *)
(***************************************************************************)
EXTENDS ExecutionTable

CONSTANTS
    Successor,   \* hook -> its success_hook_id, as a graph without cycles
    Entry,       \* bound: the hooks triggered from outside
    Logging,     \* bound: the executions that write a log
    NoSweep,     \* no cutoff has been taken
    Days,        \* the retention windows an operator may choose
    MaxTime,     \* bound: days the clock advances
    MaxAttempt   \* bound: how often a handoff is attempted

ASSUME HistoryAssumption ==
    /\ Successor \in [Hook -> Hook \cup {NoHook}]
    /\ Days \subseteq Nat \ {0}
    /\ Entry \subseteq Hook /\ Logging \subseteq ExecId /\ MaxTime \in Nat /\ MaxAttempt \in Nat

VARIABLES
    now,      \* the wall clock, in days
    started,  \* execution id -> started_at
    logged,   \* the executions with rows in execution_logs
    cutoff    \* the cutoff a sweep is about to use, or NoSweep

historyVars == <<tableVars, now, started, logged, cutoff>>

Recorded == {e \in ExecId : rows[e].status # "absent"}
Outcome == {"success", "failed"}

Init ==
    /\ TableInit
    /\ now = 0 /\ started = [e \in ExecId |-> 0]
    /\ logged = {} /\ cutoff = NoSweep

-----------------------------------------------------------------------------
(* The statements of ExecutionTable, with the clock and the logs.          *)
StampNew == started' = [started EXCEPT ![nextId] = now]

Trigger(h) ==
    /\ Insert(NewRow(h, "running", 0, {h}, Successor[h]))
    /\ StampNew
    /\ UNCHANGED <<now, logged, cutoff>>

OnRow(e, operation) ==
    /\ e \in Recorded /\ operation
    /\ UNCHANGED <<now, started, logged, cutoff>>

Begin(e) == rows[e].status = "queued" /\ OnRow(e, MarkRunning(e))
Finish(e, status) == rows[e].status \in Live /\ OnRow(e, FinishRow(e, status))
Refuse(p) == Pending(p) /\ OnRow(p, FailHandoff(p))
Retry(p) == rows[p].attempt < MaxAttempt /\ Retryable(p) /\ OnRow(p, Claim(p))

Dispatch(p) ==
    /\ Pending(p) /\ rows[p].target \notin rows[p].path
    /\ InsertSuccessor(p, Successor[rows[p].target])
    /\ StampNew
    /\ UNCHANGED <<now, logged, cutoff>>

(* Output of a run, or the line that says why a queued one never ran.      *)
Log(e) ==
    /\ e \in Logging /\ rows[e].status \in Live
    /\ logged' = logged \cup {e}
    /\ UNCHANGED <<tableVars, now, started, cutoff>>

(* A new process: what the last one left unfinished is interrupted, and a  *)
(* sweep it had begun is forgotten.                                        *)
RestartSweep ==
    /\ Sweep
    /\ cutoff' = NoSweep
    /\ UNCHANGED <<now, started, logged>>

Tick ==
    /\ now < MaxTime
    /\ now' = now + 1
    /\ UNCHANGED <<tableVars, started, logged, cutoff>>

-----------------------------------------------------------------------------
(* A pass takes its cutoff first and runs the transaction later.           *)
StartPass(d) ==
    /\ cutoff = NoSweep
    /\ cutoff' = now - d
    /\ UNCHANGED <<tableVars, now, started, logged>>

(* Mutant: a handoff under way does not hold the row.                      *)
KeptOnItsOwnFinished(e) ==
    e \in Recorded /\ (rows[e].status \in Live \/ started[e] >= cutoff)

KeptOnItsOwn(e) ==
    /\ e \in Recorded
    /\ \/ rows[e].status \in Live
       \/ started[e] >= cutoff
       \/ rows[e].handoff = "pending"

(* Mutant: only the parent of a kept execution is kept.                    *)
RetainedParents ==
    LET kept == {e \in ExecId : KeptOnItsOwn(e)}
    IN  kept \cup ({rows[e].parent : e \in kept} \ {0})

(* The recursive query: the least set that holds every row kept on its own *)
(* and the parent of every row it holds.                                   *)
Retained ==
    LET Base == {e \in ExecId : KeptOnItsOwn(e)}
        Closed == {S \in SUBSET ExecId :
                      Base \subseteq S /\ \A e \in S : rows[e].parent \in S \cup {0}}
    IN  {e \in ExecId : \A S \in Closed : e \in S}

(* Both DELETEs of CleanupOldExecutions, in one transaction.               *)
Cleanup ==
    /\ cutoff # NoSweep /\ cutoff' = NoSweep
    /\ LET kept == Retained
       IN  /\ logged' = logged \ (Recorded \ kept)
           /\ rows' = [e \in ExecId |-> IF e \in kept THEN rows[e] ELSE NoRow]
    /\ UNCHANGED <<nextId, now, started>>

-----------------------------------------------------------------------------
Next ==
    \/ \E h \in Entry : Trigger(h)
    \/ \E e \in ExecId : Begin(e) \/ Dispatch(e) \/ Refuse(e) \/ Retry(e) \/ Log(e)
    \/ \E e \in ExecId, s \in Outcome : Finish(e, s)
    \/ RestartSweep \/ Tick \/ Cleanup
    \/ \E d \in Days : StartPass(d)

Spec == Init /\ [][Next]_historyVars

-----------------------------------------------------------------------------
(* The history never loses the beginning of a chain whose end it keeps     *)
(* (README:405): whoever looks at an execution can follow its parents to   *)
(* the trigger.                                                            *)
AncestorsKept == \A e \in Recorded : rows[e].parent = 0 \/ rows[e].parent \in Recorded

(* A kept execution that was handed off still finds its successor: a       *)
(* retry is judged by the successor's status and refused without it        *)
(* (success_chain.go:217), and the successor always outlives its parent.   *)
SuccessorKept ==
    \A p \in Recorded : rows[p].handoff = "dispatched" => rows[p].child \in Recorded

(* What is kept can be followed both ways, towards the trigger and on.     *)
RelativesKept == AncestorsKept /\ SuccessorKept

(* No log outlives its execution: nothing cascades, foreign keys being     *)
(* off, and no statement writes a log for an execution that is gone.       *)
NoOrphanLogs == logged \subseteq Recorded

(* No pass, however late after its cutoff was taken, deletes work that is  *)
(* not settled: what is queued or runs, what is to be handed off, and the  *)
(* source a retry that is under way will read.                             *)
UnsettledStays ==
    [][\A e \in Recorded : rows[e].status \in Live \/ Pending(e) =>
            rows'[e].status # "absent"]_historyVars
=============================================================================

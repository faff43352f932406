-------------------------- MODULE ExecutionProofs --------------------------
(* What is proved of Executions, for any hooks, requests, capacities and   *)
(* bounds.  Three invariants, each inductive on top of the one before:     *)
(* TypeInv, the types with what a thread has filled in at each pc;         *)
(* SafeInv and its companions, who holds a hook, an execution slot, a      *)
(* place in the wait group; and the life of a row and of its handoff, with *)
(* the refinement of the abstract Handoff.                                 *)
EXTENDS ExecutionProperties, FiniteSetTheorems, TLAPS

-----------------------------------------------------------------------------
(* Part 1. Types.                                                          *)
(* The types alone are not inductive: that a row written by a thread names *)
(* real hooks rests on which fields a thread has filled in at each pc and  *)
(* on a handoff having a target.  Shape says so.                           *)

(* At these pcs a thread has loaded a hook.                                *)
HookPc == {"admit", "insertSync"} \cup OwnPc

(* At these pcs it works on a row that is in the table.                    *)
RowPc == {"launch", "runSync", "finishSync", "dispatch", "recordFailure"}

(* What a thread has filled in when it is at its pc: its local state is l, *)
(* the table of executions is rs and its next id n.                        *)
LocalShape(t, l, rs, n) ==
    /\ l.pc \in HookPc => l.hook \in Hook
    /\ l.pc \in RowPc => l.exec \in ExecId /\ l.exec < n
    /\ l.pc = "launchChild" =>
           l.child \in ExecId /\ l.child < n /\ rs[l.child].hook \in Hook
    /\ l.pc \in {"finish", "finishSync"} => l.result \in Finished
    /\ t \in ExecId /\ l.pc # "idle" =>
           t < n /\ (l.pc # "handoffDone" => l.exec = t)

ThreadShape(t) == LocalShape(t, thread[t], rows, nextId)

RowShape(row) == row.handoff # "none" => row.target \in Hook

Shape ==
    /\ \A t \in Thread : ThreadShape(t)
    /\ \A e \in ExecId : RowShape(rows[e])
    /\ \A e \in ExecId : e >= nextId => rows[e] = NoRow

TypeInv == TypeOK /\ Shape

-----------------------------------------------------------------------------
(* Operations of the runner keep its types.                                *)

LEMMA AdmitType ==
    ASSUME RunnerTypeOK, NEW h \in Hook, Admit(h), UNCHANGED <<slots, registry>>
    PROVE  RunnerTypeOK'
BY DEF RunnerTypeOK, Admit, registry

LEMMA ReleaseType ==
    ASSUME RunnerTypeOK, NEW h \in Hook, Release(h), UNCHANGED <<slots, registry>>
    PROVE  RunnerTypeOK'
BY DEF RunnerTypeOK, Release, registry

LEMMA SlotType ==
    ASSUME RunnerTypeOK, Start \/ Finish \/ UNCHANGED slots, UNCHANGED <<admission, registry>>
    PROVE  RunnerTypeOK'
BY CapacityAssumption DEF RunnerTypeOK, Start, Finish, admission, registry

LEMMA RegistryType ==
    ASSUME RunnerTypeOK, NEW e \in ExecId, Unregister(e) \/ CancelEntry(e),
           UNCHANGED <<admission, slots>>
    PROVE  RunnerTypeOK'
BY DEF RunnerTypeOK, Unregister, CancelEntry, admission

LEMMA LaunchType ==
    ASSUME RunnerTypeOK, NEW h \in Hook, NEW e \in ExecId, SetExecution(h, e), Register(e),
           TrackHandoff, UNCHANGED <<inFlight, slots>>
    PROVE  RunnerTypeOK'
BY DEF RunnerTypeOK, SetExecution, Register, TrackHandoff

LEMMA SameProcessType ==
    ASSUME RunnerTypeOK, UNCHANGED process
    PROVE  RunnerTypeOK'
BY DEF RunnerTypeOK, process

-----------------------------------------------------------------------------
(* Statements on the executions table keep its types, and what Shape says  *)
(* of a row: its hook stays, and a handoff has a target.                   *)

RowsEvolve ==
    \A e \in ExecId : /\ rows'[e].hook = rows[e].hook
                      /\ RowShape(rows[e]) => RowShape(rows'[e])

LEMMA NewRowType ==
    ASSUME NEW h \in Hook, NEW status \in {"absent"} \cup Live \cup Finished,
           NEW parent \in {0} \cup ExecId, NEW path \in SUBSET Hook,
           NEW target \in Hook \cup {NoHook}
    PROVE  /\ NewRow(h, status, parent, path, target) \in Row
           /\ NewRow(h, status, parent, path, target).hook = h
           /\ NewRow(h, status, parent, path, target).handoff = "none"
           /\ NewRow(h, status, parent, path, target).status = status
           /\ NewRow(h, status, parent, path, target).parent = parent
           /\ NewRow(h, status, parent, path, target).target = target
BY DEF NewRow, NoRow, Row

LEMMA InsertType ==
    ASSUME TableTypeOK, NEW row \in Row, Insert(row)
    PROVE  /\ TableTypeOK' /\ nextId \in ExecId /\ nextId' = nextId + 1
           /\ rows' = [rows EXCEPT ![nextId] = row]
BY ExecAssumption DEF TableTypeOK, Insert, HasRoom, ExecId

LEMMA StatusType ==
    ASSUME TableTypeOK, NEW e \in ExecId, NEW status \in Live \cup Finished,
           SetStatus(e, status)
    PROVE  /\ TableTypeOK' /\ RowsEvolve /\ nextId' = nextId
           /\ \A q \in ExecId \ {e} : rows'[q] = rows[q]
<1>1. rows' = [rows EXCEPT ![e] = [rows[e] EXCEPT !.status = status]] /\ nextId' = nextId
  BY DEF SetStatus
<1>2. rows[e] \in Row /\ [rows[e] EXCEPT !.status = status] \in Row
  BY DEF TableTypeOK, Row
<1> QED
  BY <1>1, <1>2 DEF TableTypeOK, RowsEvolve, RowShape, Row

LEMMA FinishRowType ==
    ASSUME TableTypeOK, NEW e \in ExecId, NEW status \in Finished, FinishRow(e, status)
    PROVE  /\ TableTypeOK' /\ RowsEvolve /\ nextId' = nextId
           /\ \A q \in ExecId \ {e} : rows'[q] = rows[q]
<1>1. rows' = [rows EXCEPT ![e] = FinishedRow(rows[e], status)] /\ nextId' = nextId
  BY DEF FinishRow
<1> DEFINE row == rows[e]
<1>2. row \in Row
  BY DEF TableTypeOK
<1> HIDE DEF row
<1>3. /\ FinishedRow(row, status) \in Row
      /\ FinishedRow(row, status).hook = row.hook
      /\ RowShape(row) => RowShape(FinishedRow(row, status))
  <2>1. CASE row.status \in Live /\ status = "success" /\ row.target # NoHook
    BY <1>2, <2>1 DEF FinishedRow, Row, RowShape, Finished
  <2>2. CASE row.status \in Live /\ ~(status = "success" /\ row.target # NoHook)
    BY <1>2, <2>2 DEF FinishedRow, Row, RowShape, Finished
  <2>3. CASE row.status \notin Live
    BY <1>2, <2>3 DEF FinishedRow
  <2> QED
    BY <2>1, <2>2, <2>3
<1>4. /\ FinishedRow(rows[e], status) \in Row
      /\ FinishedRow(rows[e], status).hook = rows[e].hook
      /\ RowShape(rows[e]) => RowShape(FinishedRow(rows[e], status))
  BY <1>3 DEF row
<1> QED
  BY <1>1, <1>4 DEF TableTypeOK, RowsEvolve

LEMMA FailHandoffType ==
    ASSUME TableTypeOK, NEW p \in ExecId, FailHandoff(p)
    PROVE  /\ TableTypeOK' /\ RowsEvolve /\ nextId' = nextId
           /\ \A q \in ExecId \ {p} : rows'[q] = rows[q]
<1> DEFINE h == IF rows[p].handoff = "pending" THEN "failed" ELSE rows[p].handoff
<1>1. rows' = [rows EXCEPT ![p] = [rows[p] EXCEPT !.handoff = h]] /\ nextId' = nextId
  BY DEF FailHandoff
<1>2. rows[p] \in Row /\ [rows[p] EXCEPT !.handoff = h] \in Row
  BY DEF TableTypeOK, Row
<1>3. h # "none" => rows[p].handoff # "none"
  OBVIOUS
<1> HIDE DEF h
<1> QED
  BY <1>1, <1>2, <1>3 DEF TableTypeOK, RowsEvolve, RowShape, Row

LEMMA ClaimType ==
    ASSUME TableTypeOK, NEW p \in ExecId, Retryable(p), Claim(p)
    PROVE  /\ TableTypeOK' /\ RowsEvolve /\ nextId' = nextId
           /\ \A q \in ExecId \ {p} : rows'[q] = rows[q]
<1> DEFINE row == [rows[p] EXCEPT !.handoff = "pending", !.attempt = rows[p].attempt + 1]
<1>1. rows' = [rows EXCEPT ![p] = row] /\ nextId' = nextId
  BY DEF Claim
<1>2. rows[p] \in Row /\ row \in Row
  <2>1. rows[p] \in Row /\ rows[p].attempt + 1 \in Nat
    BY DEF TableTypeOK, Row
  <2> QED
    BY <2>1 DEF Row
<1>3. row.hook = rows[p].hook /\ row.target \in Hook
  BY <1>2 DEF Row, Retryable
<1> HIDE DEF row
<1> QED
  BY <1>1, <1>2, <1>3 DEF TableTypeOK, RowsEvolve, RowShape

(* The successor is a row of its own: its id is new.                       *)
LEMMA SuccessorType ==
    ASSUME TableTypeOK, NEW p \in ExecId, NEW target \in Hook \cup {NoHook},
           rows[p].target \in Hook, p # nextId, InsertSuccessor(p, target)
    PROVE  /\ TableTypeOK' /\ nextId \in ExecId
           /\ rows'[nextId].hook \in Hook
           /\ nextId' = nextId + 1
           /\ \A e \in ExecId \ {nextId} : rows'[e].hook = rows[e].hook
           /\ \A e \in ExecId \ {nextId, p} : rows'[e] = rows[e]
           /\ \A e \in ExecId : RowShape(rows[e]) => RowShape(rows'[e])
<1> DEFINE new == NewRow(rows[p].target, "queued", p, rows[p].path \cup {rows[p].target}, target)
           old == [rows[p] EXCEPT !.handoff = "dispatched", !.child = nextId]
<1>1. nextId \in ExecId /\ nextId' = nextId + 1 /\ nextId' \in 1..MaxExec + 1
  BY ExecAssumption DEF InsertSuccessor, HasRoom, TableTypeOK, ExecId
<1>2. rows' = [[rows EXCEPT ![nextId] = new] EXCEPT ![p] = old]
  BY <1>1 DEF InsertSuccessor, TableTypeOK
<1>3. rows[p] \in Row /\ rows[p].path \in SUBSET Hook
  BY DEF TableTypeOK, Row
<1>4. new \in Row /\ new.hook \in Hook /\ new.handoff = "none"
  <2>1. rows[p].path \cup {rows[p].target} \in SUBSET Hook
    BY <1>3
  <2>2. "queued" \in {"absent"} \cup Live \cup Finished /\ p \in {0} \cup ExecId
    BY DEF Live
  <2> QED
    BY <2>1, <2>2, NewRowType
<1>5. old \in Row /\ old.hook = rows[p].hook /\ old.target = rows[p].target
  BY <1>1, <1>3 DEF Row
<1> HIDE DEF new, old
<1>6. /\ rows'[nextId] = new /\ rows'[p] = old
      /\ \A e \in ExecId \ {nextId, p} : rows'[e] = rows[e]
      /\ rows' \in [ExecId -> Row]
  BY <1>1, <1>2, <1>4, <1>5 DEF TableTypeOK
<1> QED
  BY <1>1, <1>4, <1>5, <1>6 DEF TableTypeOK, RowShape
-----------------------------------------------------------------------------
(* What every step does to the table of executions: rows are only added at *)
(* its end, and those there keep their hook.                               *)

RowsGrow ==
    /\ nextId' \in Nat /\ nextId' >= nextId
    /\ \A e \in ExecId : e < nextId => rows'[e].hook = rows[e].hook
    /\ \A e \in ExecId : RowShape(rows[e]) => RowShape(rows'[e])
    /\ \A e \in ExecId : e >= nextId' => rows'[e] = NoRow

LEMMA SameTable ==
    ASSUME TypeInv, UNCHANGED tableVars
    PROVE  TableTypeOK' /\ RowsGrow
BY ExecAssumption
   DEF TypeInv, TypeOK, TableTypeOK, RowsGrow, tableVars, Shape, ExecId

LEMMA RowWritten ==
    ASSUME TypeInv, NEW e \in ExecId, e < nextId,
           TableTypeOK', RowsEvolve, nextId' = nextId,
           \A q \in ExecId \ {e} : rows'[q] = rows[q]
    PROVE  TableTypeOK' /\ RowsGrow
BY ExecAssumption DEF TypeInv, TypeOK, TableTypeOK, RowsGrow, RowsEvolve, Shape, ExecId

LEMMA StatusWritten ==
    ASSUME TypeInv, NEW e \in ExecId, e < nextId, NEW status \in Live \cup Finished,
           SetStatus(e, status) \/ UNCHANGED tableVars
    PROVE  TableTypeOK' /\ RowsGrow
BY SameTable, RowWritten, StatusType DEF TypeInv, TypeOK

LEMMA FinishWritten ==
    ASSUME TypeInv, NEW e \in ExecId, e < nextId, NEW status \in Finished,
           FinishRow(e, status) \/ UNCHANGED tableVars
    PROVE  TableTypeOK' /\ RowsGrow
BY SameTable, RowWritten, FinishRowType DEF TypeInv, TypeOK

LEMMA FailureWritten ==
    ASSUME TypeInv, NEW e \in ExecId, e < nextId, FailHandoff(e) \/ UNCHANGED tableVars
    PROVE  TableTypeOK' /\ RowsGrow
BY SameTable, RowWritten, FailHandoffType DEF TypeInv, TypeOK

LEMMA RowInserted ==
    ASSUME TypeInv, NEW row \in Row, row.handoff = "none", Insert(row)
    PROVE  /\ TableTypeOK' /\ RowsGrow
           /\ nextId \in ExecId /\ nextId' = nextId + 1
<1>1. /\ TableTypeOK' /\ nextId \in ExecId /\ nextId' = nextId + 1
      /\ rows' = [rows EXCEPT ![nextId] = row]
  BY InsertType DEF TypeInv, TypeOK
<1>2. /\ nextId' >= nextId /\ rows'[nextId] = row /\ RowShape(row)
      /\ \A e \in ExecId : e # nextId => rows'[e] = rows[e]
  BY <1>1, ExecAssumption DEF TypeInv, TypeOK, TableTypeOK, ExecId, RowShape
<1> QED
  BY <1>1, <1>2, ExecAssumption DEF TypeInv, Shape, RowsGrow, ExecId

LEMMA TableSwept ==
    ASSUME TypeInv, Sweep \/ UNCHANGED tableVars
    PROVE  TableTypeOK' /\ RowsGrow
<1>1. CASE UNCHANGED tableVars
  BY <1>1, SameTable
<1>2. CASE Sweep
  <2>1. rows' = [e \in ExecId |-> SweptRow(rows[e])] /\ nextId' = nextId
    BY <1>2 DEF Sweep
  <2>2. ASSUME NEW row \in Row
        PROVE  /\ SweptRow(row) \in Row /\ SweptRow(row).hook = row.hook
               /\ RowShape(row) => RowShape(SweptRow(row))
    BY ZenonT(30) DEF SweptRow, Row, RowShape, Live, Finished, EndedBadly
  <2>3. SweptRow(NoRow) = NoRow
    BY DEF SweptRow, NoRow, Live
  <2>4. TableTypeOK'
    BY <2>1, <2>2 DEF TypeInv, TypeOK, TableTypeOK
  <2> QED
    BY <2>1, <2>2, <2>3, <2>4, ExecAssumption
    DEF TypeInv, TypeOK, TableTypeOK, Shape, RowsGrow, ExecId
<1> QED
  BY <1>1, <1>2

-----------------------------------------------------------------------------
(* What a step does to the threads.                                        *)

LEMMA LocalKept ==
    ASSUME TypeInv, RowsGrow, NEW t \in Thread
    PROVE  LocalShape(t, thread[t], rows', nextId')
BY ExecAssumption
   DEF TypeInv, TypeOK, TableTypeOK, Shape, ThreadShape, LocalShape, RowsGrow, ExecId

ThreadsOK == thread' \in [Thread -> Local] /\ Shape'

LEMMA ShapeKept ==
    ASSUME TypeInv, RowsGrow, \A t \in Thread : LocalShape(t, thread'[t], rows', nextId')
    PROVE  Shape'
BY DEF TypeInv, Shape, ThreadShape, RowsGrow

LEMMA SameThreads ==
    ASSUME TypeInv, RowsGrow, UNCHANGED thread
    PROVE  ThreadsOK
BY LocalKept, ShapeKept DEF TypeInv, TypeOK, ThreadsOK

LEMMA OneThread ==
    ASSUME TypeInv, RowsGrow, NEW t \in Thread, NEW l \in Local,
           thread' = [thread EXCEPT ![t] = l], LocalShape(t, l, rows', nextId')
    PROVE  ThreadsOK
<1>1. \A u \in Thread : LocalShape(u, thread'[u], rows', nextId')
  BY LocalKept DEF TypeInv, TypeOK
<1> QED
  BY <1>1, ShapeKept DEF TypeInv, TypeOK, ThreadsOK

LEMMA IdleLocal ==
    /\ Idle \in Local
    /\ \A t : LocalShape(t, Idle, rows', nextId')
BY DEF Idle, Local, LocalShape, ReqPc, HookPc, RowPc, OwnPc

LEMMA AfterLocal ==
    ASSUME TypeInv, RowsGrow, NEW t \in Thread, thread[t].pc # "idle"
    PROVE  After(t) \in Local /\ LocalShape(t, After(t), rows', nextId')
<1>1. CASE t \in Req
  BY <1>1, IdleLocal DEF After
<1>2. CASE t \in ExecId
  <2>1. t < nextId'
    BY <1>2, ExecAssumption
    DEF TypeInv, TypeOK, TableTypeOK, Shape, ThreadShape, LocalShape, RowsGrow, ExecId
  <2>2. After(t) = [Idle EXCEPT !.pc = "handoffDone"]
    BY <1>2, ThreadAssumption DEF After
  <2> QED
    BY <2>1, <2>2 DEF Idle, Local, LocalShape, WorkerPc, HookPc, RowPc, OwnPc
<1> QED
  BY <1>1, <1>2 DEF Thread

LEMMA ThreadDone ==
    ASSUME TypeInv, RowsGrow, NEW t \in Thread, thread[t].pc # "idle", Done(t)
    PROVE  ThreadsOK
BY AfterLocal, OneThread DEF Done

LEMMA ThreadMoves ==
    ASSUME TypeInv, RowsGrow, NEW t \in Thread, NEW pc \in ReqPc \cup WorkerPc,
           thread[t].pc \notin {"idle", "handoffDone"}, Goto(t, pc),
           pc \notin {"launchChild", "finish", "finishSync"},
           pc \in HookPc => thread[t].hook \in Hook,
           pc \in RowPc => thread[t].exec \in ExecId /\ thread[t].exec < nextId
    PROVE  ThreadsOK
<1> DEFINE l == [thread[t] EXCEPT !.pc = pc]
<1>1. thread[t] \in Local /\ l \in Local
  BY DEF TypeInv, TypeOK, Local
<1>2. LocalShape(t, thread[t], rows', nextId') /\ thread[t].pc \notin {"idle", "handoffDone"}
  BY LocalKept
<1>3. nextId \in Nat /\ nextId' \in Nat /\ nextId' >= nextId
  BY DEF TypeInv, TypeOK, TableTypeOK, RowsGrow
<1>4. LocalShape(t, l, rows', nextId')
  BY <1>1, <1>2, <1>3 DEF LocalShape, Local, ExecId
<1>5. thread' = [thread EXCEPT ![t] = l]
  BY DEF Goto
<1> QED
  BY <1>1, <1>4, <1>5, OneThread

(* The thread that launches ends its part, the worker launched begins.     *)
LEMMA LaunchThreads ==
    ASSUME TypeInv, NEW t \in Thread, NEW h \in Hook, NEW e \in ExecId, e < nextId,
           thread[t].pc # "idle", UNCHANGED tableVars,
           thread' = [thread EXCEPT ![t] = After(t), ![e] = Worker(h, e)]
    PROVE  ThreadsOK
<1>1. RowsGrow
  BY SameTable
<1>2. After(t) \in Local /\ LocalShape(t, After(t), rows', nextId')
  BY <1>1, AfterLocal
<1>3. Worker(h, e) \in Local
  BY DEF Worker, Idle, Local, WorkerPc
<1>4. Worker(h, e).pc = "start" /\ Worker(h, e).hook = h /\ Worker(h, e).exec = e
  BY DEF Worker, Idle
<1>5. LocalShape(e, Worker(h, e), rows', nextId')
  BY <1>4 DEF LocalShape, HookPc, RowPc, tableVars
<1> HIDE DEF Worker, After, LocalShape
<1>6. thread' \in [Thread -> Local]
  BY <1>2, <1>3 DEF TypeInv, TypeOK
<1>7. \A u \in Thread : LocalShape(u, thread'[u], rows', nextId')
  BY <1>1, <1>2, <1>5, LocalKept DEF TypeInv, TypeOK
<1> QED
  BY <1>1, <1>6, <1>7, ShapeKept DEF ThreadsOK

-----------------------------------------------------------------------------
(* What most steps leave alone.                                            *)

RestOK ==
    /\ ConfigTypeOK'
    /\ accepted' \in [ExecId -> [1..MaxAttempt -> Nat]]
    /\ up' \in BOOLEAN
    /\ crashes' \in Nat /\ faults' \in Nat

LEMMA RestKept ==
    ASSUME TypeInv, UNCHANGED accepted, Quiet, UNCHANGED faults \/ Fault
    PROVE  RestOK
BY DEF TypeInv, TypeOK, ConfigTypeOK, RestOK, Quiet, Fault, configVars, outside

LEMMA NoFaultKept ==
    ASSUME TypeInv, UNCHANGED accepted, NoFault
    PROVE  RestOK
BY RestKept DEF NoFault, Quiet

Kept == TypeInv' /\ RowsGrow

LEMMA AllKept ==
    ASSUME RestOK, TableTypeOK', RowsGrow, RunnerTypeOK', ThreadsOK
    PROVE  Kept
BY DEF RestOK, ThreadsOK, TypeInv, TypeOK, Kept
-----------------------------------------------------------------------------
(* Every action keeps TypeInv.                                             *)

LEMMA ArriveType ==
    ASSUME TypeInv, NEW r \in Req, Arrive(r)
    PROVE  Kept
<1>1. ASSUME NEW h \in Hook, Load(r, h) PROVE Kept
  <2> DEFINE l == [Idle EXCEPT !.pc = IF hooks[h].async THEN "admit" ELSE "insertSync",
                               !.hook = h, !.succ = hooks[h].succ]
  <2>1. hooks[h].succ \in Hook \cup {NoHook}
    BY DEF TypeInv, TypeOK, ConfigTypeOK, HookRow
  <2>2. l \in Local /\ l.hook = h /\ l.pc \in {"admit", "insertSync"}
    BY <2>1 DEF Idle, Local, ReqPc
  <2>3. TableTypeOK' /\ RowsGrow /\ RunnerTypeOK' /\ RestOK
    BY <1>1, SameTable, SameProcessType, NoFaultKept DEF Load, TypeInv, TypeOK
  <2>4. thread' = [thread EXCEPT ![r] = l]
    BY <1>1 DEF Load
  <2> HIDE DEF l
  <2>5. LocalShape(r, l, rows', nextId')
    BY <2>2, ThreadAssumption DEF LocalShape, RowPc
  <2> QED
    BY <2>2, <2>3, <2>4, <2>5, OneThread, AllKept DEF Thread
<1>2. ASSUME NEW h \in Hook, RejectAuth(r, h) PROVE Kept
  <2> DEFINE row == NewRow(h, "failed", 0, {}, NoHook)
  <2>1. row \in Row /\ row.handoff = "none"
    BY NewRowType DEF Finished, EndedBadly
  <2>2. Insert(row) /\ UNCHANGED <<thread, process, accepted>> /\ NoFault
    BY <1>2 DEF RejectAuth
  <2> HIDE DEF row
  <2>3. TableTypeOK' /\ RowsGrow /\ RunnerTypeOK' /\ RestOK
    BY <2>1, <2>2, RowInserted, SameProcessType, NoFaultKept DEF TypeInv, TypeOK
  <2> QED
    BY <2>2, <2>3, SameThreads, AllKept
<1>3. ASSUME NEW p \in ExecId, NEW a \in 1..MaxAttempt, RetrySuccessor(r, p, a)
      PROVE  Kept
  <2> DEFINE l == [Idle EXCEPT !.pc = "dispatch", !.exec = p]
  <2>1. p < nextId
    <3>1. rows[p].status = "success" /\ NoRow.status = "absent"
      BY <1>3 DEF RetrySuccessor, Retryable, NoRow
    <3> QED
      BY <3>1 DEF TypeInv, TypeOK, TableTypeOK, Shape, ExecId
  <2>2. TableTypeOK' /\ RowsGrow
    <3>1. Retryable(p) /\ Claim(p)
      BY <1>3 DEF RetrySuccessor
    <3> QED
      BY <2>1, <3>1, ClaimType, RowWritten DEF TypeInv, TypeOK
  <2>3. l \in Local /\ l.exec = p /\ l.pc = "dispatch"
    BY DEF Idle, Local, ReqPc
  <2>4. thread' = [thread EXCEPT ![r] = l] /\ UNCHANGED process /\ NoFault
    BY <1>3 DEF RetrySuccessor
  <2> HIDE DEF l
  <2>5. LocalShape(r, l, rows', nextId')
    BY <2>1, <2>2, <2>3, ThreadAssumption
    DEF LocalShape, HookPc, OwnPc, RowsGrow, TypeInv, TypeOK, TableTypeOK, ExecId
  <2>6. ThreadsOK /\ RunnerTypeOK'
    BY <2>2, <2>3, <2>4, <2>5, OneThread, SameProcessType DEF Thread, TypeInv, TypeOK
  <2>7. RestOK
    <3> DEFINE counts == [accepted[p] EXCEPT ![a] = accepted[p][a] + 1]
    <3>1. accepted' = [accepted EXCEPT ![p] = counts]
      BY <1>3 DEF RetrySuccessor
    <3>2. counts \in [1..MaxAttempt -> Nat]
      <4>1. accepted[p] \in [1..MaxAttempt -> Nat]
        BY DEF TypeInv, TypeOK
      <4>2. accepted[p][a] \in Nat
        BY <4>1
      <4>3. accepted[p][a] + 1 \in Nat
        BY <4>2
      <4> QED
        BY <4>1, <4>3
    <3> HIDE DEF counts
    <3>3. accepted' \in [ExecId -> [1..MaxAttempt -> Nat]]
      BY <3>1, <3>2 DEF TypeInv, TypeOK
    <3> QED
      BY <2>4, <3>3 DEF NoFault, RestOK, TypeInv, TypeOK, ConfigTypeOK, configVars, outside
  <2> QED
    BY <2>2, <2>6, <2>7, AllKept
<1> QED
  BY <1>1, <1>2, <1>3 DEF Arrive

(* What the actions of a request or worker know of their thread.           *)
LEMMA ThreadFacts ==
    ASSUME TypeInv, NEW t \in Thread
    PROVE  /\ thread[t] \in Local
           /\ LocalShape(t, thread[t], rows, nextId)
           /\ nextId \in Nat
BY ExecAssumption DEF TypeInv, TypeOK, TableTypeOK, Shape, ThreadShape

(* A thread that has loaded its hook inserts the row of its execution.     *)
LEMMA StartRowType ==
    ASSUME TypeInv, NEW r \in Req, thread[r].hook \in Hook,
           NEW status \in Live, StartRow(r, status)
    PROVE  /\ TableTypeOK' /\ RowsGrow
           /\ nextId \in ExecId /\ nextId' = nextId + 1
<1> DEFINE row == NewRow(thread[r].hook, status, 0, {thread[r].hook}, thread[r].succ)
<1>1. thread[r].succ \in Hook \cup {NoHook}
  BY DEF TypeInv, TypeOK, Local, Thread
<1>2. /\ {thread[r].hook} \in SUBSET Hook
      /\ status \in {"absent"} \cup Live \cup Finished /\ 0 \in {0} \cup ExecId
  OBVIOUS
<1>3. row \in Row /\ row.handoff = "none"
  <2>1. ASSUME NEW h \in Hook, NEW path \in SUBSET Hook, NEW succ \in Hook \cup {NoHook}
        PROVE  /\ NewRow(h, status, 0, path, succ) \in Row
               /\ NewRow(h, status, 0, path, succ).handoff = "none"
    BY <1>2, NewRowType
  <2> QED
    BY <1>1, <1>2, <2>1
<1>4. Insert(row)
  BY DEF StartRow
<1> HIDE DEF row
<1> QED
  BY <1>3, <1>4, RowInserted

LEMMA AsyncType ==
    ASSUME TypeInv, NEW r \in Req, AsyncStep(r)
    PROVE  Kept
<1>0. /\ r \in Thread /\ r \notin ExecId /\ thread[r] \in Local
      /\ LocalShape(r, thread[r], rows, nextId)
      /\ RunnerTypeOK
  BY ThreadFacts, ThreadAssumption DEF Thread, TypeInv, TypeOK
<1>1. CASE AdmitAsync(r)
  <2>1. thread[r].pc = "admit" /\ thread[r].hook \in Hook
    BY <1>0, <1>1 DEF AdmitAsync, At, LocalShape, HookPc
  <2>2. TableTypeOK' /\ RowsGrow /\ RunnerTypeOK' /\ RestOK
    BY <1>0, <1>1, <2>1, SameTable, AdmitType, NoFaultKept DEF AdmitAsync
  <2>3. ThreadsOK
    BY <1>0, <1>1, <2>1, <2>2, ThreadMoves DEF AdmitAsync, RowPc, ReqPc
  <2> QED
    BY <2>2, <2>3, AllKept
<1>2. CASE RefuseAsync(r)
  <2>1. TableTypeOK' /\ RowsGrow /\ RunnerTypeOK' /\ RestOK
    BY <1>0, <1>2, SameTable, SameProcessType, NoFaultKept DEF RefuseAsync
  <2> QED
    BY <1>0, <1>2, <2>1, ThreadDone, AllKept DEF RefuseAsync, At
<1>3. CASE InsertQueued(r)
  <2> DEFINE l == [thread[r] EXCEPT !.pc = "launch", !.exec = nextId]
  <2>1. thread[r].pc = "insert" /\ thread[r].hook \in Hook
    BY <1>0, <1>3 DEF InsertQueued, At, LocalShape, HookPc, OwnPc
  <2>2. /\ TableTypeOK' /\ RowsGrow
        /\ nextId \in ExecId /\ nextId' = nextId + 1
    BY <1>3, <2>1, StartRowType DEF InsertQueued, Live
  <2>3. RunnerTypeOK' /\ RestOK
    BY <1>0, <1>3, SameProcessType, NoFaultKept DEF InsertQueued
  <2>4. thread' = [thread EXCEPT ![r] = l]
    BY <1>3 DEF InsertQueued
  <2>5. l \in Local /\ l.pc = "launch" /\ l.hook = thread[r].hook /\ l.exec = nextId
    BY <1>0, <2>2 DEF Local, ReqPc
  <2> HIDE DEF l
  <2>6. LocalShape(r, l, rows', nextId')
    BY <1>0, <2>1, <2>2, <2>5 DEF LocalShape, ExecId
  <2> QED
    BY <1>0, <2>2, <2>3, <2>4, <2>5, <2>6, OneThread, AllKept
<1>4. CASE InsertQueuedFails(r)
  <2>1. thread[r].pc = "insert" /\ thread[r].hook \in Hook
    BY <1>0, <1>4 DEF InsertQueuedFails, At, LocalShape, HookPc, OwnPc
  <2>2. TableTypeOK' /\ RowsGrow /\ RunnerTypeOK' /\ RestOK
    BY <1>0, <1>4, <2>1, SameTable, ReleaseType, RestKept
    DEF InsertQueuedFails, InsertError
  <2> QED
    BY <1>0, <1>4, <2>1, <2>2, ThreadDone, AllKept DEF InsertQueuedFails
<1>5. CASE Launch(r)
  <2>1. /\ thread[r].pc = "launch" /\ thread[r].hook \in Hook
        /\ thread[r].exec \in ExecId /\ thread[r].exec < nextId
    BY <1>0, <1>5 DEF Launch, At, LocalShape, HookPc, OwnPc, RowPc
  <2>2. LaunchHook(r, thread[r].hook, thread[r].exec)
    BY <1>5 DEF Launch
  <2>3. TableTypeOK' /\ RowsGrow /\ RunnerTypeOK' /\ RestOK
    BY <1>0, <2>1, <2>2, SameTable, LaunchType, NoFaultKept DEF LaunchHook
  <2>4. ThreadsOK
    BY <1>0, <2>1, <2>2, LaunchThreads DEF LaunchHook
  <2> QED
    BY <2>3, <2>4, AllKept
<1> QED
  BY <1>1, <1>2, <1>3, <1>4, <1>5 DEF AsyncStep

LEMMA SyncType ==
    ASSUME TypeInv, NEW r \in Req, SyncStep(r)
    PROVE  Kept
<1>0. /\ r \in Thread /\ r \notin ExecId /\ thread[r] \in Local
      /\ LocalShape(r, thread[r], rows, nextId)
      /\ RunnerTypeOK
  BY ThreadFacts, ThreadAssumption DEF Thread, TypeInv, TypeOK
<1>1. CASE InsertRunning(r)
  <2> DEFINE l == [thread[r] EXCEPT !.pc = "runSync", !.exec = nextId]
  <2>1. thread[r].pc = "insertSync" /\ thread[r].hook \in Hook
    BY <1>0, <1>1 DEF InsertRunning, At, LocalShape, HookPc
  <2>2. /\ TableTypeOK' /\ RowsGrow
        /\ nextId \in ExecId /\ nextId' = nextId + 1
    BY <1>1, <2>1, StartRowType DEF InsertRunning, Live
  <2>3. RunnerTypeOK' /\ RestOK
    BY <1>0, <1>1, SameProcessType, NoFaultKept DEF InsertRunning
  <2>4. thread' = [thread EXCEPT ![r] = l]
    BY <1>1 DEF InsertRunning
  <2>5. l \in Local /\ l.pc = "runSync" /\ l.exec = nextId
    BY <1>0, <2>2 DEF Local, ReqPc
  <2> HIDE DEF l
  <2>6. LocalShape(r, l, rows', nextId')
    BY <1>0, <2>2, <2>5 DEF LocalShape, ExecId, HookPc, OwnPc
  <2> QED
    BY <1>0, <2>2, <2>3, <2>4, <2>5, <2>6, OneThread, AllKept
<1>2. CASE InsertRunningFails(r)
  <2>1. TableTypeOK' /\ RowsGrow /\ RunnerTypeOK' /\ RestOK
    BY <1>0, <1>2, SameTable, SameProcessType, RestKept
    DEF InsertRunningFails, InsertError
  <2> QED
    BY <1>0, <1>2, <2>1, ThreadDone, AllKept DEF InsertRunningFails, At
<1>3. ASSUME NEW s \in Outcome, RunSync(r, s) PROVE Kept
  <2> DEFINE l == [thread[r] EXCEPT !.pc = "finishSync", !.result = s]
  <2>1. /\ thread[r].pc = "runSync" /\ s \in Finished
        /\ thread[r].exec \in ExecId /\ thread[r].exec < nextId
    BY <1>0, <1>3 DEF RunSync, At, LocalShape, RowPc, Finished, EndedBadly
  <2>2. TableTypeOK' /\ RowsGrow /\ RunnerTypeOK' /\ RestOK /\ nextId' = nextId
    BY <1>0, <1>3, SameTable, SameProcessType, NoFaultKept DEF RunSync, tableVars
  <2>3. thread' = [thread EXCEPT ![r] = l]
    BY <1>3 DEF RunSync
  <2>4. l \in Local /\ l.pc = "finishSync" /\ l.exec = thread[r].exec /\ l.result = s
    BY <1>0 DEF Local, ReqPc
  <2> HIDE DEF l
  <2>5. LocalShape(r, l, rows', nextId')
    BY <1>0, <2>1, <2>2, <2>4 DEF LocalShape, HookPc, OwnPc
  <2> QED
    BY <1>0, <2>2, <2>3, <2>4, <2>5, OneThread, AllKept
<1>4. CASE RunSyncPanics(r)
  <2>1. TableTypeOK' /\ RowsGrow /\ RunnerTypeOK' /\ RestOK
    BY <1>0, <1>4, SameTable, SameProcessType, RestKept DEF RunSyncPanics
  <2> QED
    BY <1>0, <1>4, <2>1, ThreadDone, AllKept DEF RunSyncPanics, At
<1>5. CASE FinishSync(r)
  <2>1. /\ thread[r].pc = "finishSync" /\ thread[r].result \in Finished
        /\ thread[r].exec \in ExecId /\ thread[r].exec < nextId
    BY <1>0, <1>5 DEF FinishSync, At, LocalShape, RowPc
  <2>2. TableTypeOK' /\ RowsGrow
    BY <1>5, <2>1, FinishWritten DEF FinishSync
  <2>3. RunnerTypeOK' /\ RestOK
    BY <1>0, <1>5, SameProcessType, RestKept DEF FinishSync
  <2>4. ThreadsOK
    BY <1>0, <1>5, <2>1, <2>2, ThreadMoves DEF FinishSync, ReqPc, HookPc, OwnPc
  <2> QED
    BY <2>2, <2>3, <2>4, AllKept
<1> QED
  BY <1>1, <1>2, <1>3, <1>4, <1>5 DEF SyncStep
LEMMA WorkerType ==
    ASSUME TypeInv, NEW w \in ExecId,
           \/ Acquire(w) \/ Abandon(w) \/ EndCanceled(w) \/ BeginRun(w) \/ FinishRun(w)
           \/ ReturnSlot(w) \/ LogPanic(w) \/ DropCancel(w) \/ ReleaseAdmission(w)
           \/ EndHandoff(w) \/ ExecutePanics(w) \/ \E s \in Outcome : Execute(w, s)
    PROVE  Kept
<1>0. /\ w \in Thread /\ thread[w] \in Local
      /\ LocalShape(w, thread[w], rows, nextId)
      /\ RunnerTypeOK /\ nextId \in Nat
  BY ThreadFacts DEF Thread, TypeInv, TypeOK
<1>m. ASSUME thread[w].pc \in OwnPc
      PROVE  thread[w].hook \in Hook /\ w < nextId /\ thread[w].exec = w
  BY <1>0, <1>m DEF LocalShape, HookPc, OwnPc
<1>1. CASE Acquire(w)
  <2>1. thread[w].pc = "start" /\ thread[w].hook \in Hook
    BY <1>m, <1>1 DEF Acquire, At, OwnPc
  <2>2. TableTypeOK' /\ RowsGrow /\ RunnerTypeOK' /\ RestOK
    BY <1>0, <1>1, SameTable, SlotType, NoFaultKept DEF Acquire
  <2>3. ThreadsOK
    BY <1>0, <1>1, <2>1, <2>2, ThreadMoves DEF Acquire, WorkerPc, RowPc
  <2> QED
    BY <2>2, <2>3, AllKept
<1>2. CASE Abandon(w)
  <2>1. thread[w].pc = "start" /\ thread[w].hook \in Hook
    BY <1>m, <1>2 DEF Abandon, At, OwnPc
  <2>2. TableTypeOK' /\ RowsGrow /\ RunnerTypeOK' /\ RestOK
    BY <1>0, <1>2, SameTable, SlotType, NoFaultKept DEF Abandon, GiveUp
  <2>3. ThreadsOK
    BY <1>0, <1>2, <2>1, <2>2, ThreadMoves DEF Abandon, WorkerPc, RowPc
  <2> QED
    BY <2>2, <2>3, AllKept
<1>3. CASE EndCanceled(w)
  <2>1. thread[w].pc = "endCanceled" /\ thread[w].hook \in Hook /\ w < nextId
    BY <1>m, <1>3 DEF EndCanceled, At, OwnPc
  <2>2. TableTypeOK' /\ RowsGrow
    BY <1>3, <2>1, StatusWritten DEF EndCanceled, LogEnd, Finished, EndedBadly
  <2>3. RunnerTypeOK' /\ RestOK
    BY <1>0, <1>3, SameProcessType, RestKept DEF EndCanceled
  <2>4. ThreadsOK
    BY <1>0, <1>3, <2>1, <2>2, ThreadMoves DEF EndCanceled, WorkerPc, RowPc
  <2> QED
    BY <2>2, <2>3, <2>4, AllKept
<1>4. CASE BeginRun(w)
  <2>1. thread[w].pc = "markRunning" /\ thread[w].hook \in Hook /\ w < nextId
    BY <1>m, <1>4 DEF BeginRun, At, OwnPc
  <2>2. TableTypeOK' /\ RowsGrow
    BY <1>4, <2>1, StatusWritten DEF BeginRun, MarkRunning, Live
  <2>3. RunnerTypeOK' /\ RestOK
    BY <1>0, <1>4, SameProcessType, RestKept DEF BeginRun
  <2>4. ThreadsOK
    BY <1>0, <1>4, <2>1, <2>2, ThreadMoves DEF BeginRun, WorkerPc, RowPc
  <2> QED
    BY <2>2, <2>3, <2>4, AllKept
<1>5. ASSUME NEW s \in Outcome, Execute(w, s) PROVE Kept
  <2> DEFINE l == [thread[w] EXCEPT !.pc = "finish", !.result = s]
  <2>1. /\ thread[w].pc = "execute" /\ s \in Finished
        /\ thread[w].hook \in Hook /\ w < nextId /\ thread[w].exec = w
    BY <1>m, <1>5 DEF Execute, At, OwnPc, Finished, EndedBadly
  <2>2. TableTypeOK' /\ RowsGrow /\ RunnerTypeOK' /\ RestOK /\ nextId' = nextId
    BY <1>0, <1>5, SameTable, SameProcessType, NoFaultKept DEF Execute, tableVars
  <2>3. thread' = [thread EXCEPT ![w] = l]
    BY <1>5 DEF Execute
  <2>4. l \in Local /\ l.pc = "finish" /\ l.exec = w /\ l.result = s /\ l.hook \in Hook
    BY <1>0, <2>1 DEF Local, WorkerPc
  <2> HIDE DEF l
  <2>5. LocalShape(w, l, rows', nextId')
    BY <2>1, <2>2, <2>4 DEF LocalShape, RowPc
  <2> QED
    BY <1>0, <2>2, <2>3, <2>4, <2>5, OneThread, AllKept
<1>6. CASE ExecutePanics(w)
  <2> DEFINE l == [thread[w] EXCEPT !.pc = "finishSlot", !.result = "panic"]
  <2>1. /\ thread[w].pc = "execute"
        /\ thread[w].hook \in Hook /\ w < nextId /\ thread[w].exec = w
    BY <1>m, <1>6 DEF ExecutePanics, At, OwnPc
  <2>2. TableTypeOK' /\ RowsGrow /\ RunnerTypeOK' /\ RestOK /\ nextId' = nextId
    BY <1>0, <1>6, SameTable, SameProcessType, RestKept DEF ExecutePanics, tableVars
  <2>3. thread' = [thread EXCEPT ![w] = l]
    BY <1>6 DEF ExecutePanics
  <2>4. l \in Local /\ l.pc = "finishSlot" /\ l.exec = w /\ l.hook \in Hook
    BY <1>0, <2>1 DEF Local, WorkerPc, Outcome
  <2> HIDE DEF l
  <2>5. LocalShape(w, l, rows', nextId')
    BY <2>1, <2>2, <2>4 DEF LocalShape, RowPc
  <2> QED
    BY <1>0, <2>2, <2>3, <2>4, <2>5, OneThread, AllKept
<1>7. CASE FinishRun(w)
  <2>1. thread[w].pc = "finish" /\ thread[w].hook \in Hook /\ w < nextId
    BY <1>m, <1>7 DEF FinishRun, At, OwnPc
  <2>2. thread[w].result \in Finished
    BY <1>0, <2>1 DEF LocalShape
  <2>3. TableTypeOK' /\ RowsGrow
    BY <1>7, <2>1, <2>2, FinishWritten DEF FinishRun
  <2>4. RunnerTypeOK' /\ RestOK
    BY <1>0, <1>7, SameProcessType, RestKept DEF FinishRun
  <2>5. ThreadsOK
    BY <1>0, <1>7, <2>1, <2>3, ThreadMoves DEF FinishRun, WorkerPc, RowPc
  <2> QED
    BY <2>3, <2>4, <2>5, AllKept
<1>8. CASE ReturnSlot(w)
  <2>1. thread[w].pc = "finishSlot" /\ thread[w].hook \in Hook
    BY <1>m, <1>8 DEF ReturnSlot, At, OwnPc
  <2>2. TableTypeOK' /\ RowsGrow /\ RunnerTypeOK' /\ RestOK
    BY <1>0, <1>8, SameTable, SlotType, NoFaultKept DEF ReturnSlot
  <2>3. PICK pc \in {"logPanic", "unregister"} : Goto(w, pc)
    BY <1>8 DEF ReturnSlot
  <2>4. ThreadsOK
    BY <1>0, <2>1, <2>2, <2>3, ThreadMoves DEF WorkerPc, RowPc
  <2> QED
    BY <2>2, <2>4, AllKept
<1>9. CASE LogPanic(w)
  <2>1. thread[w].pc = "logPanic" /\ thread[w].hook \in Hook /\ w < nextId
    BY <1>m, <1>9 DEF LogPanic, At, OwnPc
  <2>2. TableTypeOK' /\ RowsGrow
    BY <1>9, <2>1, StatusWritten DEF LogPanic, LogEnd, Finished, EndedBadly
  <2>3. RunnerTypeOK' /\ RestOK
    BY <1>0, <1>9, SameProcessType, RestKept DEF LogPanic
  <2>4. ThreadsOK
    BY <1>0, <1>9, <2>1, <2>2, ThreadMoves DEF LogPanic, WorkerPc, RowPc
  <2> QED
    BY <2>2, <2>3, <2>4, AllKept
<1>10. CASE DropCancel(w)
  <2>1. thread[w].pc = "unregister" /\ thread[w].hook \in Hook
    BY <1>m, <1>10 DEF DropCancel, At, OwnPc
  <2>2. TableTypeOK' /\ RowsGrow /\ RunnerTypeOK' /\ RestOK
    BY <1>0, <1>10, SameTable, RegistryType, NoFaultKept DEF DropCancel
  <2>3. ThreadsOK
    BY <1>0, <1>10, <2>1, <2>2, ThreadMoves DEF DropCancel, WorkerPc, RowPc
  <2> QED
    BY <2>2, <2>3, AllKept
<1>11. CASE ReleaseAdmission(w)
  <2> DEFINE l == [Idle EXCEPT !.pc = "dispatch", !.exec = w]
  <2>1. thread[w].pc = "release" /\ thread[w].hook \in Hook /\ w < nextId
    BY <1>m, <1>11 DEF ReleaseAdmission, At, OwnPc
  <2>2. TableTypeOK' /\ RowsGrow /\ RunnerTypeOK' /\ RestOK /\ nextId' = nextId
    BY <1>0, <1>11, <2>1, SameTable, ReleaseType, NoFaultKept
    DEF ReleaseAdmission, tableVars
  <2>3. thread' = [thread EXCEPT ![w] = l]
    BY <1>11 DEF ReleaseAdmission
  <2>4. l \in Local /\ l.pc = "dispatch" /\ l.exec = w
    BY DEF Idle, Local, ReqPc
  <2> HIDE DEF l
  <2>5. LocalShape(w, l, rows', nextId')
    BY <2>1, <2>2, <2>4 DEF LocalShape, HookPc, OwnPc
  <2> QED
    BY <1>0, <2>2, <2>3, <2>4, <2>5, OneThread, AllKept
<1>12. CASE EndHandoff(w)
  <2>1. TableTypeOK' /\ RowsGrow /\ RestOK
    BY <1>12, SameTable, NoFaultKept DEF EndHandoff
  <2>2. RunnerTypeOK'
    BY <1>0, <1>12 DEF EndHandoff, HandoffDone, RunnerTypeOK, registry
  <2>3. ThreadsOK
    BY <1>0, <1>12, <2>1, IdleLocal, OneThread DEF EndHandoff
  <2> QED
    BY <2>1, <2>2, <2>3, AllKept
<1> QED
  BY <1>1, <1>2, <1>3, <1>4, <1>5, <1>6, <1>7, <1>8, <1>9, <1>10, <1>11, <1>12

LEMMA DispatchType ==
    ASSUME TypeInv, NEW t \in Thread, Dispatch(t)
    PROVE  Kept
<1>0. /\ thread[t] \in Local /\ LocalShape(t, thread[t], rows, nextId)
      /\ RunnerTypeOK /\ nextId \in Nat
  BY ThreadFacts DEF TypeInv, TypeOK
<1>p. ASSUME thread[t].pc \in {"dispatch", "recordFailure"}
      PROVE  Parent(t) \in ExecId /\ Parent(t) < nextId
  BY <1>0, <1>p DEF LocalShape, RowPc, Parent
<1>1. CASE DispatchNothing(t)
  <2>1. TableTypeOK' /\ RowsGrow /\ RunnerTypeOK' /\ RestOK
    BY <1>0, <1>1, SameTable, SameProcessType, NoFaultKept DEF DispatchNothing
  <2> QED
    BY <1>1, <2>1, ThreadDone, AllKept DEF DispatchNothing, At
<1>2. CASE DispatchCommit(t)
  <2> DEFINE p == Parent(t)
             h == rows[p].target
             l == [thread[t] EXCEPT !.pc = "launchChild", !.child = nextId]
  <2>1. thread[t].pc = "dispatch" /\ p \in ExecId /\ p < nextId /\ Pending(p)
    BY <1>p, <1>2 DEF DispatchCommit, At
  <2>2. h \in Hook
    BY <2>1 DEF TypeInv, Shape, RowShape, Pending
  <2>3. hooks[h].succ \in Hook \cup {NoHook}
    BY <2>2 DEF TypeInv, TypeOK, ConfigTypeOK, HookRow
  <2>4. InsertSuccessor(p, hooks[h].succ) /\ Admit(h)
    BY <1>2 DEF DispatchCommit
  <2>5. TableTypeOK /\ p # nextId
    BY <2>1 DEF TypeInv, TypeOK, TableTypeOK, ExecId
  <2>6. /\ TableTypeOK' /\ nextId \in ExecId
        /\ rows'[nextId].hook \in Hook
        /\ nextId' = nextId + 1
        /\ \A e \in ExecId \ {nextId} : rows'[e].hook = rows[e].hook
        /\ \A e \in ExecId \ {nextId, p} : rows'[e] = rows[e]
        /\ \A e \in ExecId : RowShape(rows[e]) => RowShape(rows'[e])
    BY <2>1, <2>2, <2>3, <2>4, <2>5, SuccessorType
  <2>7. RowsGrow
    BY <2>1, <2>6, ExecAssumption
    DEF TypeInv, TypeOK, TableTypeOK, Shape, RowsGrow, ExecId
  <2>8. RunnerTypeOK' /\ RestOK
    BY <1>0, <1>2, <2>2, <2>4, AdmitType, NoFaultKept DEF DispatchCommit
  <2>9. thread' = [thread EXCEPT ![t] = l]
    BY <1>2 DEF DispatchCommit
  <2>10. /\ l \in Local /\ l.pc = "launchChild" /\ l.child = nextId
         /\ l.exec = thread[t].exec
    BY <1>0, <2>6 DEF Local, ReqPc
  <2> HIDE DEF l, p, h
  <2>11. LocalShape(t, l, rows', nextId')
    BY <1>0, <2>1, <2>6, <2>10 DEF LocalShape, HookPc, OwnPc, RowPc, ExecId
  <2> QED
    BY <2>6, <2>7, <2>8, <2>9, <2>10, <2>11, OneThread, AllKept
<1>3. CASE DispatchRefused(t)
  <2>1. TableTypeOK' /\ RowsGrow /\ RunnerTypeOK' /\ RestOK
    BY <1>0, <1>3, SameTable, SameProcessType, NoFaultKept DEF DispatchRefused
  <2>2. ThreadsOK
    BY <1>p, <1>3, <2>1, ThreadMoves
    DEF DispatchRefused, At, Parent, ReqPc, HookPc, OwnPc
  <2> QED
    BY <2>1, <2>2, AllKept
<1>4. CASE DispatchFails(t)
  <2>1. TableTypeOK' /\ RowsGrow /\ RunnerTypeOK' /\ RestOK
    BY <1>0, <1>4, SameTable, SameProcessType, RestKept DEF DispatchFails, InsertError
  <2>2. ThreadsOK
    BY <1>p, <1>4, <2>1, ThreadMoves
    DEF DispatchFails, At, Parent, ReqPc, HookPc, OwnPc
  <2> QED
    BY <2>1, <2>2, AllKept
<1>5. CASE RecordFailure(t)
  <2>1. TableTypeOK' /\ RowsGrow
    BY <1>p, <1>5, FailureWritten DEF RecordFailure, At
  <2>2. RunnerTypeOK' /\ RestOK
    BY <1>0, <1>5, SameProcessType, RestKept DEF RecordFailure
  <2> QED
    BY <1>5, <2>1, <2>2, ThreadDone, AllKept DEF RecordFailure, At
<1>6. CASE LaunchChild(t)
  <2>1. /\ thread[t].pc = "launchChild"
        /\ thread[t].child \in ExecId /\ thread[t].child < nextId
        /\ rows[thread[t].child].hook \in Hook
    BY <1>0, <1>6 DEF LaunchChild, At, LocalShape
  <2>2. LaunchHook(t, rows[thread[t].child].hook, thread[t].child)
    BY <1>6 DEF LaunchChild
  <2>3. TableTypeOK' /\ RowsGrow /\ RunnerTypeOK' /\ RestOK
    BY <1>0, <2>1, <2>2, SameTable, LaunchType, NoFaultKept DEF LaunchHook
  <2>4. ThreadsOK
    BY <2>1, <2>2, LaunchThreads DEF LaunchHook
  <2> QED
    BY <2>3, <2>4, AllKept
<1> QED
  BY <1>1, <1>2, <1>3, <1>4, <1>5, <1>6 DEF Dispatch

LEMMA ConfigTypeStep ==
    ASSUME ConfigTypeOK, ConfigNext
    PROVE  ConfigTypeOK'
<1>1. PICK h \in Hook :
          \/ \E a \in AsyncChoices, t \in Hook \cup {NoHook} :
                 CreateHook(h, a, t) \/ UpdateHook(h, a, t)
          \/ DeleteHook(h)
  BY DEF ConfigNext
<1>2. PICK row \in HookRow : hooks' = [hooks EXCEPT ![h] = row] /\ Edit
  <2>1. CASE DeleteHook(h)
    <3>1. Absent \in HookRow
      BY DEF Absent, HookRow
    <3> QED
      BY <2>1, <3>1 DEF DeleteHook
  <2>2. ASSUME NEW a \in AsyncChoices, NEW t \in Hook \cup {NoHook},
               CreateHook(h, a, t) \/ UpdateHook(h, a, t)
        PROVE  \E row \in HookRow : hooks' = [hooks EXCEPT ![h] = row] /\ Edit
    <3> DEFINE row == [present |-> TRUE, async |-> a, succ |-> t]
    <3>1. a \in BOOLEAN
      BY EditsAssumption
    <3>2. row \in HookRow
      BY <3>1, Zenon DEF HookRow
    <3>3. hooks' = [hooks EXCEPT ![h] = row] /\ Edit
      BY <2>2, Zenon DEF CreateHook, UpdateHook
    <3> QED
      BY <3>2, <3>3, Zenon
  <2> QED
    BY <1>1, <2>1, <2>2, Zenon
<1> QED
  BY <1>2 DEF ConfigTypeOK, Edit

LEMMA OutsideType ==
    ASSUME TypeInv, Crash \/ Restart \/ EditHooks \/ \E e \in ExecId : Cancel(e)
    PROVE  Kept
<1>0. RunnerTypeOK
  BY DEF TypeInv, TypeOK
<1>1. CASE Crash
  <2>1. TableTypeOK' /\ RowsGrow
    BY <1>1, SameTable DEF Crash
  <2>2. RunnerTypeOK'
    BY <1>1, CapacityAssumption DEF Crash, Reset, RunnerTypeOK
  <2>3. RestOK
    <3>1. up' \in BOOLEAN
      BY <1>1, Zenon DEF Crash
    <3>2. crashes' \in Nat
      BY <1>1 DEF Crash, TypeInv, TypeOK
    <3>3. UNCHANGED <<hooks, edits, accepted, faults>>
      BY <1>1 DEF Crash, configVars
    <3> QED
      BY <3>1, <3>2, <3>3 DEF TypeInv, TypeOK, ConfigTypeOK, RestOK
  <2>4. ThreadsOK
    <3>1. thread' = [t \in Thread |-> Idle]
      BY <1>1 DEF Crash
    <3>2. thread' \in [Thread -> Local] /\ \A t \in Thread : thread'[t] = Idle
      BY <3>1, IdleLocal
    <3>3. \A t \in Thread : LocalShape(t, thread'[t], rows', nextId')
      BY <3>2, IdleLocal
    <3> QED
      BY <2>1, <3>2, <3>3, ShapeKept DEF ThreadsOK
  <2> QED
    BY <2>1, <2>2, <2>3, <2>4, AllKept
<1>2. CASE Restart
  <2>1. TableTypeOK' /\ RowsGrow
    BY <1>2, TableSwept DEF Restart
  <2>2. RunnerTypeOK'
    BY <1>0, <1>2, SameProcessType DEF Restart
  <2>3. RestOK
    BY <1>2 DEF Restart, Fault, TypeInv, TypeOK, ConfigTypeOK, RestOK, configVars
  <2>4. ThreadsOK
    BY <1>2, <2>1, SameThreads DEF Restart
  <2> QED
    BY <2>1, <2>2, <2>3, <2>4, AllKept
<1>3. CASE EditHooks
  <2>1. TableTypeOK' /\ RowsGrow /\ RunnerTypeOK'
    BY <1>0, <1>3, SameTable, SameProcessType DEF EditHooks
  <2>2. RestOK
    BY <1>3, ConfigTypeStep DEF EditHooks, TypeInv, TypeOK, RestOK, outside
  <2>3. ThreadsOK
    BY <1>3, <2>1, SameThreads DEF EditHooks
  <2> QED
    BY <2>1, <2>2, <2>3, AllKept
<1>4. ASSUME NEW e \in ExecId, Cancel(e) PROVE Kept
  <2>1. TableTypeOK' /\ RowsGrow /\ RunnerTypeOK' /\ RestOK
    BY <1>0, <1>4, SameTable, RegistryType, NoFaultKept DEF Cancel
  <2>2. ThreadsOK
    BY <1>4, <2>1, SameThreads DEF Cancel
  <2> QED
    BY <2>1, <2>2, AllKept
<1> QED
  BY <1>1, <1>2, <1>3, <1>4

LEMMA StepType ==
    ASSUME TypeInv, [Next]_vars
    PROVE  Kept
<1>1. CASE UNCHANGED vars
  <2>1. TypeInv'
    BY <1>1
    DEF vars, TypeInv, TypeOK, ConfigTypeOK, TableTypeOK, RunnerTypeOK, Shape, ThreadShape
  <2>2. RowsGrow
    BY <1>1, SameTable DEF vars, tableVars
  <2> QED
    BY <2>1, <2>2 DEF Kept
<1>2. ASSUME NEW r \in Req, Arrive(r) \/ ReqStep(r) PROVE Kept
  BY <1>2, ArriveType, SyncType, AsyncType, DispatchType DEF ReqStep, Thread
<1>3. ASSUME NEW w \in ExecId,
             \/ Acquire(w) \/ WorkerStep(w) \/ Cancel(w)
             \/ (\E s \in Outcome : Execute(w, s)) \/ ExecutePanics(w)
      PROVE  Kept
  BY <1>3, WorkerType, DispatchType, OutsideType DEF WorkerStep, Thread
<1>4. CASE EditHooks \/ Crash \/ Restart
  BY <1>4, OutsideType
<1> QED
  BY <1>1, <1>2, <1>3, <1>4 DEF Next

LEMMA InitType ==
    ASSUME Init
    PROVE  TypeInv
<1>1. ConfigTypeOK
  BY InitialAssumption DEF Init, ConfigInit, ConfigTypeOK
<1>2. TableTypeOK /\ nextId = 1
  <2>1. NoRow \in Row
    BY DEF NoRow, Row
  <2> QED
    BY <2>1, ExecAssumption DEF Init, TableInit, TableTypeOK
<1>3. RunnerTypeOK
  BY CapacityAssumption DEF Init, RunnerInit, RunnerTypeOK
<1>4. thread \in [Thread -> Local] /\ \A t \in Thread : thread[t] = Idle
  BY IdleLocal DEF Init
<1>5. accepted \in [ExecId -> [1..MaxAttempt -> Nat]]
  <2>1. [a \in 1..MaxAttempt |-> 0] \in [1..MaxAttempt -> Nat]
    OBVIOUS
  <2> QED
    BY <2>1 DEF Init
<1>6. up \in BOOLEAN /\ crashes \in Nat /\ faults \in Nat
  BY DEF Init
<1>7. \A t \in Thread : ThreadShape(t)
  BY <1>4 DEF ThreadShape, LocalShape, Idle, HookPc, RowPc, OwnPc
<1>8. \A e \in ExecId : RowShape(rows[e]) /\ rows[e] = NoRow
  BY DEF Init, TableInit, RowShape, NoRow
<1> QED
  BY <1>1, <1>2, <1>3, <1>4, <1>5, <1>6, <1>7, <1>8 DEF TypeInv, TypeOK, Shape

-----------------------------------------------------------------------------
(* The types of Executions hold in every reachable state: in particular no *)
(* thread ever works on a row that is not there or for a hook that has no  *)
(* name, and a successor is only ever started for a handoff with a target. *)
THEOREM TypeCorrect == Spec => []TypeOK
<1>1. Init => TypeInv
  BY InitType
<1>2. TypeInv /\ [Next]_vars => TypeInv'
  BY StepType DEF Kept
<1> QED
  BY <1>1, <1>2, PTL DEF Spec, TypeInv

-----------------------------------------------------------------------------
(* Part 2. Admission, slots and the wait group.                            *)
(* Admission is exclusive: that a hook in flight is held by exactly one    *)
(* thread is inductive only together with what keeps a launch from         *)
(* overwriting another worker: the execution about to be launched has an   *)
(* idle worker and no second launcher.                                     *)

(* Thread t is about to start the worker of execution e.                   *)
Launches(t, e) ==
    \/ thread[t].pc = "launch" /\ thread[t].exec = e
    \/ thread[t].pc = "launchChild" /\ thread[t].child = e

FreshLaunch ==
    \A t \in Thread, e \in ExecId :
        Launches(t, e) => /\ thread[e].pc = "idle"
                          /\ \A u \in Thread : Launches(u, e) => u = t

FlightInv ==
    /\ \A h \in inFlight : \E t \in Thread : Holds(t, h)
    /\ \A t \in Thread, h \in Hook : Holds(t, h) => h \in inFlight
    /\ \A t, u \in Thread, h \in Hook : Holds(t, h) /\ Holds(u, h) => t = u

CapacityInv == IsFiniteSet(inFlight) /\ Cardinality(inFlight) <= Capacity

SafeInv == FlightInv /\ CapacityInv /\ FreshLaunch

-----------------------------------------------------------------------------
(* What a step leaves alone.                                               *)

(* A thread that does not move holds what it held: the hook of a row that  *)
(* is in the table never changes.                                          *)
LEMMA StillHolds ==
    ASSUME TypeInv, RowsGrow, NEW u \in Thread, thread'[u] = thread[u], NEW h \in Hook
    PROVE  Holds(u, h)' <=> Holds(u, h)
<1>1. thread[u].pc = "launchChild" => rows'[thread[u].child].hook = rows[thread[u].child].hook
  BY DEF TypeInv, Shape, ThreadShape, LocalShape, RowsGrow
<1> QED
  BY <1>1 DEF Holds

(* Only the thread that moves may come to launch, and only a new row.      *)
LEMMA FreshKept ==
    ASSUME TypeInv, FreshLaunch, NEW t \in Thread,
           \A u \in Thread \ {t} : thread'[u] = thread[u],
           thread[t].pc # "idle" \/ t \notin ExecId,
           \A e \in ExecId : Launches(t, e)' => e = nextId
    PROVE  FreshLaunch'
<1> SUFFICES ASSUME NEW v \in Thread, NEW e \in ExecId, Launches(v, e)'
             PROVE  /\ thread'[e].pc = "idle"
                    /\ \A u \in Thread : Launches(u, e)' => u = v
  BY DEF FreshLaunch
<1>1. \A u \in Thread \ {t} : Launches(u, e)' => Launches(u, e)
  BY DEF Launches
<1>2. \A u \in Thread : Launches(u, e) => e < nextId /\ thread[e].pc = "idle"
  BY DEF FreshLaunch, Launches, TypeInv, Shape, ThreadShape, LocalShape, RowPc
<1>3. e = nextId => thread[e].pc = "idle"
  BY DEF TypeInv, TypeOK, TableTypeOK, Shape, ThreadShape, LocalShape, Thread, ExecId
<1>4. thread[e].pc = "idle" /\ e # t
  BY <1>1, <1>2, <1>3
<1>5. thread'[e].pc = "idle"
  BY <1>4 DEF Thread
<1>6. ASSUME NEW u \in Thread, Launches(u, e)' PROVE u = v
  <2>1. e = nextId => u = t /\ v = t
    BY <1>1, <1>2, <1>6 DEF ExecId
  <2>2. e # nextId => Launches(u, e) /\ Launches(v, e)
    BY <1>1, <1>6
  <2> QED
    BY <2>1, <2>2 DEF FreshLaunch
<1> QED
  BY <1>5, <1>6

(* The thread that moves keeps what it holds, or holds nothing either way. *)
LEMMA HoldingKept ==
    ASSUME TypeInv, RowsGrow, SafeInv, NEW t \in Thread, UNCHANGED inFlight,
           \A u \in Thread \ {t} : thread'[u] = thread[u],
           thread[t].pc # "idle" \/ t \notin ExecId,
           \A e \in ExecId : Launches(t, e)' => e = nextId,
           \A h \in Hook : Holds(t, h)' <=> Holds(t, h)
    PROVE  SafeInv'
<1>1. FreshLaunch'
  BY FreshKept DEF SafeInv
<1>2. \A u \in Thread, h \in Hook : Holds(u, h)' <=> Holds(u, h)
  BY StillHolds
<1>3. inFlight \subseteq Hook
  BY DEF TypeInv, TypeOK, RunnerTypeOK
<1> QED
  BY <1>1, <1>2, <1>3 DEF SafeInv, FlightInv, CapacityInv
(* Admission: the thread that moves comes to hold a hook nobody held.      *)
LEMMA HoldingGained ==
    ASSUME TypeInv, RowsGrow, SafeInv, NEW t \in Thread, NEW h \in Hook, Admit(h),
           \A u \in Thread \ {t} : thread'[u] = thread[u],
           thread[t].pc # "idle" \/ t \notin ExecId,
           \A e \in ExecId : Launches(t, e)' => e = nextId,
           \A g \in Hook : ~Holds(t, g),
           \A g \in Hook : Holds(t, g)' <=> g = h
    PROVE  SafeInv'
<1>1. FreshLaunch'
  BY FreshKept DEF SafeInv
<1>2. /\ h \notin inFlight /\ inFlight' = inFlight \cup {h}
      /\ Cardinality(inFlight) < Capacity
  BY DEF Admit, CanAdmit
<1>3. \A u \in Thread \ {t}, g \in Hook : Holds(u, g)' <=> Holds(u, g)
  BY StillHolds
<1>4. FlightInv'
  <2>1. inFlight \subseteq Hook
    BY DEF TypeInv, TypeOK, RunnerTypeOK
  <2>2. \A g \in inFlight' : \E u \in Thread : Holds(u, g)'
    <3> SUFFICES ASSUME NEW g \in inFlight' PROVE \E u \in Thread : Holds(u, g)'
      OBVIOUS
    <3>1. CASE g = h
      BY <3>1
    <3>2. CASE g \in inFlight
      <4>1. PICK u \in Thread : Holds(u, g)
        BY <3>2 DEF SafeInv, FlightInv
      <4>2. u # t /\ g \in Hook
        BY <2>1, <3>2, <4>1
      <4> QED
        BY <1>3, <4>1, <4>2
    <3> QED
      BY <1>2, <3>1, <3>2
  <2>3. \A u \in Thread, g \in Hook : Holds(u, g)' => g \in inFlight'
    BY <1>2, <1>3 DEF SafeInv, FlightInv
  <2>4. \A u, v \in Thread, g \in Hook : Holds(u, g)' /\ Holds(v, g)' => u = v
    BY <1>2, <1>3 DEF SafeInv, FlightInv
  <2> QED
    BY <2>2, <2>3, <2>4 DEF FlightInv
<1>5. CapacityInv'
  <2>1. IsFiniteSet(inFlight) /\ Cardinality(inFlight) \in Nat
    BY FS_CardinalityType DEF SafeInv, CapacityInv
  <2>2. /\ IsFiniteSet(inFlight \cup {h})
        /\ Cardinality(inFlight \cup {h}) = Cardinality(inFlight) + 1
    BY <1>2, <2>1, FS_AddElement
  <2> QED
    BY <1>2, <2>1, <2>2, CapacityAssumption DEF CapacityInv, Capacity
<1> QED
  BY <1>1, <1>4, <1>5 DEF SafeInv

(* Release: the thread that moves gives back the hook it held.             *)
LEMMA HoldingLost ==
    ASSUME TypeInv, RowsGrow, SafeInv, NEW t \in Thread, NEW h \in Hook, Release(h),
           \A u \in Thread \ {t} : thread'[u] = thread[u],
           thread[t].pc # "idle" \/ t \notin ExecId,
           \A e \in ExecId : Launches(t, e)' => e = nextId,
           \A g \in Hook : Holds(t, g) <=> g = h,
           \A g \in Hook : ~Holds(t, g)'
    PROVE  SafeInv'
<1>1. FreshLaunch'
  BY FreshKept DEF SafeInv
<1>2. inFlight' = inFlight \ {h} /\ inFlight \subseteq Hook
  BY DEF Release, TypeInv, TypeOK, RunnerTypeOK
<1>3. \A u \in Thread \ {t}, g \in Hook : Holds(u, g)' <=> Holds(u, g)
  BY StillHolds
<1>4. FlightInv'
  <2>1. \A g \in inFlight' : \E u \in Thread : Holds(u, g)'
    <3> SUFFICES ASSUME NEW g \in inFlight' PROVE \E u \in Thread : Holds(u, g)'
      OBVIOUS
    <3>1. g \in Hook /\ g \in inFlight /\ g # h
      BY <1>2
    <3>2. PICK u \in Thread : Holds(u, g)
      BY <3>1 DEF SafeInv, FlightInv
    <3>3. u # t
      BY <3>1, <3>2
    <3> QED
      BY <1>3, <3>1, <3>2, <3>3
  <2>2. \A u \in Thread, g \in Hook : Holds(u, g)' => g \in inFlight'
    BY <1>2, <1>3 DEF SafeInv, FlightInv
  <2>3. \A u, v \in Thread, g \in Hook : Holds(u, g)' /\ Holds(v, g)' => u = v
    BY <1>3 DEF SafeInv, FlightInv
  <2> QED
    BY <2>1, <2>2, <2>3 DEF FlightInv
<1>5. CapacityInv'
  <2>1. IsFiniteSet(inFlight)
    BY DEF SafeInv, CapacityInv
  <2>2. /\ IsFiniteSet(inFlight \ {h})
        /\ Cardinality(inFlight \ {h}) <= Cardinality(inFlight)
    BY <2>1, FS_Subset
  <2>3. Cardinality(inFlight) \in Nat /\ Cardinality(inFlight \ {h}) \in Nat
    BY <2>1, <2>2, FS_CardinalityType
  <2> QED
    BY <1>2, <2>2, <2>3, CapacityAssumption DEF SafeInv, CapacityInv, Capacity
<1> QED
  BY <1>1, <1>4, <1>5 DEF SafeInv

(* Launch: the admission passes from the launching thread to the worker.   *)
LEMMA HoldingPassed ==
    ASSUME TypeInv, RowsGrow, SafeInv, NEW t \in Thread, NEW h \in Hook, NEW e \in ExecId,
           Launches(t, e), Holds(t, h), UNCHANGED inFlight,
           thread' = [thread EXCEPT ![t] = After(t), ![e] = Worker(h, e)]
    PROVE  SafeInv'
<1>1. thread[e].pc = "idle" /\ thread[t].pc \in {"launch", "launchChild"} /\ e # t
  BY DEF SafeInv, FreshLaunch, Launches
<1>2. e \in Thread /\ thread \in [Thread -> Local]
  BY DEF Thread, TypeInv, TypeOK
<1>3. /\ thread'[t] = After(t) /\ thread'[e] = Worker(h, e)
      /\ \A u \in Thread \ {t, e} : thread'[u] = thread[u]
  BY <1>1, <1>2
<1>4. /\ Worker(h, e).pc = "start" /\ Worker(h, e).hook = h
      /\ After(t).pc \in {"idle", "handoffDone"}
  BY DEF Worker, After, Idle
<1> HIDE DEF After, Worker
<1>5. \A u \in Thread \ {t, e}, g \in Hook : Holds(u, g)' <=> Holds(u, g)
  BY <1>3, StillHolds
<1>6. \A g \in Hook : ~Holds(t, g)' /\ (Holds(e, g)' <=> g = h) /\ ~Holds(e, g)
  BY <1>1, <1>3, <1>4 DEF Holds, OwnPc
<1>7. \A g \in Hook : Holds(t, g) => g = h
  BY <1>1 DEF Holds, OwnPc
<1>8. FreshLaunch'
  <2> SUFFICES ASSUME NEW v \in Thread, NEW f \in ExecId, Launches(v, f)'
               PROVE  /\ thread'[f].pc = "idle"
                      /\ \A u \in Thread : Launches(u, f)' => u = v
    BY DEF FreshLaunch
  <2>1. \A u \in Thread, q \in ExecId : Launches(u, q)' => u \notin {t, e} /\ Launches(u, q)
    BY <1>3, <1>4 DEF Launches
  <2>2. /\ v \notin {t, e} /\ thread[f].pc = "idle"
        /\ \A u \in Thread : Launches(u, f) => u = v
    BY <2>1 DEF SafeInv, FreshLaunch
  <2>3. f # e /\ f # t
    BY <1>1, <2>2
  <2> QED
    BY <1>3, <2>1, <2>2, <2>3 DEF Thread
<1>9. FlightInv'
  <2>1. inFlight \subseteq Hook
    BY DEF TypeInv, TypeOK, RunnerTypeOK
  <2>2. \A g \in inFlight : \E u \in Thread : Holds(u, g)'
    <3> SUFFICES ASSUME NEW g \in inFlight PROVE \E u \in Thread : Holds(u, g)'
      OBVIOUS
    <3>1. PICK u \in Thread : Holds(u, g)
      BY DEF SafeInv, FlightInv
    <3>2. CASE u = t
      BY <1>2, <1>6, <1>7, <2>1, <3>1, <3>2
    <3>3. CASE u # t
      <4>1. u # e /\ g \in Hook
        BY <1>6, <2>1, <3>1
      <4> QED
        BY <1>5, <3>1, <3>3, <4>1
    <3> QED
      BY <3>2, <3>3
  <2>3. \A u \in Thread, g \in Hook : Holds(u, g)' => g \in inFlight
    BY <1>5, <1>6 DEF SafeInv, FlightInv
  <2>4. \A u, v \in Thread, g \in Hook : Holds(u, g)' /\ Holds(v, g)' => u = v
    <3> SUFFICES ASSUME NEW u \in Thread, NEW v \in Thread, NEW g \in Hook,
                        Holds(u, g)', Holds(v, g)'
                 PROVE  u = v
      OBVIOUS
    <3>1. u # t /\ v # t
      BY <1>6
    <3>2. CASE g = h
      <4>1. \A w \in Thread : Holds(w, h) => w = t
        BY DEF SafeInv, FlightInv
      <4> QED
        BY <1>5, <3>1, <3>2, <4>1
    <3>3. CASE g # h
      BY <1>5, <1>6, <3>1, <3>3 DEF SafeInv, FlightInv
    <3> QED
      BY <3>2, <3>3
  <2> QED
    BY <2>2, <2>3, <2>4 DEF FlightInv
<1> QED
  BY <1>8, <1>9 DEF SafeInv, CapacityInv
-----------------------------------------------------------------------------
(* Every action keeps SafeInv.                                             *)

(* The pcs at which a thread holds no admission.                           *)
FreePc == {"idle", "admit", "insertSync", "runSync", "finishSync", "dispatch",
           "recordFailure", "handoffDone"}

(* A thread that moves, in one of the ways that pass no admission on.      *)
LEMMA FreeMove ==
    ASSUME TypeInv, RowsGrow, SafeInv, NEW t \in Thread, NEW l, UNCHANGED inFlight,
           thread' = [thread EXCEPT ![t] = l],
           thread[t].pc # "idle" \/ t \in Req,
           thread[t].pc \in FreePc, l.pc \in FreePc
    PROVE  SafeInv'
<1>1. thread'[t] = l /\ \A u \in Thread \ {t} : thread'[u] = thread[u]
  BY DEF TypeInv, TypeOK
<1>2. \A h \in Hook : ~Holds(t, h)' /\ ~Holds(t, h)
  BY <1>1 DEF Holds, FreePc, OwnPc
<1>3. \A e \in ExecId : ~Launches(t, e)'
  BY <1>1 DEF Launches, FreePc
<1> QED
  BY <1>1, <1>2, <1>3, HoldingKept, ThreadAssumption

LEMMA OwnMove ==
    ASSUME TypeInv, RowsGrow, SafeInv, NEW t \in Thread, NEW l, UNCHANGED inFlight,
           thread' = [thread EXCEPT ![t] = l],
           thread[t].pc \in OwnPc, l.pc \in OwnPc, l.hook = thread[t].hook,
           l.pc = "launch" => l.exec = nextId
    PROVE  SafeInv'
<1>1. thread'[t] = l /\ \A u \in Thread \ {t} : thread'[u] = thread[u]
  BY DEF TypeInv, TypeOK
<1>2. \A h \in Hook : Holds(t, h)' <=> Holds(t, h)
  BY <1>1 DEF Holds, OwnPc
<1>3. \A e \in ExecId : Launches(t, e)' => e = nextId
  BY <1>1 DEF Launches, OwnPc
<1>4. thread[t].pc # "idle"
  BY DEF OwnPc
<1> QED
  BY <1>1, <1>2, <1>3, <1>4, HoldingKept

LEMMA NoMove ==
    ASSUME TypeInv, RowsGrow, SafeInv, UNCHANGED <<thread, inFlight>>
    PROVE  SafeInv'
<1>1. \A u \in Thread, h \in Hook : Holds(u, h)' <=> Holds(u, h)
  BY StillHolds
<1>2. inFlight \subseteq Hook
  BY DEF TypeInv, TypeOK, RunnerTypeOK
<1> QED
  BY <1>1, <1>2 DEF SafeInv, FlightInv, CapacityInv, FreshLaunch, Launches

(* Giving an admission back, and ending or going on without it.            *)
LEMMA ReleaseMove ==
    ASSUME TypeInv, RowsGrow, SafeInv, NEW t \in Thread, NEW l,
           thread[t].pc \in OwnPc, Release(thread[t].hook),
           thread' = [thread EXCEPT ![t] = l], l.pc \in FreePc
    PROVE  SafeInv'
<1>1. thread'[t] = l /\ \A u \in Thread \ {t} : thread'[u] = thread[u]
  BY DEF TypeInv, TypeOK
<1>2. PICK h \in Hook : h = thread[t].hook
  BY DEF TypeInv, Shape, ThreadShape, LocalShape, HookPc
<1>3. \A g \in Hook : (Holds(t, g) <=> g = h) /\ ~Holds(t, g)'
  BY <1>1, <1>2 DEF Holds, FreePc, OwnPc
<1>4. \A e \in ExecId : ~Launches(t, e)'
  BY <1>1 DEF Launches, FreePc
<1>5. thread[t].pc # "idle" /\ Release(h)
  BY <1>2 DEF OwnPc
<1> QED
  BY <1>1, <1>3, <1>4, <1>5, HoldingLost

LEMMA DoneMove ==
    ASSUME TypeInv, RowsGrow, SafeInv, NEW t \in Thread, UNCHANGED inFlight, Done(t),
           thread[t].pc \in FreePc \ {"idle"}
    PROVE  SafeInv'
<1>1. After(t).pc \in FreePc
  BY DEF After, Idle, FreePc
<1> QED
  BY <1>1, FreeMove DEF Done

LEMMA GotoFree ==
    ASSUME TypeInv, RowsGrow, SafeInv, NEW t \in Thread, UNCHANGED inFlight,
           NEW pc \in FreePc, Goto(t, pc), thread[t].pc \in FreePc \ {"idle"}
    PROVE  SafeInv'
<1> DEFINE l == [thread[t] EXCEPT !.pc = pc]
<1>1. l.pc = pc /\ thread' = [thread EXCEPT ![t] = l]
  BY DEF Goto, TypeInv, TypeOK, Local
<1> HIDE DEF l
<1> QED
  BY <1>1, FreeMove

LEMMA GotoOwn ==
    ASSUME TypeInv, RowsGrow, SafeInv, NEW t \in Thread, UNCHANGED inFlight,
           NEW pc \in OwnPc \ {"launch"}, Goto(t, pc), thread[t].pc \in OwnPc
    PROVE  SafeInv'
<1> DEFINE l == [thread[t] EXCEPT !.pc = pc]
<1>1. l.pc = pc /\ l.hook = thread[t].hook /\ thread' = [thread EXCEPT ![t] = l]
  BY DEF Goto, TypeInv, TypeOK, Local
<1> HIDE DEF l
<1> QED
  BY <1>1, OwnMove

LEMMA LaunchMove ==
    ASSUME TypeInv, RowsGrow, SafeInv, NEW t \in Thread, NEW h \in Hook, NEW e \in ExecId,
           Launches(t, e), Holds(t, h), LaunchHook(t, h, e)
    PROVE  SafeInv'
BY HoldingPassed DEF LaunchHook

LEMMA ReqSafe ==
    ASSUME TypeInv, RowsGrow, SafeInv, NEW r \in Req,
           Arrive(r) \/ SyncStep(r) \/ AsyncStep(r)
    PROVE  SafeInv'
<1>0. r \in Thread /\ thread[r] \in Local
  BY DEF Thread, TypeInv, TypeOK
<1>1. ASSUME NEW h \in Hook, Load(r, h) PROVE SafeInv'
  <2> DEFINE l == [Idle EXCEPT !.pc = IF hooks[h].async THEN "admit" ELSE "insertSync",
                               !.hook = h, !.succ = hooks[h].succ]
  <2>1. l.pc \in FreePc
    BY DEF Idle, FreePc
  <2>2. thread' = [thread EXCEPT ![r] = l] /\ thread[r].pc \in FreePc /\ UNCHANGED inFlight
    BY <1>1 DEF Load, At, FreePc, process
  <2> HIDE DEF l
  <2> QED
    BY <1>0, <2>1, <2>2, FreeMove
<1>2. ASSUME NEW h \in Hook, RejectAuth(r, h) PROVE SafeInv'
  BY <1>2, NoMove DEF RejectAuth, process
<1>3. ASSUME NEW p \in ExecId, NEW a \in 1..MaxAttempt, RetrySuccessor(r, p, a)
      PROVE  SafeInv'
  <2> DEFINE l == [Idle EXCEPT !.pc = "dispatch", !.exec = p]
  <2>1. l.pc \in FreePc
    BY DEF Idle, FreePc
  <2>2. thread' = [thread EXCEPT ![r] = l] /\ thread[r].pc \in FreePc /\ UNCHANGED inFlight
    BY <1>3 DEF RetrySuccessor, At, FreePc, process
  <2> HIDE DEF l
  <2> QED
    BY <1>0, <2>1, <2>2, FreeMove
<1>4. CASE AdmitAsync(r)
  <2>1. PICK h \in Hook : h = thread[r].hook
    BY <1>4 DEF AdmitAsync, At, TypeInv, Shape, ThreadShape, LocalShape, HookPc, Thread
  <2>2. /\ thread[r].pc = "admit" /\ Admit(h)
        /\ thread' = [thread EXCEPT ![r] = [thread[r] EXCEPT !.pc = "insert"]]
    BY <1>4, <2>1 DEF AdmitAsync, At, Goto
  <2>3. /\ thread'[r].pc = "insert" /\ thread'[r].hook = h
        /\ \A u \in Thread \ {r} : thread'[u] = thread[u]
    BY <1>0, <2>1, <2>2 DEF TypeInv, TypeOK, Local
  <2>4. \A g \in Hook : ~Holds(r, g) /\ (Holds(r, g)' <=> g = h)
    BY <2>2, <2>3 DEF Holds, OwnPc
  <2>5. \A e \in ExecId : ~Launches(r, e)'
    BY <2>3 DEF Launches
  <2>6. thread[r].pc # "idle"
    BY <2>2
  <2> QED
    BY <1>0, <2>2, <2>3, <2>4, <2>5, <2>6, HoldingGained
<1>5. CASE RefuseAsync(r) \/ InsertRunningFails(r) \/ RunSyncPanics(r)
  BY <1>0, <1>5, DoneMove
  DEF RefuseAsync, InsertRunningFails, RunSyncPanics, At, FreePc, process
<1>6. CASE InsertQueued(r)
  <2> DEFINE l == [thread[r] EXCEPT !.pc = "launch", !.exec = nextId]
  <2>1. l.pc = "launch" /\ l.hook = thread[r].hook /\ l.exec = nextId
    BY <1>0 DEF Local
  <2>2. /\ thread' = [thread EXCEPT ![r] = l] /\ thread[r].pc \in OwnPc
        /\ UNCHANGED inFlight
    BY <1>6 DEF InsertQueued, At, OwnPc, process
  <2> HIDE DEF l
  <2> QED
    BY <1>0, <2>1, <2>2, OwnMove DEF OwnPc
<1>7. CASE InsertQueuedFails(r)
  <2>1. After(r).pc \in FreePc
    BY DEF After, Idle, FreePc
  <2>2. /\ thread[r].pc \in OwnPc /\ Release(thread[r].hook)
        /\ thread' = [thread EXCEPT ![r] = After(r)]
    BY <1>7 DEF InsertQueuedFails, At, Done, OwnPc
  <2> QED
    BY <1>0, <2>1, <2>2, ReleaseMove
<1>8. CASE Launch(r)
  <2>1. thread[r].pc = "launch" /\ LaunchHook(r, thread[r].hook, thread[r].exec)
    BY <1>8 DEF Launch, At
  <2>2. thread[r].hook \in Hook /\ thread[r].exec \in ExecId
    BY <1>0, <2>1 DEF TypeInv, Shape, ThreadShape, LocalShape, HookPc, OwnPc, RowPc
  <2>3. PICK h \in Hook : h = thread[r].hook
    BY <2>2
  <2>4. PICK e \in ExecId : e = thread[r].exec
    BY <2>2
  <2>5. Launches(r, e) /\ Holds(r, h) /\ LaunchHook(r, h, e)
    BY <2>1, <2>3, <2>4 DEF Launches, Holds, OwnPc
  <2> QED
    BY <1>0, <2>5, LaunchMove
<1>9. CASE InsertRunning(r)
  <2> DEFINE l == [thread[r] EXCEPT !.pc = "runSync", !.exec = nextId]
  <2>1. l.pc \in FreePc
    BY <1>0 DEF Local, FreePc
  <2>2. thread' = [thread EXCEPT ![r] = l] /\ thread[r].pc \in FreePc /\ UNCHANGED inFlight
    BY <1>9 DEF InsertRunning, At, FreePc, process
  <2> HIDE DEF l
  <2> QED
    BY <1>0, <2>1, <2>2, FreeMove
<1>10. ASSUME NEW s \in Outcome, RunSync(r, s) PROVE SafeInv'
  <2> DEFINE l == [thread[r] EXCEPT !.pc = "finishSync", !.result = s]
  <2>1. l.pc \in FreePc
    BY <1>0 DEF Local, FreePc
  <2>2. thread' = [thread EXCEPT ![r] = l] /\ thread[r].pc \in FreePc /\ UNCHANGED inFlight
    BY <1>10 DEF RunSync, At, FreePc, process
  <2> HIDE DEF l
  <2> QED
    BY <1>0, <2>1, <2>2, FreeMove
<1>11. CASE FinishSync(r)
  BY <1>0, <1>11, GotoFree DEF FinishSync, At, FreePc, process
<1> QED
  BY <1>1, <1>2, <1>3, <1>4, <1>5, <1>6, <1>7, <1>8, <1>9, <1>10, <1>11
  DEF Arrive, SyncStep, AsyncStep

LEMMA WorkerSafe ==
    ASSUME TypeInv, RowsGrow, SafeInv, NEW w \in ExecId,
           \/ Acquire(w) \/ Abandon(w) \/ EndCanceled(w) \/ BeginRun(w) \/ FinishRun(w)
           \/ ReturnSlot(w) \/ LogPanic(w) \/ DropCancel(w) \/ ReleaseAdmission(w)
           \/ EndHandoff(w) \/ ExecutePanics(w) \/ \E s \in Outcome : Execute(w, s)
    PROVE  SafeInv'
<1>0. w \in Thread /\ thread[w] \in Local
  BY DEF Thread, TypeInv, TypeOK
<1>1. CASE Acquire(w) \/ Abandon(w) \/ EndCanceled(w) \/ BeginRun(w) \/ FinishRun(w)
           \/ ReturnSlot(w) \/ LogPanic(w) \/ DropCancel(w)
  <2>1. /\ thread[w].pc \in OwnPc /\ UNCHANGED inFlight
        /\ \E pc \in OwnPc \ {"launch"} : Goto(w, pc)
    BY <1>1 DEF Acquire, Abandon, EndCanceled, BeginRun, FinishRun, ReturnSlot, LogPanic,
                DropCancel, At, OwnPc, process, admission
  <2> QED
    BY <1>0, <2>1, GotoOwn
<1>2. CASE ReleaseAdmission(w)
  <2> DEFINE l == [Idle EXCEPT !.pc = "dispatch", !.exec = w]
  <2>1. l.pc \in FreePc
    BY DEF Idle, FreePc
  <2>2. /\ thread[w].pc \in OwnPc /\ Release(thread[w].hook)
        /\ thread' = [thread EXCEPT ![w] = l]
    BY <1>2 DEF ReleaseAdmission, At, OwnPc
  <2> HIDE DEF l
  <2> QED
    BY <1>0, <2>1, <2>2, ReleaseMove
<1>3. CASE EndHandoff(w)
  <2>1. /\ thread[w].pc = "handoffDone" /\ thread' = [thread EXCEPT ![w] = Idle]
        /\ UNCHANGED inFlight /\ Idle.pc \in FreePc
    BY <1>3 DEF EndHandoff, At, Idle, FreePc
  <2> QED
    BY <1>0, <2>1, FreeMove DEF FreePc
<1>4. CASE ExecutePanics(w)
  <2> DEFINE l == [thread[w] EXCEPT !.pc = "finishSlot", !.result = "panic"]
  <2>1. l.pc = "finishSlot" /\ l.hook = thread[w].hook
    BY <1>0 DEF Local
  <2>2. /\ thread' = [thread EXCEPT ![w] = l] /\ thread[w].pc \in OwnPc
        /\ UNCHANGED inFlight
    BY <1>4 DEF ExecutePanics, At, OwnPc, process
  <2> HIDE DEF l
  <2> QED
    BY <1>0, <2>1, <2>2, OwnMove DEF OwnPc
<1>5. ASSUME NEW s \in Outcome, Execute(w, s) PROVE SafeInv'
  <2> DEFINE l == [thread[w] EXCEPT !.pc = "finish", !.result = s]
  <2>1. l.pc = "finish" /\ l.hook = thread[w].hook
    BY <1>0 DEF Local
  <2>2. /\ thread' = [thread EXCEPT ![w] = l] /\ thread[w].pc \in OwnPc
        /\ UNCHANGED inFlight
    BY <1>5 DEF Execute, At, OwnPc, process
  <2> HIDE DEF l
  <2> QED
    BY <1>0, <2>1, <2>2, OwnMove DEF OwnPc
<1> QED
  BY <1>1, <1>2, <1>3, <1>4, <1>5

(* The successor runs the hook its parent's row names.                     *)
LEMMA CommitRow ==
    ASSUME TypeInv, NEW t \in Thread, DispatchCommit(t), NEW h \in Hook,
           h = rows[Parent(t)].target, Parent(t) \in ExecId, Parent(t) < nextId
    PROVE  rows'[nextId].hook = h
<1> DEFINE p == Parent(t)
<1>1. nextId \in ExecId /\ p # nextId /\ InsertSuccessor(p, hooks[h].succ)
  BY DEF DispatchCommit, InsertSuccessor, HasRoom, TypeInv, TypeOK, TableTypeOK, ExecId
<1> DEFINE child == NewRow(h, "queued", p, rows[p].path \cup {h}, hooks[h].succ)
           parent == [rows[p] EXCEPT !.handoff = "dispatched", !.child = nextId]
<1>2. rows' = [[rows EXCEPT ![nextId] = child] EXCEPT ![p] = parent]
  BY <1>1 DEF InsertSuccessor, TypeInv, TypeOK, TableTypeOK
<1>3. child.hook = h
  BY DEF NewRow, NoRow
<1> HIDE DEF child, parent
<1> QED
  BY <1>1, <1>2, <1>3 DEF TypeInv, TypeOK, TableTypeOK

LEMMA DispatchSafe ==
    ASSUME TypeInv, TypeInv', RowsGrow, SafeInv, NEW t \in Thread, Dispatch(t)
    PROVE  SafeInv'
<1>0. thread[t] \in Local
  BY DEF TypeInv, TypeOK
<1>1. CASE DispatchNothing(t) \/ RecordFailure(t)
  BY <1>1, DoneMove DEF DispatchNothing, RecordFailure, At, FreePc, process
<1>2. CASE DispatchRefused(t) \/ DispatchFails(t)
  BY <1>2, GotoFree DEF DispatchRefused, DispatchFails, At, FreePc, process
<1>3. CASE DispatchCommit(t)
  <2> DEFINE p == Parent(t)
             l == [thread[t] EXCEPT !.pc = "launchChild", !.child = nextId]
  <2>1. /\ thread[t].pc = "dispatch" /\ thread' = [thread EXCEPT ![t] = l]
        /\ Admit(rows[p].target) /\ InsertSuccessor(p, hooks[rows[p].target].succ)
        /\ Pending(p)
    BY <1>3 DEF DispatchCommit, At
  <2>2. p \in ExecId /\ p < nextId
    BY <2>1 DEF TypeInv, Shape, ThreadShape, LocalShape, RowPc, Parent
  <2>3. PICK h \in Hook : h = rows[p].target
    BY <2>1, <2>2 DEF TypeInv, Shape, RowShape, Pending
  <2>4. l.pc = "launchChild" /\ l.child = nextId
    BY <1>0 DEF Local
  <2>5. rows'[nextId].hook = h
    BY <1>3, <2>1, <2>2, <2>3, CommitRow
  <2> HIDE DEF l, p
  <2>6. thread'[t] = l /\ \A u \in Thread \ {t} : thread'[u] = thread[u]
    BY <2>1 DEF TypeInv, TypeOK
  <2>7. \A g \in Hook : ~Holds(t, g) /\ (Holds(t, g)' <=> g = h)
    BY <2>1, <2>4, <2>5, <2>6 DEF Holds, OwnPc
  <2>8. \A e \in ExecId : Launches(t, e)' => e = nextId
    BY <2>4, <2>6 DEF Launches
  <2>9. Admit(h) /\ thread[t].pc # "idle"
    BY <2>1, <2>3
  <2> QED
    BY <2>6, <2>7, <2>8, <2>9, HoldingGained
<1>4. CASE LaunchChild(t)
  <2>1. /\ thread[t].pc = "launchChild"
        /\ LaunchHook(t, rows[thread[t].child].hook, thread[t].child)
    BY <1>4 DEF LaunchChild, At
  <2>2. rows[thread[t].child].hook \in Hook /\ thread[t].child \in ExecId
    BY <2>1 DEF TypeInv, Shape, ThreadShape, LocalShape
  <2>3. PICK h \in Hook : h = rows[thread[t].child].hook
    BY <2>2
  <2>4. PICK e \in ExecId : e = thread[t].child
    BY <2>2
  <2>5. Launches(t, e) /\ Holds(t, h) /\ LaunchHook(t, h, e)
    BY <2>1, <2>3, <2>4 DEF Launches, Holds
  <2> QED
    BY <2>5, LaunchMove
<1> QED
  BY <1>1, <1>2, <1>3, <1>4 DEF Dispatch

LEMMA OutsideSafe ==
    ASSUME TypeInv, RowsGrow, SafeInv,
           Crash \/ Restart \/ EditHooks \/ \E e \in ExecId : Cancel(e)
    PROVE  SafeInv'
<1>1. CASE Crash
  <2>1. inFlight' = {} /\ thread' = [t \in Thread |-> Idle]
    BY <1>1 DEF Crash, Reset
  <2>2. \A t \in Thread : thread'[t].pc = "idle"
    BY <2>1 DEF Idle
  <2>3. \A t \in Thread : /\ \A h \in Hook : ~Holds(t, h)'
                          /\ \A e \in ExecId : ~Launches(t, e)'
    BY <2>2 DEF Holds, Launches, OwnPc
  <2>4. CapacityInv'
    BY <2>1, FS_EmptySet, CapacityAssumption DEF CapacityInv, Capacity
  <2> QED
    BY <2>1, <2>3, <2>4 DEF SafeInv, FlightInv, FreshLaunch
<1>2. CASE Restart \/ EditHooks \/ \E e \in ExecId : Cancel(e)
  BY <1>2, NoMove DEF Restart, EditHooks, Cancel, process, admission
<1> QED
  BY <1>1, <1>2

LEMMA SafeInit ==
    ASSUME Init
    PROVE  SafeInv
<1>1. inFlight = {} /\ thread = [t \in Thread |-> Idle]
  BY DEF Init, RunnerInit
<1>2. \A t \in Thread : thread[t].pc = "idle"
  BY <1>1 DEF Idle
<1>3. CapacityInv
  BY <1>1, FS_EmptySet, CapacityAssumption DEF CapacityInv, Capacity
<1> QED
  BY <1>1, <1>2, <1>3 DEF SafeInv, FlightInv, FreshLaunch, Launches, Holds, OwnPc

LEMMA SafeStep ==
    ASSUME TypeInv, SafeInv, [Next]_vars
    PROVE  SafeInv'
<1>1. TypeInv' /\ RowsGrow
  BY StepType DEF Kept
<1>2. CASE UNCHANGED vars
  BY <1>1, <1>2, NoMove DEF vars
<1>3. ASSUME NEW r \in Req, Arrive(r) \/ ReqStep(r) PROVE SafeInv'
  BY <1>1, <1>3, ReqSafe, DispatchSafe DEF ReqStep, Thread
<1>4. ASSUME NEW w \in ExecId,
             \/ Acquire(w) \/ WorkerStep(w) \/ Cancel(w)
             \/ (\E s \in Outcome : Execute(w, s)) \/ ExecutePanics(w)
      PROVE  SafeInv'
  BY <1>1, <1>4, WorkerSafe, DispatchSafe, OutsideSafe DEF WorkerStep, Thread
<1>5. CASE EditHooks \/ Crash \/ Restart
  BY <1>1, <1>5, OutsideSafe
<1> QED
  BY <1>2, <1>3, <1>4, <1>5 DEF Next

-----------------------------------------------------------------------------
(* What an action does to the thread that takes it, field by field.        *)

Alone(t) == \A u \in Thread \ {t} : thread'[u] = thread[u]
SameWork(t) ==
    /\ thread'[t].hook = thread[t].hook /\ thread'[t].exec = thread[t].exec
    /\ thread'[t].child = thread[t].child /\ thread'[t].result = thread[t].result

LEMMA SetFacts ==
    ASSUME TypeInv, NEW t \in Thread, NEW l, thread' = [thread EXCEPT ![t] = l]
    PROVE  thread'[t] = l /\ Alone(t)
BY DEF TypeInv, TypeOK, Alone

LEMMA GotoFacts ==
    ASSUME TypeInv, NEW t \in Thread, NEW pc, Goto(t, pc)
    PROVE  thread'[t].pc = pc /\ SameWork(t) /\ Alone(t)
<1> DEFINE l == [thread[t] EXCEPT !.pc = pc]
<1>1. thread[t] \in Local
  BY DEF TypeInv, TypeOK
<1>2. /\ l.pc = pc /\ l.hook = thread[t].hook /\ l.exec = thread[t].exec
      /\ l.child = thread[t].child /\ l.result = thread[t].result
  BY <1>1 DEF Local
<1>3. thread' = [thread EXCEPT ![t] = l]
  BY DEF Goto
<1> HIDE DEF l
<1> QED
  BY <1>2, <1>3, SetFacts DEF SameWork

AfterPc(t) == IF t \in Req THEN "idle" ELSE "handoffDone"

LEMMA DoneFacts ==
    ASSUME TypeInv, NEW t \in Thread, Done(t)
    PROVE  thread'[t].pc = AfterPc(t) /\ Alone(t)
<1>1. After(t).pc = AfterPc(t)
  BY DEF After, AfterPc, Idle
<1> HIDE DEF After
<1> QED
  BY <1>1, SetFacts DEF Done

(* Starting a worker: the launching thread ends its part, the worker was   *)
(* idle and is another thread.                                             *)
LaunchFacts(t, h, e) ==
    /\ t # e /\ e \in Thread /\ thread[e].pc = "idle"
    /\ thread'[t].pc = AfterPc(t)
    /\ thread'[e].pc = "start" /\ thread'[e].hook = h /\ thread'[e].exec = e
    /\ \A u \in Thread \ {t, e} : thread'[u] = thread[u]

LEMMA Launched ==
    ASSUME TypeInv, SafeInv, NEW t \in Thread, NEW h \in Hook, NEW e \in ExecId,
           Launches(t, e), LaunchHook(t, h, e)
    PROVE  LaunchFacts(t, h, e)
<1>1. thread[e].pc = "idle" /\ t # e /\ e \in Thread
  BY DEF SafeInv, FreshLaunch, Launches, Thread
<1>2. /\ After(t).pc = AfterPc(t)
      /\ Worker(h, e).pc = "start" /\ Worker(h, e).hook = h /\ Worker(h, e).exec = e
  BY DEF After, AfterPc, Worker, Idle
<1>3. thread' = [thread EXCEPT ![t] = After(t), ![e] = Worker(h, e)]
  BY DEF LaunchHook
<1> HIDE DEF After, Worker
<1>4. /\ thread'[t] = After(t) /\ thread'[e] = Worker(h, e)
      /\ \A u \in Thread \ {t, e} : thread'[u] = thread[u]
  BY <1>1, <1>3 DEF TypeInv, TypeOK
<1> QED
  BY <1>1, <1>2, <1>4 DEF LaunchFacts

(* The two calls of launchHook.                                            *)
LEMMA LaunchCalls ==
    ASSUME TypeInv, NEW t \in Thread, Launch(t) \/ LaunchChild(t)
    PROVE  \E h \in Hook, e \in ExecId :
               /\ Launches(t, e) /\ Holds(t, h) /\ LaunchHook(t, h, e)
               /\ e < nextId
<1>1. CASE Launch(t)
  <2>1. thread[t].pc = "launch" /\ LaunchHook(t, thread[t].hook, thread[t].exec)
    BY <1>1 DEF Launch, At
  <2>2. /\ thread[t].hook \in Hook /\ thread[t].exec \in ExecId
        /\ thread[t].exec < nextId
    BY <2>1 DEF TypeInv, Shape, ThreadShape, LocalShape, HookPc, OwnPc, RowPc
  <2> QED
    BY <2>1, <2>2 DEF Launches, Holds, OwnPc
<1>2. CASE LaunchChild(t)
  <2>1. /\ thread[t].pc = "launchChild"
        /\ LaunchHook(t, rows[thread[t].child].hook, thread[t].child)
    BY <1>2 DEF LaunchChild, At
  <2>2. /\ rows[thread[t].child].hook \in Hook /\ thread[t].child \in ExecId
        /\ thread[t].child < nextId
    BY <2>1 DEF TypeInv, Shape, ThreadShape, LocalShape
  <2> QED
    BY <2>1, <2>2 DEF Launches, Holds
<1> QED
  BY <1>1, <1>2

(* The turns that are neither a mere change of pc nor the end of a part.   *)
SamePart(t) ==
    /\ thread'[t].hook = thread[t].hook /\ thread'[t].exec = thread[t].exec
    /\ thread'[t].child = thread[t].child

LEMMA LoadFacts ==
    ASSUME TypeInv, NEW r \in Req, NEW h \in Hook, Load(r, h)
    PROVE  thread'[r].pc \in {"admit", "insertSync"} /\ Alone(r)
<1> DEFINE l == [Idle EXCEPT !.pc = IF hooks[h].async THEN "admit" ELSE "insertSync",
                             !.hook = h, !.succ = hooks[h].succ]
<1>1. l.pc \in {"admit", "insertSync"} /\ thread' = [thread EXCEPT ![r] = l]
  BY DEF Load, Idle
<1> HIDE DEF l
<1> QED
  BY <1>1, SetFacts DEF Thread

LEMMA RetryFacts ==
    ASSUME TypeInv, NEW r \in Req, NEW p \in ExecId, NEW a, RetrySuccessor(r, p, a)
    PROVE  thread'[r].pc = "dispatch" /\ thread'[r].exec = p /\ Alone(r)
<1> DEFINE l == [Idle EXCEPT !.pc = "dispatch", !.exec = p]
<1>1. l.pc = "dispatch" /\ l.exec = p /\ thread' = [thread EXCEPT ![r] = l]
  BY DEF RetrySuccessor, Idle
<1> HIDE DEF l
<1> QED
  BY <1>1, SetFacts DEF Thread

LEMMA InsertFacts ==
    ASSUME TypeInv, NEW r \in Req, InsertQueued(r) \/ InsertRunning(r)
    PROVE  /\ thread'[r].pc = IF thread[r].pc = "insert" THEN "launch" ELSE "runSync"
           /\ thread'[r].hook = thread[r].hook /\ thread'[r].exec = nextId /\ Alone(r)
<1>1. ASSUME NEW pc,
             thread' = [thread EXCEPT ![r] = [thread[r] EXCEPT !.pc = pc, !.exec = nextId]]
      PROVE  /\ thread'[r].pc = pc /\ thread'[r].hook = thread[r].hook
             /\ thread'[r].exec = nextId /\ Alone(r)
  <2> DEFINE l == [thread[r] EXCEPT !.pc = pc, !.exec = nextId]
  <2>1. thread[r] \in Local /\ r \in Thread
    BY DEF TypeInv, TypeOK, Thread
  <2>2. l.pc = pc /\ l.hook = thread[r].hook /\ l.exec = nextId
    BY <2>1 DEF Local
  <2>3. thread' = [thread EXCEPT ![r] = l]
    BY <1>1
  <2> HIDE DEF l
  <2> QED
    BY <2>1, <2>2, <2>3, SetFacts
<1>2. CASE InsertQueued(r)
  BY <1>1, <1>2 DEF InsertQueued, At
<1>3. CASE InsertRunning(r)
  BY <1>1, <1>3 DEF InsertRunning, At
<1> QED
  BY <1>2, <1>3

LEMMA ResultFacts ==
    ASSUME TypeInv, NEW t \in Thread, NEW pc, NEW s,
           thread' = [thread EXCEPT ![t].pc = pc, ![t].result = s]
    PROVE  /\ thread'[t].pc = pc /\ thread'[t].result = s
           /\ SamePart(t) /\ Alone(t)
<1> DEFINE l == [thread[t] EXCEPT !.pc = pc, !.result = s]
<1>1. thread[t] \in Local
  BY DEF TypeInv, TypeOK
<1>2. /\ l.pc = pc /\ l.result = s /\ l.hook = thread[t].hook
      /\ l.exec = thread[t].exec /\ l.child = thread[t].child
  BY <1>1 DEF Local
<1>3. thread' = [thread EXCEPT ![t] = l]
  OBVIOUS
<1> HIDE DEF l
<1> QED
  BY <1>2, <1>3, SetFacts DEF SamePart

LEMMA WorkerEndFacts ==
    ASSUME TypeInv, NEW w \in ExecId, ReleaseAdmission(w) \/ EndHandoff(w)
    PROVE  /\ Alone(w)
           /\ ReleaseAdmission(w) => thread'[w].pc = "dispatch" /\ thread'[w].exec = w
           /\ EndHandoff(w) => thread'[w].pc = "idle"
<1> DEFINE l == [Idle EXCEPT !.pc = "dispatch", !.exec = w]
<1>1. l.pc = "dispatch" /\ l.exec = w /\ Idle.pc = "idle"
  BY DEF Idle
<1>2. /\ ReleaseAdmission(w) => thread' = [thread EXCEPT ![w] = l]
      /\ EndHandoff(w) => thread' = [thread EXCEPT ![w] = Idle]
  BY DEF ReleaseAdmission, EndHandoff
<1> HIDE DEF l
<1> QED
  BY <1>1, <1>2, SetFacts DEF Thread

LEMMA CommitFacts ==
    ASSUME TypeInv, NEW t \in Thread, DispatchCommit(t)
    PROVE  /\ thread'[t].pc = "launchChild" /\ thread'[t].child = nextId
           /\ thread'[t].exec = thread[t].exec /\ Alone(t)
<1> DEFINE l == [thread[t] EXCEPT !.pc = "launchChild", !.child = nextId]
<1>1. thread[t] \in Local
  BY DEF TypeInv, TypeOK
<1>2. l.pc = "launchChild" /\ l.child = nextId /\ l.exec = thread[t].exec
  BY <1>1 DEF Local
<1>3. thread' = [thread EXCEPT ![t] = l]
  BY DEF DispatchCommit
<1> HIDE DEF l
<1> QED
  BY <1>2, <1>3, SetFacts

-----------------------------------------------------------------------------
(* A request runs the code of requests and a worker that of workers, only  *)
(* a panic is logged as one, and a process that is down runs nothing.      *)
CodeInv ==
    /\ \A r \in Req : thread[r].pc \in ReqPc
    /\ \A w \in ExecId : /\ thread[w].pc \in WorkerPc
                         /\ thread[w].pc = "logPanic" => thread[w].result = "panic"
    /\ ~up => \A t \in Thread : thread[t].pc = "idle"

(* One turn of a thread, other than the launch of a worker: only its own   *)
(* local state changes.                                                    *)
LEMMA ReqTurn ==
    ASSUME TypeInv, NEW r \in Req, Arrive(r) \/ SyncStep(r) \/ AsyncStep(r), ~Launch(r)
    PROVE  /\ up /\ up' = up /\ UNCHANGED slots
           /\ Alone(r) /\ (thread'[r].pc \in ReqPc \/ UNCHANGED thread)
<1>0. r \in Thread /\ AfterPc(r) = "idle"
  BY DEF Thread, AfterPc
<1>1. up /\ up' = up /\ UNCHANGED slots
  BY DEF Arrive, SyncStep, AsyncStep, Load, RejectAuth, RetrySuccessor, AdmitAsync, RefuseAsync,
         InsertQueued, InsertQueuedFails, Launch, InsertRunning, InsertRunningFails, RunSync,
         RunSyncPanics, FinishSync, At, NoFault, Quiet, outside, process
<1> SUFFICES Alone(r) /\ (thread'[r].pc \in ReqPc \/ UNCHANGED thread)
  BY <1>1
<1>2. ASSUME NEW h \in Hook, Load(r, h) \/ RejectAuth(r, h)
      PROVE  Alone(r) /\ (thread'[r].pc \in ReqPc \/ UNCHANGED thread)
  BY <1>2, LoadFacts DEF RejectAuth, ReqPc, Alone
<1>3. ASSUME NEW p \in ExecId, NEW a \in 1..MaxAttempt, RetrySuccessor(r, p, a)
      PROVE  Alone(r) /\ thread'[r].pc \in ReqPc
  BY <1>3, RetryFacts DEF ReqPc
<1>4. CASE AdmitAsync(r) \/ FinishSync(r)
  BY <1>0, <1>4, GotoFacts DEF AdmitAsync, FinishSync, ReqPc
<1>5. CASE RefuseAsync(r) \/ InsertQueuedFails(r) \/ InsertRunningFails(r) \/ RunSyncPanics(r)
  BY <1>0, <1>5, DoneFacts
  DEF RefuseAsync, InsertQueuedFails, InsertRunningFails, RunSyncPanics, ReqPc
<1>6. CASE InsertQueued(r) \/ InsertRunning(r)
  BY <1>6, InsertFacts DEF ReqPc
<1>7. ASSUME NEW s \in Outcome, RunSync(r, s) PROVE Alone(r) /\ thread'[r].pc \in ReqPc
  BY <1>0, <1>7, ResultFacts DEF RunSync, ReqPc
<1> QED
  BY <1>2, <1>3, <1>4, <1>5, <1>6, <1>7 DEF Arrive, SyncStep, AsyncStep

(* What a worker does besides waiting, running and handing off.            *)
WorkerGoes(w) ==
    \/ Acquire(w) \/ Abandon(w) \/ EndCanceled(w) \/ BeginRun(w) \/ FinishRun(w)
    \/ ReturnSlot(w) \/ LogPanic(w) \/ DropCancel(w)
WorkerRuns(w) == ExecutePanics(w) \/ \E s \in Outcome : Execute(w, s)
WorkerEnds(w) == ReleaseAdmission(w) \/ EndHandoff(w)
WorkerTurns(w) == WorkerGoes(w) \/ WorkerRuns(w) \/ WorkerEnds(w)

LEMMA WorkerGoesFacts ==
    ASSUME TypeInv, NEW w \in ExecId, WorkerGoes(w)
    PROVE  /\ Alone(w) /\ SameWork(w)
           /\ \/ Acquire(w) /\ thread[w].pc = "start" /\ thread'[w].pc = "markRunning"
              \/ Abandon(w) /\ thread[w].pc = "start" /\ thread'[w].pc = "endCanceled"
              \/ EndCanceled(w) /\ thread[w].pc = "endCanceled" /\ thread'[w].pc = "unregister"
              \/ BeginRun(w) /\ thread[w].pc = "markRunning" /\ thread'[w].pc = "execute"
              \/ FinishRun(w) /\ thread[w].pc = "finish" /\ thread'[w].pc = "finishSlot"
              \/ /\ ReturnSlot(w) /\ thread[w].pc = "finishSlot"
                 /\ thread'[w].pc = IF thread[w].result = "panic" THEN "logPanic"
                                    ELSE "unregister"
              \/ LogPanic(w) /\ thread[w].pc = "logPanic" /\ thread'[w].pc = "unregister"
              \/ DropCancel(w) /\ thread[w].pc = "unregister" /\ thread'[w].pc = "release"
BY GotoFacts
DEF WorkerGoes, Acquire, Abandon, EndCanceled, BeginRun, FinishRun, ReturnSlot, LogPanic,
    DropCancel, At, Thread

LEMMA WorkerRunsFacts ==
    ASSUME TypeInv, NEW w \in ExecId, WorkerRuns(w)
    PROVE  /\ Alone(w) /\ SamePart(w) /\ thread[w].pc = "execute"
           /\ \/ ExecutePanics(w) /\ thread'[w].pc = "finishSlot" /\ thread'[w].result = "panic"
              \/ \E s \in Outcome : /\ Execute(w, s) /\ thread'[w].result = s
                                    /\ thread'[w].pc = "finish"
BY ResultFacts DEF WorkerRuns, ExecutePanics, Execute, At, Thread

LEMMA WorkerTurn ==
    ASSUME TypeInv, NEW w \in ExecId, WorkerTurns(w)
    PROVE  /\ up /\ up' = up
           /\ Alone(w) /\ thread'[w].pc \in WorkerPc
           /\ thread'[w].pc = "logPanic" => thread'[w].result = "panic"
<1>1. up /\ up' = up
  BY DEF WorkerTurns, WorkerGoes, WorkerRuns, WorkerEnds, Acquire, Abandon, EndCanceled,
         BeginRun, FinishRun, ReturnSlot, LogPanic, DropCancel, ReleaseAdmission, EndHandoff,
         ExecutePanics, Execute, At, NoFault, Quiet, outside
<1> SUFFICES /\ Alone(w) /\ thread'[w].pc \in WorkerPc
             /\ thread'[w].pc = "logPanic" => thread'[w].result = "panic"
  BY <1>1
<1>2. CASE WorkerGoes(w)
  BY <1>2, WorkerGoesFacts DEF WorkerPc, SameWork
<1>3. CASE WorkerRuns(w)
  BY <1>3, WorkerRunsFacts DEF WorkerPc
<1>4. CASE WorkerEnds(w)
  BY <1>4, WorkerEndFacts DEF WorkerEnds, WorkerPc
<1> QED
  BY <1>2, <1>3, <1>4 DEF WorkerTurns

(* Handing off, on a request or on a worker.                               *)
LEMMA DispatchTurn ==
    ASSUME TypeInv, NEW t \in Thread, Dispatch(t), ~LaunchChild(t)
    PROVE  /\ up /\ up' = up /\ UNCHANGED slots
           /\ Alone(t) /\ thread[t].pc \in {"dispatch", "recordFailure"}
           /\ \/ DispatchNothing(t) /\ thread'[t].pc = AfterPc(t)
              \/ RecordFailure(t) /\ thread'[t].pc = AfterPc(t)
              \/ /\ DispatchRefused(t) \/ DispatchFails(t)
                 /\ thread'[t].pc = "recordFailure" /\ SameWork(t)
              \/ DispatchCommit(t) /\ thread'[t].pc = "launchChild"
<1>1. up /\ up' = up /\ UNCHANGED slots
  BY DEF Dispatch, DispatchNothing, RecordFailure, DispatchRefused, DispatchFails,
         DispatchCommit, LaunchChild, At, NoFault, Quiet, outside, process
<1>2. thread[t].pc \in {"dispatch", "recordFailure"}
  BY DEF Dispatch, DispatchNothing, RecordFailure, DispatchRefused, DispatchFails,
         DispatchCommit, LaunchChild, At
<1>3. ASSUME DispatchNothing(t) \/ RecordFailure(t)
      PROVE  Alone(t) /\ thread'[t].pc = AfterPc(t)
  BY <1>3, DoneFacts DEF DispatchNothing, RecordFailure
<1>4. ASSUME DispatchRefused(t) \/ DispatchFails(t)
      PROVE  Alone(t) /\ thread'[t].pc = "recordFailure" /\ SameWork(t)
  BY <1>4, GotoFacts DEF DispatchRefused, DispatchFails
<1> QED
  BY <1>1, <1>2, <1>3, <1>4, CommitFacts DEF Dispatch

LEMMA CodeInit ==
    ASSUME Init
    PROVE  CodeInv
BY DEF Init, Idle, CodeInv, ReqPc, WorkerPc, Thread

LEMMA CodeStep ==
    ASSUME TypeInv, SafeInv, CodeInv, [Next]_vars
    PROVE  CodeInv'
<1>0. Req \cap ExecId = {} /\ Thread = Req \cup ExecId
  BY ThreadAssumption DEF Thread
<1>1. CASE UNCHANGED vars
  BY <1>1 DEF vars, CodeInv
<1>2. ASSUME NEW r \in Req, Arrive(r) \/ SyncStep(r) \/ AsyncStep(r), ~Launch(r)
      PROVE  CodeInv'
  BY <1>0, <1>2, ReqTurn DEF CodeInv, Alone
<1>3. ASSUME NEW t \in Thread, Launch(t) \/ LaunchChild(t) PROVE CodeInv'
  <2>1. up /\ up' = up
    BY <1>3 DEF Launch, LaunchChild, At, LaunchHook, NoFault, outside
  <2>2. PICK h \in Hook, e \in ExecId : LaunchFacts(t, h, e)
    BY <1>3, LaunchCalls, Launched
  <2> QED
    BY <1>0, <2>1, <2>2 DEF LaunchFacts, AfterPc, CodeInv, WorkerPc, ReqPc
<1>4. ASSUME NEW t \in Thread, Dispatch(t), ~LaunchChild(t) PROVE CodeInv'
  BY <1>0, <1>4, DispatchTurn DEF CodeInv, Alone, AfterPc, WorkerPc, ReqPc
<1>5. ASSUME NEW w \in ExecId, WorkerTurns(w) PROVE CodeInv'
  BY <1>0, <1>5, WorkerTurn DEF CodeInv, Alone
<1>6. CASE EditHooks \/ Restart \/ \E e \in ExecId : Cancel(e)
  BY <1>6 DEF EditHooks, Restart, Cancel, CodeInv, outside, NoFault
<1>7. CASE Crash
  <2>1. thread' = [t \in Thread |-> Idle] /\ Idle.pc = "idle"
    BY <1>7 DEF Crash, Idle
  <2> QED
    BY <1>0, <2>1 DEF CodeInv, ReqPc, WorkerPc
<1> QED
  BY <1>0, <1>1, <1>2, <1>3, <1>4, <1>5, <1>6, <1>7
  DEF Next, ReqStep, WorkerStep, WorkerTurns, WorkerGoes, WorkerRuns, WorkerEnds, Dispatch

LEMMA StepCases ==
    ASSUME [Next]_vars
    PROVE  \/ UNCHANGED vars
           \/ \E r \in Req : (Arrive(r) \/ SyncStep(r) \/ AsyncStep(r)) /\ ~Launch(r)
           \/ \E t \in Thread : Launch(t) \/ LaunchChild(t)
           \/ \E t \in Thread : Dispatch(t) /\ ~LaunchChild(t)
           \/ \E w \in ExecId : WorkerTurns(w)
           \/ EditHooks \/ Restart \/ \E e \in ExecId : Cancel(e)
           \/ Crash
BY DEF Next, ReqStep, WorkerStep, WorkerTurns, WorkerGoes, WorkerRuns, WorkerEnds, Dispatch,
       Thread

-----------------------------------------------------------------------------
(* Counting threads.                                                       *)
Running == {w \in ExecId : thread[w].pc \in RunPc}
Awake == {w \in ExecId : thread[w].pc # "idle"}

LEMMA FiniteIds ==
    ASSUME NEW S \in SUBSET ExecId
    PROVE  IsFiniteSet(S) /\ Cardinality(S) \in Nat
<1>1. IsFiniteSet(ExecId)
  BY FS_Interval, ExecAssumption DEF ExecId
<1>2. IsFiniteSet(S)
  BY <1>1, FS_Subset
<1> QED
  BY <1>2, FS_CardinalityType

LEMMA OneMore ==
    ASSUME NEW S \in SUBSET ExecId, NEW T, NEW w, w \notin S, T = S \cup {w}
    PROVE  Cardinality(T) = Cardinality(S) + 1
BY FiniteIds, FS_AddElement

LEMMA OneLess ==
    ASSUME NEW S \in SUBSET ExecId, NEW T, NEW w \in S, T = S \ {w}
    PROVE  Cardinality(T) = Cardinality(S) - 1
BY FiniteIds, FS_RemoveElement

SlotInv == slots = Cardinality(Running)

LEMMA SlotStep ==
    ASSUME TypeInv, SafeInv, CodeInv, SlotInv, [Next]_vars
    PROVE  SlotInv'
<1>0. Req \cap ExecId = {} /\ Thread = Req \cup ExecId /\ Running \in SUBSET ExecId
  BY ThreadAssumption DEF Thread, Running
<1>1. ASSUME UNCHANGED slots, Running' = Running PROVE SlotInv'
  BY <1>1 DEF SlotInv
<1>2. CASE UNCHANGED vars
  BY <1>1, <1>2 DEF vars, Running
<1>3. ASSUME NEW r \in Req, Arrive(r) \/ SyncStep(r) \/ AsyncStep(r), ~Launch(r)
      PROVE  SlotInv'
  BY <1>0, <1>1, <1>3, ReqTurn DEF Running, Alone
<1>4. ASSUME NEW t \in Thread, Launch(t) \/ LaunchChild(t) PROVE SlotInv'
  <2>1. UNCHANGED slots
    BY <1>4 DEF Launch, LaunchChild, LaunchHook
  <2>2. PICK h \in Hook, e \in ExecId : LaunchFacts(t, h, e)
    BY <1>4, LaunchCalls, Launched
  <2>3. thread[t].pc \notin RunPc
    BY <1>4 DEF Launch, LaunchChild, At, RunPc
  <2>4. \A w \in ExecId : thread'[w].pc \in RunPc <=> thread[w].pc \in RunPc
    BY <1>0, <2>2, <2>3 DEF LaunchFacts, AfterPc, RunPc
  <2> QED
    BY <1>1, <2>1, <2>4 DEF Running
<1>5. ASSUME NEW t \in Thread, Dispatch(t), ~LaunchChild(t) PROVE SlotInv'
  <2>1. \A w \in ExecId : thread'[w].pc \in RunPc <=> thread[w].pc \in RunPc
    BY <1>0, <1>5, DispatchTurn DEF Alone, AfterPc, RunPc
  <2> QED
    BY <1>1, <1>5, <2>1, DispatchTurn DEF Running
<1>6. ASSUME NEW w \in ExecId, WorkerTurns(w) PROVE SlotInv'
  <2>0. Alone(w)
    BY <1>6, WorkerTurn
  <2>1. CASE Acquire(w)
    <3>1. thread[w].pc \notin RunPc /\ thread'[w].pc \in RunPc /\ slots' = slots + 1
      BY <2>1, GotoFacts DEF Acquire, At, Start, RunPc, Thread
    <3>2. Running' = Running \cup {w} /\ w \notin Running
      BY <1>0, <2>0, <3>1 DEF Running, Alone
    <3> QED
      BY <1>0, <3>1, <3>2, OneMore DEF SlotInv
  <2>2. CASE ReturnSlot(w)
    <3>1. thread[w].pc \in RunPc /\ thread'[w].pc \notin RunPc /\ slots' = slots - 1
      BY <2>2, GotoFacts DEF ReturnSlot, At, Finish, RunPc, Thread
    <3>2. Running' = Running \ {w} /\ w \in Running
      BY <1>0, <2>0, <3>1 DEF Running, Alone
    <3> QED
      BY <1>0, <3>1, <3>2, OneLess DEF SlotInv
  <2>3. CASE ~Acquire(w) /\ ~ReturnSlot(w)
    <3>1. UNCHANGED slots
      BY <1>6, <2>3
      DEF WorkerTurns, WorkerGoes, WorkerRuns, WorkerEnds, Abandon, EndCanceled, BeginRun,
          FinishRun, LogPanic, DropCancel, ReleaseAdmission, EndHandoff, ExecutePanics,
          Execute, GiveUp, process
    <3>2. thread'[w].pc \in RunPc <=> thread[w].pc \in RunPc
      <4>1. CASE WorkerGoes(w)
        BY <2>3, <4>1, WorkerGoesFacts DEF RunPc
      <4>2. CASE WorkerRuns(w)
        BY <4>2, WorkerRunsFacts DEF RunPc
      <4>3. CASE WorkerEnds(w)
        BY <4>3, WorkerEndFacts DEF WorkerEnds, ReleaseAdmission, EndHandoff, At, RunPc
      <4> QED
        BY <1>6, <4>1, <4>2, <4>3 DEF WorkerTurns
    <3> QED
      BY <1>0, <1>1, <2>0, <3>1, <3>2 DEF Running, Alone
  <2> QED
    BY <2>1, <2>2, <2>3
<1>7. CASE EditHooks \/ Restart \/ \E e \in ExecId : Cancel(e)
  BY <1>1, <1>7 DEF EditHooks, Restart, Cancel, Running, process
<1>8. CASE Crash
  <2>1. slots' = 0 /\ thread' = [t \in Thread |-> Idle] /\ Idle.pc = "idle"
    BY <1>8 DEF Crash, Reset, Idle
  <2>2. Running' = {}
    BY <1>0, <2>1 DEF Running, RunPc
  <2> QED
    BY <2>1, <2>2, FS_EmptySet DEF SlotInv
<1> QED
  BY <1>2, <1>3, <1>4, <1>5, <1>6, <1>7, <1>8, StepCases

-----------------------------------------------------------------------------
(* The wait group counts the admissions and the workers that are awake.    *)
DrainInv == wg = Cardinality(inFlight) + Cardinality(Awake)

LEMMA DrainSame ==
    ASSUME DrainInv, Awake' = Awake, UNCHANGED <<inFlight, wg>>
    PROVE  DrainInv'
BY DEF DrainInv

LEMMA DrainAdmit ==
    ASSUME DrainInv, SafeInv, NEW h, Admit(h), Awake' = Awake
    PROVE  DrainInv'
<1>1. Cardinality(inFlight') = Cardinality(inFlight) + 1
  BY FS_AddElement DEF Admit, CanAdmit, SafeInv, CapacityInv
<1>2. Cardinality(inFlight) \in Nat /\ Cardinality(Awake) \in Nat
  BY FiniteIds, FS_CardinalityType DEF Awake, SafeInv, CapacityInv
<1> QED
  BY <1>1, <1>2 DEF DrainInv, Admit

LEMMA DrainRelease ==
    ASSUME DrainInv, SafeInv, NEW h \in inFlight, Release(h), Awake' = Awake
    PROVE  DrainInv'
<1>1. Cardinality(inFlight') = Cardinality(inFlight) - 1
  BY FS_RemoveElement DEF Release, SafeInv, CapacityInv
<1>2. Cardinality(inFlight) \in Nat /\ Cardinality(Awake) \in Nat
  BY FiniteIds, FS_CardinalityType DEF Awake, SafeInv, CapacityInv
<1> QED
  BY <1>1, <1>2 DEF DrainInv, Release

LEMMA DrainStep ==
    ASSUME TypeInv, SafeInv, CodeInv, DrainInv, [Next]_vars
    PROVE  DrainInv'
<1>0. /\ Req \cap ExecId = {} /\ Thread = Req \cup ExecId /\ Awake \in SUBSET ExecId
      /\ Cardinality(inFlight) \in Nat /\ Cardinality(Awake) \in Nat
  BY ThreadAssumption, FiniteIds, FS_CardinalityType DEF Thread, Awake, SafeInv, CapacityInv
<1>2. CASE UNCHANGED vars
  BY <1>2, DrainSame DEF vars, Awake
<1>3. ASSUME NEW r \in Req, Arrive(r) \/ SyncStep(r) \/ AsyncStep(r), ~Launch(r)
      PROVE  DrainInv'
  <2>1. Awake' = Awake
    BY <1>0, <1>3, ReqTurn DEF Awake, Alone
  <2>2. CASE AdmitAsync(r)
    BY <2>1, <2>2, DrainAdmit DEF AdmitAsync
  <2>3. CASE InsertQueuedFails(r)
    <3>1. thread[r].pc = "insert" /\ Release(thread[r].hook)
      BY <2>3 DEF InsertQueuedFails, At
    <3>2. thread[r].hook \in Hook /\ Holds(r, thread[r].hook)
      BY <1>0, <3>1 DEF Holds, OwnPc, TypeInv, Shape, ThreadShape, LocalShape, HookPc
    <3>3. thread[r].hook \in inFlight
      BY <1>0, <3>2 DEF SafeInv, FlightInv
    <3> QED
      BY <2>1, <3>1, <3>3, DrainRelease
  <2>4. CASE ~AdmitAsync(r) /\ ~InsertQueuedFails(r)
    <3>1. UNCHANGED <<inFlight, wg>>
      BY <1>3, <2>4
      DEF Arrive, SyncStep, AsyncStep, Load, RejectAuth, RetrySuccessor, RefuseAsync,
          InsertQueued, InsertRunning, InsertRunningFails, RunSync, RunSyncPanics,
          FinishSync, process
    <3> QED
      BY <2>1, <3>1, DrainSame
  <2> QED
    BY <2>2, <2>3, <2>4
<1>4. ASSUME NEW t \in Thread, Launch(t) \/ LaunchChild(t) PROVE DrainInv'
  <2>1. UNCHANGED inFlight /\ wg' = wg + 1
    BY <1>4 DEF Launch, LaunchChild, LaunchHook, TrackHandoff
  <2>2. PICK h \in Hook, e \in ExecId : LaunchFacts(t, h, e)
    BY <1>4, LaunchCalls, Launched
  <2>3. thread[t].pc # "idle"
    BY <1>4 DEF Launch, LaunchChild, At
  <2>4. Awake' = Awake \cup {e} /\ e \notin Awake
    BY <1>0, <2>2, <2>3 DEF LaunchFacts, AfterPc, Awake
  <2>5. Cardinality(Awake') = Cardinality(Awake) + 1
    BY <1>0, <2>4, OneMore
  <2> QED
    BY <1>0, <2>1, <2>5 DEF DrainInv
<1>5. ASSUME NEW t \in Thread, Dispatch(t), ~LaunchChild(t) PROVE DrainInv'
  <2>1. Awake' = Awake
    BY <1>0, <1>5, DispatchTurn DEF Alone, AfterPc, Awake, SameWork
  <2>2. CASE DispatchCommit(t)
    BY <2>1, <2>2, DrainAdmit DEF DispatchCommit
  <2>3. CASE ~DispatchCommit(t)
    <3>1. UNCHANGED <<inFlight, wg>>
      BY <1>5, <2>3
      DEF Dispatch, DispatchNothing, RecordFailure, DispatchRefused, DispatchFails, process
    <3> QED
      BY <2>1, <3>1, DrainSame
  <2> QED
    BY <2>2, <2>3
<1>6. ASSUME NEW w \in ExecId, WorkerTurns(w) PROVE DrainInv'
  <2>0. Alone(w)
    BY <1>6, WorkerTurn
  <2>1. CASE EndHandoff(w)
    <3>1. thread[w].pc # "idle" /\ thread'[w].pc = "idle" /\ wg' = wg - 1 /\ inFlight' = inFlight
      BY <2>1, WorkerEndFacts DEF EndHandoff, At, HandoffDone
    <3>2. Awake' = Awake \ {w} /\ w \in Awake
      BY <1>0, <2>0, <3>1 DEF Awake, Alone
    <3>3. Cardinality(Awake') = Cardinality(Awake) - 1
      BY <1>0, <3>2, OneLess
    <3> QED
      BY <1>0, <3>1, <3>3 DEF DrainInv
  <2>2. CASE ~EndHandoff(w)
    <3>1. thread[w].pc # "idle" /\ thread'[w].pc # "idle"
      <4>1. CASE WorkerGoes(w)
        BY <4>1, WorkerGoesFacts
      <4>2. CASE WorkerRuns(w)
        BY <4>2, WorkerRunsFacts
      <4>3. CASE ReleaseAdmission(w)
        BY <4>3, WorkerEndFacts DEF ReleaseAdmission, At
      <4> QED
        BY <1>6, <2>2, <4>1, <4>2, <4>3 DEF WorkerTurns, WorkerEnds
    <3>2. Awake' = Awake
      BY <1>0, <2>0, <3>1 DEF Awake, Alone
    <3>3. CASE ReleaseAdmission(w)
      <4>1. thread[w].pc = "release" /\ Release(thread[w].hook)
        BY <3>3 DEF ReleaseAdmission, At
      <4>2. thread[w].hook \in Hook /\ Holds(w, thread[w].hook)
        BY <1>0, <4>1 DEF Holds, OwnPc, TypeInv, Shape, ThreadShape, LocalShape, HookPc
      <4>3. thread[w].hook \in inFlight
        BY <1>0, <4>2 DEF SafeInv, FlightInv
      <4> QED
        BY <3>2, <4>1, <4>3, DrainRelease
    <3>4. CASE ~ReleaseAdmission(w)
      <4>1. UNCHANGED <<inFlight, wg>>
        BY <1>6, <2>2, <3>4
        DEF WorkerTurns, WorkerGoes, WorkerRuns, WorkerEnds, Acquire, Abandon, EndCanceled,
            BeginRun, FinishRun, ReturnSlot, LogPanic, DropCancel, ExecutePanics, Execute,
            admission, process
      <4> QED
        BY <3>2, <4>1, DrainSame
    <3> QED
      BY <3>3, <3>4
  <2> QED
    BY <2>1, <2>2
<1>7. CASE EditHooks \/ Restart \/ \E e \in ExecId : Cancel(e)
  BY <1>7, DrainSame DEF EditHooks, Restart, Cancel, Awake, process, admission
<1>8. CASE Crash
  <2>1. /\ inFlight' = {} /\ wg' = 0
        /\ thread' = [t \in Thread |-> Idle] /\ Idle.pc = "idle"
    BY <1>8 DEF Crash, Reset, Idle
  <2>2. Awake' = {}
    BY <1>0, <2>1 DEF Awake
  <2> QED
    BY <2>1, <2>2, FS_EmptySet DEF DrainInv
<1> QED
  BY <1>2, <1>3, <1>4, <1>5, <1>6, <1>7, <1>8, StepCases

-----------------------------------------------------------------------------
(* The slot of a hook names the worker that holds it, and nobody as long   *)
(* as the worker has not been launched.                                    *)
EarlyPc == {"insert", "launch", "launchChild"}

BusyInv ==
    \A t \in Thread, h \in Hook :
        Holds(t, h) => slotExec[h] = IF thread[t].pc \in EarlyPc THEN 0 ELSE t

LEMMA BusyNoMove ==
    ASSUME TypeInv, RowsGrow, BusyInv, UNCHANGED <<thread, slotExec>>
    PROVE  BusyInv'
BY StillHolds DEF BusyInv

(* The thread that moves keeps what it held, or gives it up.               *)
LEMMA BusyMove ==
    ASSUME TypeInv, RowsGrow, BusyInv, NEW t \in Thread, Alone(t), UNCHANGED slotExec,
           \A h \in Hook : Holds(t, h)' =>
               Holds(t, h) /\ (thread'[t].pc \in EarlyPc <=> thread[t].pc \in EarlyPc)
    PROVE  BusyInv'
BY StillHolds DEF BusyInv, Alone

LEMMA BusyAdmit ==
    ASSUME TypeInv, RowsGrow, SafeInv, BusyInv, NEW t \in Thread, Alone(t),
           NEW h \in Hook, Admit(h), thread'[t].pc \in EarlyPc,
           \A g \in Hook : Holds(t, g)' => g = h
    PROVE  BusyInv'
<1>1. /\ h \notin inFlight /\ slotExec'[h] = 0
      /\ \A g \in Hook \ {h} : slotExec'[g] = slotExec[g]
  BY DEF Admit, CanAdmit, TypeInv, TypeOK, RunnerTypeOK
<1>2. \A u \in Thread \ {t}, g \in Hook :
          Holds(u, g)' => Holds(u, g) /\ thread'[u] = thread[u] /\ g # h
  BY <1>1, StillHolds DEF Alone, SafeInv, FlightInv
<1> QED
  BY <1>1, <1>2 DEF BusyInv

LEMMA BusyRelease ==
    ASSUME TypeInv, RowsGrow, SafeInv, BusyInv, NEW t \in Thread, Alone(t),
           thread[t].pc \in OwnPc, Release(thread[t].hook), thread'[t].pc \in FreePc
    PROVE  BusyInv'
<1>0. PICK h \in Hook : h = thread[t].hook
  BY DEF TypeInv, Shape, ThreadShape, LocalShape, HookPc
<1>1. \A g \in Hook \ {h} : slotExec'[g] = slotExec[g]
  BY <1>0 DEF Release, TypeInv, TypeOK, RunnerTypeOK
<1>2. Holds(t, h) /\ \A g \in Hook : ~Holds(t, g)'
  BY <1>0 DEF Holds, OwnPc, FreePc
<1>3. \A u \in Thread \ {t}, g \in Hook :
          Holds(u, g)' => Holds(u, g) /\ thread'[u] = thread[u] /\ g # h
  BY <1>2, StillHolds DEF Alone, SafeInv, FlightInv
<1> QED
  BY <1>1, <1>2, <1>3 DEF BusyInv

LEMMA BusyLaunch ==
    ASSUME TypeInv, RowsGrow, SafeInv, BusyInv, NEW t \in Thread, NEW h \in Hook,
           NEW e \in ExecId, Holds(t, h), LaunchFacts(t, h, e), SetExecution(h, e)
    PROVE  BusyInv'
<1>1. slotExec'[h] = e /\ \A g \in Hook \ {h} : slotExec'[g] = slotExec[g]
  BY DEF SetExecution, TypeInv, TypeOK, RunnerTypeOK
<1>2. \A u \in Thread \ {t, e}, g \in Hook :
          Holds(u, g)' => Holds(u, g) /\ thread'[u] = thread[u] /\ g # h
  BY StillHolds DEF LaunchFacts, SafeInv, FlightInv
<1>3. \A g \in Hook : ~Holds(t, g)' /\ (Holds(e, g)' => g = h)
  BY DEF LaunchFacts, AfterPc, Holds, OwnPc
<1>4. thread'[e].pc \notin EarlyPc
  BY DEF LaunchFacts, EarlyPc
<1> QED
  BY <1>1, <1>2, <1>3, <1>4 DEF BusyInv, LaunchFacts

LEMMA BusyStep ==
    ASSUME TypeInv, TypeInv', RowsGrow, SafeInv, CodeInv, BusyInv, [Next]_vars
    PROVE  BusyInv'
<1>0. Req \cap ExecId = {} /\ Thread = Req \cup ExecId
  BY ThreadAssumption DEF Thread
<1>2. CASE UNCHANGED vars
  BY <1>2, BusyNoMove DEF vars
<1>3. ASSUME NEW r \in Req, Arrive(r) \/ SyncStep(r) \/ AsyncStep(r), ~Launch(r)
      PROVE  BusyInv'
  <2>0. Alone(r) /\ r \in Thread /\ AfterPc(r) = "idle"
    BY <1>0, <1>3, ReqTurn DEF AfterPc
  <2>1. ASSUME NEW h \in Hook, RejectAuth(r, h) PROVE BusyInv'
    BY <2>1, BusyNoMove DEF RejectAuth, process
  <2>2. CASE AdmitAsync(r)
    <3>1. /\ thread[r].pc = "admit" /\ Admit(thread[r].hook) /\ Goto(r, "insert")
      BY <2>2 DEF AdmitAsync, At
    <3>2. PICK h \in Hook : h = thread[r].hook
      BY <2>0, <3>1 DEF TypeInv, Shape, ThreadShape, LocalShape, HookPc
    <3>3. /\ thread'[r].pc \in EarlyPc /\ \A g \in Hook : Holds(r, g)' => g = h
      BY <2>0, <3>1, <3>2, GotoFacts DEF SameWork, EarlyPc, Holds
    <3> QED
      BY <2>0, <3>1, <3>2, <3>3, BusyAdmit
  <2>3. CASE InsertQueuedFails(r)
    <3>1. /\ thread[r].pc \in OwnPc /\ Release(thread[r].hook) /\ thread'[r].pc \in FreePc
      BY <2>0, <2>3, DoneFacts DEF InsertQueuedFails, At, OwnPc, FreePc
    <3> QED
      BY <2>0, <3>1, BusyRelease
  <2>4. CASE InsertQueued(r)
    <3>1. /\ thread[r].pc = "insert" /\ thread'[r].pc = "launch"
          /\ thread'[r].hook = thread[r].hook /\ UNCHANGED slotExec
      BY <2>4, InsertFacts DEF InsertQueued, At, process
    <3>2. \A h \in Hook : Holds(r, h)' => Holds(r, h)
      BY <3>1 DEF Holds, OwnPc
    <3> QED
      BY <2>0, <3>1, <3>2, BusyMove DEF EarlyPc
  <2>5. ASSUME thread'[r].pc \in FreePc, UNCHANGED slotExec PROVE BusyInv'
    <3>1. \A h \in Hook : ~Holds(r, h)'
      BY <2>5 DEF Holds, OwnPc, FreePc
    <3> QED
      BY <2>0, <2>5, <3>1, BusyMove
  <2>6. ASSUME NEW h \in Hook, Load(r, h) PROVE BusyInv'
    BY <2>5, <2>6, LoadFacts DEF Load, FreePc, process
  <2>7. ASSUME NEW p \in ExecId, NEW a \in 1..MaxAttempt, RetrySuccessor(r, p, a)
        PROVE  BusyInv'
    BY <2>5, <2>7, RetryFacts DEF RetrySuccessor, FreePc, process
  <2>8. CASE RefuseAsync(r) \/ InsertRunningFails(r) \/ RunSyncPanics(r)
    BY <2>0, <2>5, <2>8, DoneFacts
    DEF RefuseAsync, InsertRunningFails, RunSyncPanics, FreePc, process
  <2>9. CASE InsertRunning(r)
    BY <2>5, <2>9, InsertFacts DEF InsertRunning, At, FreePc, process
  <2>10. ASSUME NEW s \in Outcome, RunSync(r, s) PROVE BusyInv'
    BY <2>0, <2>5, <2>10, ResultFacts DEF RunSync, FreePc, process
  <2>11. CASE FinishSync(r)
    BY <2>0, <2>5, <2>11, GotoFacts DEF FinishSync, FreePc, process
  <2> QED
    BY <1>3, <2>1, <2>2, <2>3, <2>4, <2>6, <2>7, <2>8, <2>9, <2>10, <2>11
    DEF Arrive, SyncStep, AsyncStep
<1>4. ASSUME NEW t \in Thread, Launch(t) \/ LaunchChild(t) PROVE BusyInv'
  <2>1. PICK h \in Hook, e \in ExecId :
            Launches(t, e) /\ Holds(t, h) /\ LaunchHook(t, h, e)
    BY <1>4, LaunchCalls
  <2>2. LaunchFacts(t, h, e)
    BY <2>1, Launched
  <2> QED
    BY <2>1, <2>2, BusyLaunch DEF LaunchHook
<1>5. ASSUME NEW t \in Thread, Dispatch(t), ~LaunchChild(t) PROVE BusyInv'
  <2>0. Alone(t)
    BY <1>5, DispatchTurn
  <2>1. CASE DispatchCommit(t)
    <3>1. /\ thread[t].pc = "dispatch" /\ Admit(rows[Parent(t)].target)
          /\ Pending(Parent(t)) /\ nextId \in ExecId
      BY <2>1, SMTT(30) DEF DispatchCommit, At, InsertSuccessor, HasRoom, TypeInv, TypeOK, TableTypeOK,
                  ExecId
    <3>2. Parent(t) \in ExecId /\ Parent(t) < nextId
      BY <3>1 DEF TypeInv, Shape, ThreadShape, LocalShape, RowPc, Parent
    <3>3. PICK h \in Hook : h = rows[Parent(t)].target
      BY <3>1, <3>2 DEF TypeInv, Shape, RowShape, Pending
    <3>4. thread'[t].pc = "launchChild" /\ thread'[t].child = nextId
      BY <2>1, CommitFacts
    <3>5. rows'[nextId].hook = h
      BY <2>1, <3>1, <3>2, <3>3, CommitRow
    <3>6. \A g \in Hook : Holds(t, g)' => g = h
      BY <3>4, <3>5 DEF Holds, OwnPc
    <3> QED
      BY <2>0, <3>1, <3>3, <3>4, <3>6, BusyAdmit DEF EarlyPc
  <2>2. CASE ~DispatchCommit(t)
    <3>1. thread'[t].pc \in FreePc
      BY <1>5, <2>2, DispatchTurn DEF AfterPc, FreePc
    <3>2. \A h \in Hook : ~Holds(t, h)'
      BY <3>1 DEF Holds, OwnPc, FreePc
    <3>3. UNCHANGED slotExec
      BY <1>5, <2>2
      DEF Dispatch, DispatchNothing, RecordFailure, DispatchRefused, DispatchFails, process
    <3> QED
      BY <2>0, <3>2, <3>3, BusyMove
  <2> QED
    BY <2>1, <2>2
<1>6. ASSUME NEW w \in ExecId, WorkerTurns(w) PROVE BusyInv'
  <2>0. Alone(w) /\ w \in Thread
    BY <1>0, <1>6, WorkerTurn
  <2>1. CASE ReleaseAdmission(w)
    <3>1. /\ thread[w].pc \in OwnPc /\ Release(thread[w].hook) /\ thread'[w].pc \in FreePc
      BY <2>1, WorkerEndFacts DEF ReleaseAdmission, At, OwnPc, FreePc
    <3> QED
      BY <2>0, <3>1, BusyRelease
  <2>2. CASE EndHandoff(w)
    <3>1. \A h \in Hook : ~Holds(w, h)'
      BY <2>2, WorkerEndFacts DEF Holds, OwnPc
    <3> QED
      BY <2>0, <2>2, <3>1, BusyMove DEF EndHandoff
  <2>3. CASE WorkerGoes(w) \/ WorkerRuns(w)
    <3>1. /\ thread[w].pc \in OwnPc \ EarlyPc /\ thread'[w].pc \in OwnPc \ EarlyPc
          /\ thread'[w].hook = thread[w].hook
      BY <2>3, WorkerGoesFacts, WorkerRunsFacts DEF OwnPc, EarlyPc, SameWork, SamePart
    <3>2. \A h \in Hook : Holds(w, h)' => Holds(w, h)
      BY <3>1 DEF Holds, EarlyPc
    <3>3. UNCHANGED slotExec
      BY <2>3
      DEF WorkerGoes, WorkerRuns, Acquire, Abandon, EndCanceled, BeginRun, FinishRun,
          ReturnSlot, LogPanic, DropCancel, ExecutePanics, Execute, admission, process
    <3> QED
      BY <2>0, <3>1, <3>2, <3>3, BusyMove
  <2> QED
    BY <1>6, <2>1, <2>2, <2>3 DEF WorkerTurns, WorkerEnds
<1>7. CASE EditHooks \/ Restart \/ \E e \in ExecId : Cancel(e)
  BY <1>7, BusyNoMove DEF EditHooks, Restart, Cancel, process, admission
<1>8. CASE Crash
  <2>1. thread' = [t \in Thread |-> Idle] /\ Idle.pc = "idle"
    BY <1>8 DEF Crash, Idle
  <2>2. \A t \in Thread, h \in Hook : ~Holds(t, h)'
    BY <2>1 DEF Holds, OwnPc
  <2> QED
    BY <2>2 DEF BusyInv
<1> QED
  BY <1>2, <1>3, <1>4, <1>5, <1>6, <1>7, <1>8, StepCases

-----------------------------------------------------------------------------
(* The inductive invariant of the runner.                                  *)
RunnerInv ==
    TypeInv /\ SafeInv /\ CodeInv /\ SlotInv /\ DrainInv /\ BusyInv

LEMMA InitRunner ==
    ASSUME Init
    PROVE  RunnerInv
<1>1. /\ inFlight = {} /\ slots = 0 /\ wg = 0
      /\ thread = [t \in Thread |-> Idle] /\ Idle.pc = "idle"
  BY DEF Init, RunnerInit, Idle
<1>2. Running = {} /\ Awake = {}
  BY <1>1 DEF Running, Awake, RunPc, Thread
<1>3. SlotInv /\ DrainInv
  BY <1>1, <1>2, FS_EmptySet DEF SlotInv, DrainInv
<1>4. BusyInv
  BY <1>1 DEF BusyInv, Holds, OwnPc
<1> QED
  BY <1>3, <1>4, InitType, SafeInit, CodeInit DEF RunnerInv

LEMMA RunnerStep ==
    ASSUME RunnerInv, [Next]_vars
    PROVE  RunnerInv' /\ RowsGrow
<1>1. TypeInv' /\ RowsGrow
  BY StepType DEF Kept, RunnerInv
<1> QED
  BY <1>1, SafeStep, CodeStep, SlotStep, DrainStep, BusyStep DEF RunnerInv

LEMMA RunnerAlways == Spec => []RunnerInv
<1>1. Init => RunnerInv
  BY InitRunner
<1>2. RunnerInv /\ [Next]_vars => RunnerInv'
  BY RunnerStep
<1> QED
  BY <1>1, <1>2, PTL DEF Spec

(* A hook in flight is held by exactly one thread and one that is not, by  *)
(* none, and the runner never admits more than its capacity: whatever the  *)
(* hooks, requests, capacities, crashes, panics and failed writes.         *)
THEOREM SingleFlightHolds == Spec => []SingleFlight
<1>1. RunnerInv => SingleFlight
  BY DEF RunnerInv, SafeInv, FlightInv, CapacityInv, SingleFlight
<1> QED
  BY <1>1, RunnerAlways, PTL

(* As many running slots are taken as workers are running a command, so    *)
(* that no path through a worker takes or returns one twice.               *)
THEOREM SlotAccountingHolds == Spec => []SlotAccounting
<1>1. RunnerInv => SlotAccounting
  BY DEF RunnerInv, SlotInv, Running, SlotAccounting
<1> QED
  BY <1>1, RunnerAlways, PTL

(* The wait group counts the admissions and the workers that are left: it  *)
(* is zero, and WaitIdle returns, only when there is neither.              *)
THEOREM IdleMeansDrainedHolds == Spec => []IdleMeansDrained
<1>1. RunnerInv => IdleMeansDrained
  BY DEF RunnerInv, DrainInv, Awake, IdleMeansDrained
<1> QED
  BY <1>1, RunnerAlways, PTL

(* The execution named for a hook in flight is the one that holds it.      *)
THEOREM BusyNamesHolderHolds == Spec => []BusyNamesHolder
<1>1. RunnerInv => BusyNamesHolder
  <2> SUFFICES ASSUME RunnerInv, NEW h \in inFlight
               PROVE  IF slotExec[h] # 0
                      THEN Holds(slotExec[h], h)
                      ELSE \E t \in Thread : Holds(t, h) /\ thread[t].pc \in EarlyPc
    BY DEF BusyNamesHolder, EarlyPc
  <2>1. h \in Hook
    BY DEF RunnerInv, TypeInv, TypeOK, RunnerTypeOK
  <2>2. PICK t \in Thread : Holds(t, h)
    BY DEF RunnerInv, SafeInv, FlightInv
  <2>3. slotExec[h] = IF thread[t].pc \in EarlyPc THEN 0 ELSE t
    BY <2>1, <2>2 DEF RunnerInv, BusyInv
  <2>4. thread[t].pc \notin EarlyPc => t # 0
    <3>1. t \in Req => thread[t].pc \in EarlyPc
      BY <2>2 DEF RunnerInv, CodeInv, Holds, OwnPc, ReqPc, EarlyPc
    <3> QED
      BY <3>1 DEF Thread, ExecId
  <2> QED
    BY <2>2, <2>3, <2>4
<1> QED
  BY <1>1, RunnerAlways, PTL

-----------------------------------------------------------------------------
(* Part 3. The life of an execution row and of its handoff: who is to      *)
(* bring a row to its end or its handoff to a decision, that no ended      *)
(* execution comes back, that an execution has one successor, that a chain *)
(* never repeats a hook, and that the whole implements Handoff.            *)

-----------------------------------------------------------------------------
(* Statements on the executions table, field by field.                     *)

OtherRows(e) == \A q \in ExecId \ {e} : rows'[q] = rows[q]

(* The columns written when a row is inserted and never again.             *)
SameKin(e) ==
    /\ rows'[e].hook = rows[e].hook /\ rows'[e].parent = rows[e].parent
    /\ rows'[e].path = rows[e].path /\ rows'[e].target = rows[e].target

StatusSet(e, status) ==
    /\ OtherRows(e) /\ SameKin(e) /\ nextId' = nextId
    /\ rows'[e].status = status
    /\ rows'[e].handoff = rows[e].handoff /\ rows'[e].child = rows[e].child
    /\ rows'[e].attempt = rows[e].attempt

LEMMA StatusFacts ==
    ASSUME TypeInv, NEW e \in ExecId, NEW status, SetStatus(e, status)
    PROVE  StatusSet(e, status)
<1> DEFINE row == [rows[e] EXCEPT !.status = status]
<1>1. rows' = [rows EXCEPT ![e] = row] /\ nextId' = nextId
  BY DEF SetStatus
<1>2. rows[e] \in Row /\ rows \in [ExecId -> Row]
  BY DEF TypeInv, TypeOK, TableTypeOK
<1>3. /\ row.status = status /\ row.hook = rows[e].hook /\ row.parent = rows[e].parent
      /\ row.path = rows[e].path /\ row.target = rows[e].target
      /\ row.handoff = rows[e].handoff /\ row.child = rows[e].child
      /\ row.attempt = rows[e].attempt
  BY <1>2 DEF Row
<1> HIDE DEF row
<1> QED
  BY <1>1, <1>2, <1>3 DEF StatusSet, OtherRows, SameKin

(* The row of a finished execution, while it was live.                     *)
Offers(e, status) == status = "success" /\ rows[e].target # NoHook
FinishSet(e, status) ==
    /\ OtherRows(e) /\ SameKin(e) /\ nextId' = nextId
    /\ rows'[e].status = status
    /\ rows'[e].handoff = IF Offers(e, status) THEN "pending" ELSE "none"
    /\ rows'[e].attempt = IF Offers(e, status) THEN 1 ELSE 0
    /\ rows'[e].child = rows[e].child

LEMMA FinishFacts ==
    ASSUME TypeInv, NEW e \in ExecId, NEW status, FinishRow(e, status),
           rows[e].status \in Live
    PROVE  FinishSet(e, status)
<1> DEFINE row == FinishedRow(rows[e], status)
<1>1. rows' = [rows EXCEPT ![e] = row] /\ nextId' = nextId
  BY DEF FinishRow
<1>2. rows[e] \in Row /\ rows \in [ExecId -> Row]
  BY DEF TypeInv, TypeOK, TableTypeOK
<1>3. /\ row.status = status /\ row.hook = rows[e].hook /\ row.parent = rows[e].parent
      /\ row.path = rows[e].path /\ row.target = rows[e].target
      /\ row.handoff = IF Offers(e, status) THEN "pending" ELSE "none"
      /\ row.attempt = IF Offers(e, status) THEN 1 ELSE 0
      /\ row.child = rows[e].child
  <2>1. CASE Offers(e, status)
    BY <1>2, <2>1 DEF Row, FinishedRow, Offers
  <2>2. CASE ~Offers(e, status)
    BY <1>2, <2>2 DEF Row, FinishedRow, Offers
  <2> QED
    BY <2>1, <2>2
<1> HIDE DEF row
<1> QED
  BY <1>1, <1>2, <1>3 DEF FinishSet, OtherRows, SameKin

HandoffSet(p, handoff, attempt) ==
    /\ OtherRows(p) /\ SameKin(p) /\ nextId' = nextId
    /\ rows'[p].status = rows[p].status /\ rows'[p].child = rows[p].child
    /\ rows'[p].handoff = handoff /\ rows'[p].attempt = attempt

LEMMA FailFacts ==
    ASSUME TypeInv, NEW p \in ExecId, FailHandoff(p)
    PROVE  HandoffSet(p, IF rows[p].handoff = "pending" THEN "failed" ELSE rows[p].handoff,
                      rows[p].attempt)
<1> DEFINE h == IF rows[p].handoff = "pending" THEN "failed" ELSE rows[p].handoff
           row == [rows[p] EXCEPT !.handoff = h]
<1>1. rows' = [rows EXCEPT ![p] = row] /\ nextId' = nextId
  BY DEF FailHandoff
<1>2. rows[p] \in Row /\ rows \in [ExecId -> Row]
  BY DEF TypeInv, TypeOK, TableTypeOK
<1>3. /\ row.status = rows[p].status /\ row.hook = rows[p].hook
      /\ row.parent = rows[p].parent /\ row.path = rows[p].path
      /\ row.target = rows[p].target /\ row.handoff = h /\ row.child = rows[p].child
      /\ row.attempt = rows[p].attempt
  BY <1>2 DEF Row
<1> HIDE DEF row
<1> QED
  BY <1>1, <1>2, <1>3 DEF HandoffSet, OtherRows, SameKin

LEMMA ClaimFacts ==
    ASSUME TypeInv, NEW p \in ExecId, Claim(p)
    PROVE  HandoffSet(p, "pending", rows[p].attempt + 1)
<1> DEFINE row == [rows[p] EXCEPT !.handoff = "pending", !.attempt = rows[p].attempt + 1]
<1>1. rows' = [rows EXCEPT ![p] = row] /\ nextId' = nextId
  BY DEF Claim
<1>2. rows[p] \in Row /\ rows \in [ExecId -> Row]
  BY DEF TypeInv, TypeOK, TableTypeOK
<1>3. /\ row.status = rows[p].status /\ row.hook = rows[p].hook
      /\ row.parent = rows[p].parent /\ row.path = rows[p].path
      /\ row.target = rows[p].target /\ row.handoff = "pending"
      /\ row.child = rows[p].child /\ row.attempt = rows[p].attempt + 1
  BY <1>2 DEF Row
<1> HIDE DEF row
<1> QED
  BY <1>1, <1>2, <1>3 DEF HandoffSet, OtherRows, SameKin

(* A row inserted for a hook called from outside.                          *)
Inserted(h, status, path, target) ==
    /\ nextId \in ExecId /\ OtherRows(nextId) /\ nextId' = nextId + 1
    /\ rows[nextId] = NoRow
    /\ rows'[nextId].hook = h /\ rows'[nextId].status = status
    /\ rows'[nextId].parent = 0 /\ rows'[nextId].path = path
    /\ rows'[nextId].target = target /\ rows'[nextId].handoff = "none"
    /\ rows'[nextId].child = 0 /\ rows'[nextId].attempt = 0

LEMMA InsertedFacts ==
    ASSUME TypeInv, NEW h, NEW status, NEW path, NEW target,
           Insert(NewRow(h, status, 0, path, target))
    PROVE  Inserted(h, status, path, target)
<1> DEFINE row == NewRow(h, status, 0, path, target)
<1>1. rows \in [ExecId -> Row] /\ nextId \in 1..MaxExec + 1 /\ MaxExec \in Nat
  BY ExecAssumption DEF TypeInv, TypeOK, TableTypeOK
<1>2. /\ rows' = [rows EXCEPT ![nextId] = row] /\ nextId' = nextId + 1
      /\ nextId \in ExecId
  BY <1>1 DEF Insert, HasRoom, ExecId
<1>3. /\ row.hook = h /\ row.status = status /\ row.parent = 0 /\ row.path = path
      /\ row.target = target /\ row.handoff = "none" /\ row.child = 0
      /\ row.attempt = 0
  BY DEF NewRow, NoRow
<1>4. rows[nextId] = NoRow
  BY <1>1, <1>2 DEF TypeInv, Shape
<1> HIDE DEF row
<1> QED
  BY <1>1, <1>2, <1>3, <1>4 DEF Inserted, OtherRows

(* The successor's row and its parent's.                                   *)
Committed(p, target) ==
    /\ nextId \in ExecId /\ p < nextId /\ nextId' = nextId + 1
    /\ rows[nextId] = NoRow
    /\ \A q \in ExecId \ {p, nextId} : rows'[q] = rows[q]
    /\ rows'[nextId].hook = rows[p].target /\ rows'[nextId].status = "queued"
    /\ rows'[nextId].parent = p
    /\ rows'[nextId].path = rows[p].path \cup {rows[p].target}
    /\ rows'[nextId].target = target /\ rows'[nextId].handoff = "none"
    /\ rows'[nextId].child = 0 /\ rows'[nextId].attempt = 0
    /\ SameKin(p) /\ rows'[p].status = rows[p].status
    /\ rows'[p].handoff = "dispatched" /\ rows'[p].child = nextId
    /\ rows'[p].attempt = rows[p].attempt

LEMMA CommittedFacts ==
    ASSUME TypeInv, NEW p \in ExecId, p < nextId, NEW target, InsertSuccessor(p, target)
    PROVE  Committed(p, target)
<1> DEFINE child == NewRow(rows[p].target, "queued", p,
                           rows[p].path \cup {rows[p].target}, target)
           parent == [rows[p] EXCEPT !.handoff = "dispatched", !.child = nextId]
<1>1. /\ rows \in [ExecId -> Row] /\ nextId \in 1..MaxExec + 1 /\ MaxExec \in Nat
      /\ rows[p] \in Row
  BY ExecAssumption DEF TypeInv, TypeOK, TableTypeOK
<1>2. nextId \in ExecId /\ nextId' = nextId + 1 /\ p # nextId
  BY <1>1 DEF InsertSuccessor, HasRoom, ExecId
<1>3. rows' = [[rows EXCEPT ![nextId] = child] EXCEPT ![p] = parent]
  BY <1>1, <1>2 DEF InsertSuccessor
<1>4. /\ child.hook = rows[p].target /\ child.status = "queued" /\ child.parent = p
      /\ child.path = rows[p].path \cup {rows[p].target} /\ child.target = target
      /\ child.handoff = "none" /\ child.child = 0 /\ child.attempt = 0
  BY DEF NewRow, NoRow
<1>5. /\ parent.status = rows[p].status /\ parent.hook = rows[p].hook
      /\ parent.parent = rows[p].parent /\ parent.path = rows[p].path
      /\ parent.target = rows[p].target /\ parent.handoff = "dispatched"
      /\ parent.child = nextId /\ parent.attempt = rows[p].attempt
  BY <1>1 DEF Row
<1>6. rows[nextId] = NoRow
  BY <1>1, <1>2 DEF TypeInv, Shape
<1> HIDE DEF child, parent
<1> QED
  BY <1>1, <1>2, <1>3, <1>4, <1>5, <1>6 DEF Committed, SameKin

Swept ==
    /\ nextId' = nextId
    /\ \A e \in ExecId :
           /\ SameKin(e) /\ rows'[e].child = rows[e].child
           /\ rows'[e].attempt = rows[e].attempt
           /\ rows'[e].handoff = IF rows[e].handoff = "pending" THEN "interrupted"
                                 ELSE rows[e].handoff
           /\ rows'[e].status = IF rows[e].status \in Live THEN "interrupted"
                                ELSE rows[e].status

LEMMA SweptFacts ==
    ASSUME TypeInv, Sweep
    PROVE  Swept
<1>1. rows' = [e \in ExecId |-> SweptRow(rows[e])] /\ nextId' = nextId
  BY DEF Sweep
<1>2. ASSUME NEW row \in Row
      PROVE  /\ SweptRow(row).hook = row.hook /\ SweptRow(row).parent = row.parent
             /\ SweptRow(row).path = row.path /\ SweptRow(row).target = row.target
             /\ SweptRow(row).child = row.child /\ SweptRow(row).attempt = row.attempt
             /\ SweptRow(row).handoff = IF row.handoff = "pending" THEN "interrupted"
                                        ELSE row.handoff
             /\ SweptRow(row).status = IF row.status \in Live THEN "interrupted"
                                       ELSE row.status
  BY DEF SweptRow, Row
<1> QED
  BY <1>1, <1>2 DEF Swept, SameKin, TypeInv, TypeOK, TableTypeOK

-----------------------------------------------------------------------------
(* Who works on a row: brings it to its end, or its handoff to a decision. *)
Works(t, p) == Carries(t, p) \/ HandsOff(t, p)

WorkInv ==
    /\ \A t, u \in Thread, p \in ExecId : Works(t, p) /\ Works(u, p) => t = u
    /\ \A t \in Thread, p \in ExecId :
           /\ Carries(t, p) => rows[p].status \in Live
           /\ HandsOff(t, p) => rows[p].handoff \in {"none", "pending"}
    /\ \A p \in ExecId : rows[p].handoff # "none" => rows[p].status = "success"
    /\ up /\ faults = 0 =>
           \A p \in ExecId :
               /\ rows[p].status \in Live => \E t \in Thread : Carries(t, p)
               /\ Pending(p) => \E t \in Thread : HandsOff(t, p)

(* Nobody works on a row that is not there yet, nor on two at a time.      *)
LEMMA WorksOnRow ==
    ASSUME RunnerInv, NEW t \in Thread, NEW p \in ExecId, Works(t, p)
    PROVE  p < nextId
<1>0. LocalShape(t, thread[t], rows, nextId) /\ nextId \in Nat
  BY ThreadFacts DEF RunnerInv
<1>1. CASE t \in Req
  <2>1. thread[t].pc \in ReqPc
    BY <1>1 DEF RunnerInv, CodeInv
  <2> QED
    BY <1>0, <2>1 DEF LocalShape, RowPc, Works, Carries, HandsOff, ReqPc
<1>2. CASE t \in ExecId
  BY <1>0, <1>2 DEF LocalShape, Works, Carries, HandsOff
<1> QED
  BY <1>1, <1>2 DEF Thread

LEMMA FaultsGrow ==
    ASSUME TypeInv, [Next]_vars, faults' = 0
    PROVE  faults = 0
<1>1. faults \in Nat
  BY DEF TypeInv, TypeOK
<1>2. faults' = faults \/ faults' = faults + 1
  BY ZenonT(30) DEF Next, vars, Arrive, ReqStep, SyncStep, AsyncStep, Dispatch, WorkerStep, Load, RejectAuth,
         RetrySuccessor, AdmitAsync, RefuseAsync, InsertQueued, InsertQueuedFails, Launch,
         LaunchHook, LaunchChild, InsertRunning, InsertRunningFails, RunSync, RunSyncPanics,
         FinishSync, Acquire, Abandon, EndCanceled, BeginRun, Execute, ExecutePanics,
         FinishRun, ReturnSlot, LogPanic, DropCancel, ReleaseAdmission, EndHandoff,
         DispatchNothing, DispatchCommit, DispatchRefused, DispatchFails, RecordFailure,
         Cancel, EditHooks, Crash, Restart, NoFault, InsertError, Fault
<1> QED
  BY <1>1, <1>2

(* What one thread's turn on one row must keep.                            *)
LEMMA WorkOn ==
    ASSUME WorkInv, NEW t \in Thread, NEW p \in ExecId, Alone(t), OtherRows(p),
           up' = up, faults' = 0 => faults = 0,
           \A u \in Thread : Works(u, p) => u = t,
           \A q \in ExecId : Works(t, q) \/ Works(t, q)' => q = p,
           Carries(t, p)' => rows'[p].status \in Live,
           HandsOff(t, p)' => rows'[p].handoff \in {"none", "pending"},
           rows'[p].handoff # "none" => rows'[p].status = "success",
           up /\ faults' = 0 =>
               /\ rows'[p].status \in Live => Carries(t, p)'
               /\ Pending(p)' => HandsOff(t, p)'
    PROVE  WorkInv'
<1>1. \A u \in Thread \ {t}, q \in ExecId : /\ Carries(u, q)' <=> Carries(u, q)
                                            /\ HandsOff(u, q)' <=> HandsOff(u, q)
  BY DEF Alone, Carries, HandsOff
<1>2. \A q \in ExecId \ {p} : rows'[q] = rows[q] /\ (Pending(q)' <=> Pending(q))
  BY DEF OtherRows, Pending
<1>3. \A u, v \in Thread, q \in ExecId : Works(u, q)' /\ Works(v, q)' => u = v
  BY <1>1 DEF WorkInv, Works
<1>4. \A u \in Thread, q \in ExecId :
          /\ Carries(u, q)' => rows'[q].status \in Live
          /\ HandsOff(u, q)' => rows'[q].handoff \in {"none", "pending"}
  BY <1>1, <1>2 DEF WorkInv, Works
<1>5. \A q \in ExecId : rows'[q].handoff # "none" => rows'[q].status = "success"
  BY <1>2 DEF WorkInv
<1>6. ASSUME up', faults' = 0, NEW q \in ExecId
      PROVE  /\ rows'[q].status \in Live => \E u \in Thread : Carries(u, q)'
             /\ Pending(q)' => \E u \in Thread : HandsOff(u, q)'
  <2>1. CASE q = p
    BY <1>6, <2>1
  <2>2. CASE q # p
    <3>1. ~Carries(t, q) /\ ~HandsOff(t, q)
      BY <2>2 DEF Works
    <3> QED
      BY <1>1, <1>2, <1>6, <2>2, <3>1 DEF WorkInv
  <2> QED
    BY <2>1, <2>2
<1> QED
  BY <1>3, <1>4, <1>5, <1>6 DEF WorkInv

(* A thread that works on nothing, before or after.                        *)
LEMMA WorkNone ==
    ASSUME WorkInv, NEW t \in Thread, Alone(t), UNCHANGED rows,
           up' = up, faults' = 0 => faults = 0,
           \A q \in ExecId : ~Works(t, q) /\ ~Works(t, q)'
    PROVE  WorkInv'
<1>1. \A u \in Thread, q \in ExecId : /\ Carries(u, q)' <=> Carries(u, q)
                                      /\ HandsOff(u, q)' <=> HandsOff(u, q)
  <2>1. \A q \in ExecId : /\ ~Carries(t, q) /\ ~HandsOff(t, q)
                          /\ ~Carries(t, q)' /\ ~HandsOff(t, q)'
    BY DEF Works
  <2>2. \A u \in Thread \ {t}, q \in ExecId : /\ Carries(u, q)' <=> Carries(u, q)
                                              /\ HandsOff(u, q)' <=> HandsOff(u, q)
    BY DEF Alone, Carries, HandsOff
  <2> QED
    BY <2>1, <2>2
<1>2. \A q \in ExecId : rows'[q] = rows[q] /\ (Pending(q)' <=> Pending(q))
  BY DEF Pending
<1> QED
  BY <1>1, <1>2 DEF WorkInv, Works

(* What the thread that works on a row knows of it.                        *)
LEMMA Owner ==
    ASSUME WorkInv, NEW t \in Thread, NEW p \in ExecId, Works(t, p)
    PROVE  /\ \A u \in Thread : Works(u, p) => u = t
           /\ Carries(t, p) => rows[p].status \in Live /\ rows[p].handoff = "none"
           /\ HandsOff(t, p) => rows[p].handoff \in {"none", "pending"}
           /\ rows[p].handoff # "none" => rows[p].status = "success"
           /\ up /\ faults = 0 => /\ rows[p].status \in Live => Carries(t, p)
                                  /\ Pending(p) => HandsOff(t, p)
BY DEF WorkInv, Works, Live

(* A turn on the same row that leaves the table alone.                     *)
LEMMA WorkOnward ==
    ASSUME WorkInv, NEW t \in Thread, NEW p \in ExecId, Alone(t), UNCHANGED rows,
           up' = up, faults' = 0 => faults = 0, Works(t, p),
           \A q \in ExecId : Works(t, q)' => q = p,
           Carries(t, p)' => Carries(t, p),
           up /\ faults' = 0 => /\ Carries(t, p) => Carries(t, p)'
                                /\ Pending(p) => HandsOff(t, p)'
    PROVE  WorkInv'
<1>1. OtherRows(p) /\ (Pending(p)' <=> Pending(p))
  BY DEF OtherRows, Pending
<1>2. \A q \in ExecId : Works(t, q) => q = p
  BY DEF Works, Carries, HandsOff
<1>3. Carries(t, p) \/ HandsOff(t, p)
  BY DEF Works
<1> QED
  BY <1>1, <1>2, <1>3, Owner, WorkOn

-----------------------------------------------------------------------------
(* Every action keeps WorkInv.                                             *)
RestPc == {"idle", "admit", "insert", "insertSync", "handoffDone"}

LEMMA AtRest ==
    ASSUME NEW t, thread[t].pc \in RestPc
    PROVE  \A q \in ExecId : ~Works(t, q)
BY DEF RestPc, Works, Carries, HandsOff

LEMMA AtRestNext ==
    ASSUME NEW t, thread'[t].pc \in RestPc
    PROVE  \A q \in ExecId : ~Works(t, q)'
BY DEF RestPc, Works, Carries, HandsOff

(* A row nobody can work on yet: the next one.                             *)
LEMMA NobodyThere ==
    ASSUME RunnerInv, NEW u \in Thread
    PROVE  nextId \in ExecId => ~Works(u, nextId)
BY WorksOnRow DEF RunnerInv, TypeInv, TypeOK, TableTypeOK

(* The thread that carries an execution writes its end, and has only its   *)
(* handoff left to see to.                                                 *)
LEMMA WorkFinished ==
    ASSUME TypeInv, WorkInv, NEW t \in Thread, NEW p \in ExecId, Alone(t),
           up' = up, faults' = 0 => faults = 0,
           Carries(t, p), HandsOff(t, p)', ~Carries(t, p)',
           \A q \in ExecId : Works(t, q)' => q = p,
           NEW status \in Finished, FinishRow(p, status)
    PROVE  WorkInv'
<1>1. Works(t, p) /\ rows[p].status \in Live
  BY Owner DEF Works
<1>2. FinishSet(p, status)
  BY <1>1, FinishFacts
<1>3. /\ OtherRows(p) /\ rows'[p].handoff \in {"none", "pending"}
      /\ rows'[p].status \notin Live
      /\ rows'[p].handoff # "none" => rows'[p].status = "success"
  BY <1>2 DEF FinishSet, Offers, Live, Finished, EndedBadly
<1>4. \A u \in Thread : Works(u, p) => u = t
  BY <1>1, Owner
<1>5. \A q \in ExecId : Works(t, q) => q = p
  BY <1>1 DEF Works, Carries, HandsOff
<1> QED
  BY <1>3, <1>4, <1>5, WorkOn

(* It writes another status of its own: the row has no handoff.            *)
LEMMA WorkStatus ==
    ASSUME TypeInv, WorkInv, NEW t \in Thread, NEW p \in ExecId, Alone(t),
           up' = up, faults' = 0 => faults = 0,
           Carries(t, p), Works(t, p)',
           \A q \in ExecId : Works(t, q)' => q = p,
           NEW status \in Live \cup EndedBadly, SetStatus(p, status),
           Carries(t, p)' <=> status \in Live
    PROVE  WorkInv'
<1>1. Works(t, p) /\ rows[p].status \in Live /\ rows[p].handoff = "none"
  BY Owner DEF Works
<1>2. StatusSet(p, status)
  BY StatusFacts
<1>3. /\ OtherRows(p) /\ rows'[p].handoff = "none" /\ rows'[p].status = status
      /\ ~Pending(p)'
  BY <1>1, <1>2 DEF StatusSet, Pending
<1>4. \A u \in Thread : Works(u, p) => u = t
  BY <1>1, Owner
<1>5. \A q \in ExecId : Works(t, q) => q = p
  BY <1>1 DEF Works, Carries, HandsOff
<1> QED
  BY <1>3, <1>4, <1>5, WorkOn

LEMMA ArriveWork ==
    ASSUME RunnerInv, WorkInv, NEW r \in Req, Arrive(r), up' = up,
           faults' = 0 => faults = 0
    PROVE  WorkInv'
<1>0. RestPc = {"idle", "admit", "insert", "insertSync", "handoffDone"} /\ r \in Thread /\ TypeInv
  BY DEF RestPc, Thread, RunnerInv
<1>1. thread[r].pc = "idle" /\ \A q \in ExecId : ~Works(r, q)
  BY <1>0, AtRest DEF Arrive, Load, RejectAuth, RetrySuccessor, At
<1>2. ASSUME NEW h \in Hook, Load(r, h) PROVE WorkInv'
  <2>1. thread'[r].pc \in RestPc /\ Alone(r)
    BY <1>0, <1>2, LoadFacts
  <2>2. UNCHANGED rows
    BY <1>2 DEF Load, tableVars
  <2> QED
    BY <1>0, <1>1, <2>1, <2>2, AtRestNext, WorkNone
<1>3. ASSUME NEW h \in Hook, RejectAuth(r, h) PROVE WorkInv'
  <2>1. UNCHANGED thread /\ Inserted(h, "failed", {}, NoHook)
    BY <1>0, <1>3, InsertedFacts DEF RejectAuth
  <2>2. Alone(r) /\ \A q \in ExecId : ~Works(r, q)'
    BY <1>0, <1>1, <2>1, AtRestNext DEF Alone
  <2>3. PICK n \in ExecId : n = nextId
    BY <2>1 DEF Inserted
  <2>4. /\ OtherRows(n) /\ rows'[n].status = "failed" /\ rows'[n].handoff = "none"
    BY <2>1, <2>3 DEF Inserted
  <2>5. ~Carries(r, n)' /\ ~HandsOff(r, n)' /\ ~Pending(n)'
    BY <2>2, <2>4 DEF Works, Pending
  <2>6. \A u \in Thread : ~Works(u, n)
    BY <2>3, NobodyThere
  <2> QED
    BY <1>0, <1>1, <2>2, <2>4, <2>5, <2>6, WorkOn DEF Live
<1>4. ASSUME NEW p \in ExecId, NEW a \in 1..MaxAttempt, RetrySuccessor(r, p, a)
      PROVE  WorkInv'
  <2>1. Retryable(p) /\ HandoffSet(p, "pending", rows[p].attempt + 1)
    BY <1>0, <1>4, ClaimFacts DEF RetrySuccessor
  <2>2. /\ OtherRows(p) /\ rows'[p].handoff = "pending"
        /\ rows'[p].status = "success"
    BY <2>1 DEF HandoffSet, Retryable
  <2>3. \A u \in Thread : ~Works(u, p)
    BY <2>1 DEF WorkInv, Works, Retryable, Live
  <2>4. thread'[r].pc = "dispatch" /\ thread'[r].exec = p /\ Alone(r)
    BY <1>0, <1>4, RetryFacts
  <2>5. HandsOff(r, p)' /\ ~Carries(r, p)' /\ \A q \in ExecId : Works(r, q)' => q = p
    BY <2>4 DEF Works, HandsOff, Carries
  <2> QED
    BY <1>0, <1>1, <2>2, <2>3, <2>4, <2>5, WorkOn DEF Live
<1> QED
  BY <1>2, <1>3, <1>4 DEF Arrive

LEMMA AsyncWork ==
    ASSUME RunnerInv, WorkInv, NEW r \in Req, AsyncStep(r), ~Launch(r), up' = up,
           faults' = 0 => faults = 0
    PROVE  WorkInv'
<1>0. /\ RestPc = {"idle", "admit", "insert", "insertSync", "handoffDone"}
      /\ r \in Thread /\ TypeInv /\ AfterPc(r) = "idle"
  BY DEF RestPc, Thread, RunnerInv, AfterPc
<1>1. thread[r].pc \in RestPc /\ \A q \in ExecId : ~Works(r, q)
  BY <1>0, AtRest DEF AsyncStep, AdmitAsync, RefuseAsync, InsertQueued, InsertQueuedFails, At
<1>2. CASE AdmitAsync(r) \/ RefuseAsync(r) \/ InsertQueuedFails(r)
  <2>1. thread'[r].pc \in RestPc /\ Alone(r) /\ UNCHANGED rows
    BY <1>0, <1>2, GotoFacts, DoneFacts
    DEF AdmitAsync, RefuseAsync, InsertQueuedFails, tableVars
  <2> QED
    BY <1>0, <1>1, <2>1, AtRestNext, WorkNone
<1>3. CASE InsertQueued(r)
  <2>1. /\ thread'[r].pc = "launch" /\ thread'[r].exec = nextId /\ Alone(r)
        /\ Inserted(thread[r].hook, "queued", {thread[r].hook}, thread[r].succ)
    BY <1>0, <1>3, InsertFacts, InsertedFacts DEF InsertQueued, StartRow, At
  <2>2. PICK n \in ExecId : n = nextId
    BY <2>1 DEF Inserted
  <2>3. /\ OtherRows(n) /\ rows'[n].status = "queued" /\ rows'[n].handoff = "none"
    BY <2>1, <2>2 DEF Inserted
  <2>4. /\ Carries(r, n)' /\ ~HandsOff(r, n)' /\ ~Pending(n)'
        /\ \A q \in ExecId : Works(r, q)' => q = n
    BY <2>1, <2>2, <2>3 DEF Works, Carries, HandsOff, Pending
  <2>5. \A u \in Thread : ~Works(u, n)
    BY <2>2, NobodyThere
  <2> QED
    BY <1>0, <1>1, <2>1, <2>3, <2>4, <2>5, WorkOn DEF Live
<1> QED
  BY <1>2, <1>3 DEF AsyncStep

LEMMA SyncWork ==
    ASSUME RunnerInv, WorkInv, NEW r \in Req, SyncStep(r), up, up' = up,
           faults' = 0 => faults = 0
    PROVE  WorkInv'
<1>0. /\ RestPc = {"idle", "admit", "insert", "insertSync", "handoffDone"}
      /\ r \in Thread /\ TypeInv /\ AfterPc(r) = "idle" /\ faults \in Nat
  BY DEF RestPc, Thread, RunnerInv, TypeInv, TypeOK, AfterPc
<1>1. CASE InsertRunning(r)
  <2>1. /\ thread'[r].pc = "runSync" /\ thread'[r].exec = nextId /\ Alone(r)
        /\ Inserted(thread[r].hook, "running", {thread[r].hook}, thread[r].succ)
        /\ thread[r].pc = "insertSync"
    BY <1>0, <1>1, InsertFacts, InsertedFacts DEF InsertRunning, StartRow, At
  <2>2. PICK n \in ExecId : n = nextId
    BY <2>1 DEF Inserted
  <2>3. /\ OtherRows(n) /\ rows'[n].status = "running" /\ rows'[n].handoff = "none"
    BY <2>1, <2>2 DEF Inserted
  <2>4. /\ Carries(r, n)' /\ ~HandsOff(r, n)' /\ ~Pending(n)'
        /\ \A q \in ExecId : Works(r, q)' => q = n
    BY <2>1, <2>2, <2>3 DEF Works, Carries, HandsOff, Pending
  <2>5. /\ \A u \in Thread : ~Works(u, n)
        /\ \A q \in ExecId : ~Works(r, q)
    BY <1>0, <2>1, <2>2, NobodyThere, AtRest
  <2> QED
    BY <1>0, <2>1, <2>3, <2>4, <2>5, WorkOn DEF Live
<1>2. CASE InsertRunningFails(r)
  <2>1. /\ thread[r].pc \in RestPc /\ thread'[r].pc \in RestPc /\ Alone(r) /\ UNCHANGED rows
    BY <1>0, <1>2, DoneFacts DEF InsertRunningFails, At, tableVars
  <2> QED
    BY <1>0, <2>1, AtRest, AtRestNext, WorkNone
<1>3. ASSUME thread[r].pc \in {"runSync", "finishSync"}
      PROVE  \E p \in ExecId : p = thread[r].exec /\ Carries(r, p) /\ Works(r, p)
  BY <1>0, <1>3, ThreadFacts DEF LocalShape, RowPc, Works, Carries
<1>4. ASSUME NEW s \in Outcome, RunSync(r, s) PROVE WorkInv'
  <2>1. /\ thread[r].pc = "runSync" /\ thread'[r].pc = "finishSync"
        /\ thread'[r].exec = thread[r].exec /\ Alone(r) /\ UNCHANGED rows
    BY <1>0, <1>4, ResultFacts DEF RunSync, At, tableVars, SamePart
  <2>2. PICK p \in ExecId : p = thread[r].exec /\ Carries(r, p) /\ Works(r, p)
    BY <1>3, <2>1
  <2>3. Carries(r, p)' /\ \A q \in ExecId : Works(r, q)' => q = p
    BY <2>1, <2>2 DEF Works, Carries, HandsOff
  <2>4. ~Pending(p)
    BY <1>0, <2>2, Owner DEF Pending
  <2> QED
    BY <1>0, <2>1, <2>2, <2>3, <2>4, WorkOnward
<1>5. CASE RunSyncPanics(r)
  <2>1. /\ thread[r].pc = "runSync" /\ thread'[r].pc \in RestPc
        /\ Alone(r) /\ UNCHANGED rows /\ faults' = faults + 1
    BY <1>0, <1>5, DoneFacts DEF RunSyncPanics, At, tableVars, Fault
  <2>2. PICK p \in ExecId : p = thread[r].exec /\ Carries(r, p) /\ Works(r, p)
    BY <1>3, <2>1
  <2>3. faults' # 0 /\ \A q \in ExecId : ~Works(r, q)' /\ ~Carries(r, q)'
    BY <1>0, <2>1, AtRestNext DEF Works
  <2> QED
    BY <1>0, <2>1, <2>2, <2>3, WorkOnward
<1>6. CASE FinishSync(r)
  <2>1. /\ thread[r].pc = "finishSync" /\ thread'[r].pc = "dispatch"
        /\ thread'[r].exec = thread[r].exec /\ Alone(r)
    BY <1>0, <1>6, GotoFacts DEF FinishSync, At, SameWork
  <2>2. PICK p \in ExecId : p = thread[r].exec /\ Carries(r, p) /\ Works(r, p)
    BY <1>3, <2>1
  <2>3. /\ HandsOff(r, p)' /\ ~Carries(r, p)'
        /\ \A q \in ExecId : Works(r, q)' => q = p
    BY <2>1, <2>2 DEF Works, Carries, HandsOff
  <2>4. thread[r].result \in Finished
    BY <1>0, <2>1, ThreadFacts DEF LocalShape
  <2>5. CASE FinishRow(p, thread[r].result)
    BY <1>0, <2>1, <2>2, <2>3, <2>4, <2>5, WorkFinished
  <2>6. CASE Fault /\ UNCHANGED tableVars
    <3>1. faults' # 0 /\ UNCHANGED rows
      BY <1>0, <2>6 DEF Fault, tableVars
    <3> QED
      BY <1>0, <2>1, <2>2, <2>3, <3>1, WorkOnward
  <2> QED
    BY <1>6, <2>2, <2>5, <2>6 DEF FinishSync
<1> QED
  BY <1>1, <1>2, <1>4, <1>5, <1>6 DEF SyncStep

LEMMA WorkerWork ==
    ASSUME RunnerInv, WorkInv, NEW w \in ExecId, WorkerTurns(w), up, up' = up,
           faults' = 0 => faults = 0
    PROVE  WorkInv'
<1>0. /\ w \in Thread /\ TypeInv /\ faults \in Nat
      /\ RestPc = {"idle", "admit", "insert", "insertSync", "handoffDone"}
  BY DEF Thread, RunnerInv, TypeInv, TypeOK, RestPc
<1>1. /\ Alone(w)
      /\ thread[w].pc \notin {"idle", "handoffDone"} => thread[w].exec = w
      /\ thread[w].pc = "finish" => thread[w].result \in Finished
      /\ thread[w].pc = "logPanic" => thread[w].result = "panic"
  BY <1>0, WorkerTurn, ThreadFacts DEF LocalShape, RunnerInv, CodeInv
<1>2. ASSUME WorkerGoes(w) \/ WorkerRuns(w) \/ ReleaseAdmission(w)
      PROVE  /\ thread[w].exec = w /\ thread'[w].exec = w
             /\ Works(w, w) /\ Works(w, w)' /\ \A q \in ExecId : Works(w, q)' => q = w
  <2>1. CASE WorkerGoes(w)
    BY <1>0, <1>1, <2>1, WorkerGoesFacts DEF SameWork, Works, Carries, HandsOff
  <2>2. CASE WorkerRuns(w)
    BY <1>0, <1>1, <2>2, WorkerRunsFacts DEF SamePart, Works, Carries, HandsOff
  <2>3. CASE ReleaseAdmission(w)
    BY <1>0, <1>1, <2>3, WorkerEndFacts DEF ReleaseAdmission, At, Works, Carries, HandsOff
  <2> QED
    BY <1>2, <2>1, <2>2, <2>3
<1>3. ASSUME Acquire(w) \/ Abandon(w) \/ \E s \in Outcome : Execute(w, s)
      PROVE  WorkInv'
  <2>1. /\ UNCHANGED rows /\ thread[w].pc \in {"start", "execute"}
        /\ thread'[w].pc \in {"markRunning", "endCanceled", "finish"}
    BY <1>0, <1>3, GotoFacts, ResultFacts DEF Acquire, Abandon, Execute, At, tableVars
  <2>2. Works(w, w) /\ \A q \in ExecId : Works(w, q)' => q = w
    BY <1>2, <1>3 DEF WorkerGoes, WorkerRuns
  <2>3. thread'[w].exec = w /\ thread[w].exec = w
    BY <1>2, <1>3 DEF WorkerGoes, WorkerRuns
  <2>4. Carries(w, w) /\ Carries(w, w)'
    BY <2>1, <2>3 DEF Carries
  <2>5. ~Pending(w)
    BY <1>0, <2>2, <2>4, Owner DEF Pending
  <2> QED
    BY <1>0, <1>1, <2>1, <2>2, <2>4, <2>5, WorkOnward
<1>4. CASE ExecutePanics(w)
  <2>1. /\ UNCHANGED rows /\ thread[w].pc = "execute" /\ faults' # 0
        /\ Works(w, w) /\ \A q \in ExecId : Works(w, q)' => q = w
        /\ thread[w].exec = w
    BY <1>0, <1>2, <1>4 DEF WorkerRuns, ExecutePanics, At, Fault, tableVars
  <2>2. Carries(w, w)
    BY <2>1 DEF Carries
  <2> QED
    BY <1>0, <1>1, <2>1, <2>2, WorkOnward
<1>5. CASE ReturnSlot(w)
  <2>1. /\ UNCHANGED rows /\ thread[w].pc = "finishSlot" /\ SameWork(w)
        /\ thread'[w].pc = IF thread[w].result = "panic" THEN "logPanic" ELSE "unregister"
    BY <1>0, <1>5, GotoFacts DEF ReturnSlot, At, tableVars
  <2>2. /\ Works(w, w) /\ \A q \in ExecId : Works(w, q)' => q = w
        /\ thread[w].exec = w /\ thread'[w].exec = w
    BY <1>2, <1>5 DEF WorkerGoes
  <2>3. (Carries(w, w)' <=> Carries(w, w)) /\ (Carries(w, w) \/ HandsOff(w, w)')
    BY <2>1, <2>2 DEF Carries, HandsOff, SameWork
  <2>4. Carries(w, w) => ~Pending(w)
    BY <1>0, <2>2, Owner DEF Pending
  <2> QED
    BY <1>0, <1>1, <2>1, <2>2, <2>3, <2>4, WorkOnward
<1>6. CASE DropCancel(w) \/ ReleaseAdmission(w)
  <2>1. /\ UNCHANGED rows /\ thread[w].pc \in {"unregister", "release"}
        /\ thread'[w].pc \in {"release", "dispatch"}
    BY <1>0, <1>6, GotoFacts, WorkerEndFacts DEF DropCancel, ReleaseAdmission, At, tableVars
  <2>2. /\ Works(w, w) /\ \A q \in ExecId : Works(w, q)' => q = w
        /\ thread[w].exec = w /\ thread'[w].exec = w
    BY <1>2, <1>6 DEF WorkerGoes
  <2>3. HandsOff(w, w)' /\ ~Carries(w, w) /\ ~Carries(w, w)'
    BY <2>1, <2>2 DEF Carries, HandsOff
  <2> QED
    BY <1>0, <1>1, <2>1, <2>2, <2>3, WorkOnward
<1>7. ASSUME WorkerGoes(w), thread'[w].pc \in {"finishSlot", "unregister", "execute"},
             Carries(w, w), Fault, UNCHANGED tableVars
      PROVE  WorkInv'
  <2>1. faults' # 0 /\ UNCHANGED rows
    BY <1>0, <1>7 DEF Fault, tableVars
  <2> QED
    BY <1>0, <1>1, <1>2, <1>7, <2>1, WorkOnward
<1>8. CASE EndCanceled(w) \/ LogPanic(w)
  <2>1. /\ thread[w].pc \in {"endCanceled", "logPanic"} /\ thread'[w].pc = "unregister"
        /\ WorkerGoes(w)
    BY <1>0, <1>8, GotoFacts DEF EndCanceled, LogPanic, At, WorkerGoes
  <2>2. Carries(w, w) /\ ~Carries(w, w)'
    BY <1>1, <1>2, <2>1 DEF Carries
  <2>3. ASSUME NEW status \in EndedBadly, LogEnd(w, status) PROVE WorkInv'
    BY <1>0, <1>1, <1>2, <2>1, <2>2, <2>3, WorkStatus DEF LogEnd, EndedBadly, Live
  <2>4. \/ \E status \in EndedBadly : LogEnd(w, status)
        \/ Fault /\ UNCHANGED tableVars
    BY <1>8 DEF EndCanceled, LogPanic, EndedBadly
  <2> QED
    BY <1>7, <2>1, <2>2, <2>3, <2>4
<1>9. CASE BeginRun(w)
  <2>1. /\ thread[w].pc = "markRunning" /\ thread'[w].pc = "execute"
        /\ WorkerGoes(w)
    BY <1>0, <1>9, GotoFacts DEF BeginRun, At, WorkerGoes
  <2>2. Carries(w, w) /\ Carries(w, w)'
    BY <1>2, <2>1 DEF Carries
  <2>3. CASE MarkRunning(w)
    BY <1>0, <1>1, <1>2, <2>1, <2>2, <2>3, WorkStatus DEF MarkRunning, Live
  <2> QED
    BY <1>7, <1>9, <2>1, <2>2, <2>3 DEF BeginRun
<1>10. CASE FinishRun(w)
  <2>1. /\ thread[w].pc = "finish" /\ thread'[w].pc = "finishSlot"
        /\ WorkerGoes(w) /\ SameWork(w) /\ thread[w].result \in Finished
    BY <1>0, <1>1, <1>10, GotoFacts DEF FinishRun, At, WorkerGoes
  <2>2. Carries(w, w) /\ ~Carries(w, w)' /\ HandsOff(w, w)'
    BY <1>2, <2>1 DEF Carries, HandsOff, SameWork, Finished, EndedBadly
  <2>3. CASE FinishRow(w, thread[w].result)
    BY <1>0, <1>1, <1>2, <2>1, <2>2, <2>3, WorkFinished
  <2> QED
    BY <1>7, <1>10, <2>1, <2>2, <2>3 DEF FinishRun
<1>11. CASE EndHandoff(w)
  <2>1. thread[w].pc \in RestPc /\ UNCHANGED rows
    BY <1>0, <1>11 DEF EndHandoff, At, tableVars
  <2>2. thread'[w].pc \in RestPc
    BY <1>0, <1>11, WorkerEndFacts
  <2> QED
    BY <1>0, <1>1, <2>1, <2>2, AtRest, AtRestNext, WorkNone
<1> QED
  BY <1>3, <1>4, <1>5, <1>6, <1>8, <1>9, <1>10, <1>11
  DEF WorkerTurns, WorkerGoes, WorkerRuns, WorkerEnds

LEMMA DispatchWork ==
    ASSUME RunnerInv, WorkInv, NEW t \in Thread, Dispatch(t), ~LaunchChild(t),
           [Next]_vars
    PROVE  WorkInv'
<1>0. /\ TypeInv /\ faults \in Nat /\ Alone(t) /\ up /\ up' = up
      /\ thread[t].pc \in {"dispatch", "recordFailure"}
      /\ faults' = 0 => faults = 0
  BY DispatchTurn, FaultsGrow DEF RunnerInv, TypeInv, TypeOK
<1>1. PICK p \in ExecId : p = Parent(t) /\ p < nextId
  BY <1>0, ThreadFacts DEF LocalShape, RowPc, Parent
<1>2. /\ Works(t, p) /\ HandsOff(t, p) /\ ~Carries(t, p)
      /\ \A q \in ExecId : Works(t, q) => q = p
  BY <1>0, <1>1 DEF Works, HandsOff, Carries, Parent
<1>3. ASSUME thread'[t].pc = AfterPc(t)
      PROVE  \A q \in ExecId : ~Works(t, q)' /\ ~Carries(t, q)' /\ ~HandsOff(t, q)'
  BY <1>3, AtRestNext DEF AfterPc, RestPc, Works
<1>4. CASE DispatchNothing(t)
  <2>1. ~Pending(p) /\ UNCHANGED rows /\ thread'[t].pc = AfterPc(t)
    BY <1>0, <1>1, <1>4, DoneFacts DEF DispatchNothing, tableVars
  <2> QED
    BY <1>0, <1>2, <1>3, <2>1, WorkOnward
<1>5. CASE DispatchRefused(t) \/ DispatchFails(t)
  <2>1. UNCHANGED rows /\ thread'[t].pc = "recordFailure" /\ thread'[t].exec = p
    BY <1>0, <1>1, <1>5, GotoFacts
    DEF DispatchRefused, DispatchFails, tableVars, SameWork, Parent
  <2>2. /\ HandsOff(t, p)' /\ ~Carries(t, p)'
        /\ \A q \in ExecId : Works(t, q)' => q = p
    BY <2>1 DEF Works, HandsOff, Carries
  <2> QED
    BY <1>0, <1>2, <2>1, <2>2, WorkOnward
<1>6. CASE RecordFailure(t)
  <2>1. thread'[t].pc = AfterPc(t)
    BY <1>0, <1>6, DoneFacts DEF RecordFailure
  <2>2. CASE FailHandoff(p)
    <3>1. HandoffSet(p, IF rows[p].handoff = "pending" THEN "failed" ELSE rows[p].handoff,
                     rows[p].attempt)
      BY <1>0, <2>2, FailFacts
    <3>2. /\ OtherRows(p) /\ rows'[p].handoff # "pending" /\ ~Pending(p)'
          /\ rows'[p].handoff # "none" => rows'[p].status = "success"
          /\ rows'[p].status = rows[p].status
      BY <1>2, <3>1, Owner DEF HandoffSet, Pending
    <3>3. faults' = 0 => rows'[p].status \notin Live
      BY <1>0, <1>2, <3>2, Owner
    <3>4. \A u \in Thread : Works(u, p) => u = t
      BY <1>2, Owner
    <3> QED
      BY <1>0, <1>2, <1>3, <2>1, <3>2, <3>3, <3>4, WorkOn
  <2>3. CASE Fault /\ UNCHANGED tableVars
    <3>1. faults' # 0 /\ UNCHANGED rows
      BY <1>0, <2>3 DEF Fault, tableVars
    <3> QED
      BY <1>0, <1>2, <1>3, <2>1, <3>1, WorkOnward
  <2> QED
    BY <1>1, <1>6, <2>2, <2>3 DEF RecordFailure
<1>7. CASE DispatchCommit(t)
  <2>1. Committed(p, hooks[rows[p].target].succ) /\ Pending(p)
    BY <1>0, <1>1, <1>7, CommittedFacts DEF DispatchCommit
  <2>2. PICK n \in ExecId : n = nextId
    BY <2>1 DEF Committed
  <2>3. /\ n # p /\ \A q \in ExecId \ {p, n} : rows'[q] = rows[q]
        /\ rows'[n].status = "queued" /\ rows'[n].handoff = "none"
        /\ rows'[p].status = "success" /\ rows'[p].handoff = "dispatched"
    BY <1>1, <2>1, <2>2 DEF Committed, Pending, ExecId
  <2>4. thread'[t].pc = "launchChild" /\ thread'[t].child = n
    BY <1>0, <1>7, <2>2, CommitFacts
  <2>5. /\ Carries(t, n)' /\ ~HandsOff(t, n)'
        /\ \A q \in ExecId \ {n} : ~Carries(t, q)' /\ ~HandsOff(t, q)'
    BY <2>4 DEF HandsOff, Carries
  <2>6. \A u \in Thread \ {t}, q \in ExecId :
            /\ Carries(u, q)' <=> Carries(u, q)
            /\ HandsOff(u, q)' <=> HandsOff(u, q)
    BY <1>0 DEF Alone, HandsOff, Carries
  <2>7. \A u \in Thread : ~Works(u, n)
    BY <2>2, NobodyThere
  <2>8. \A u \in Thread \ {t} : ~Works(u, p)
    BY <1>2, Owner
  <2>9. \A u, v \in Thread, q \in ExecId : Works(u, q)' /\ Works(v, q)' => u = v
    BY <2>5, <2>6, <2>7 DEF Works, WorkInv
  <2>10. \A u \in Thread, q \in ExecId :
             /\ Carries(u, q)' => rows'[q].status \in Live
             /\ HandsOff(u, q)' => rows'[q].handoff \in {"none", "pending"}
    <3> SUFFICES ASSUME NEW u \in Thread, NEW q \in ExecId
                 PROVE  /\ Carries(u, q)' => rows'[q].status \in Live
                        /\ HandsOff(u, q)' => rows'[q].handoff \in {"none", "pending"}
      OBVIOUS
    <3>1. CASE u = t
      BY <2>3, <2>5, <3>1 DEF Live
    <3>2. CASE u # t
      BY <2>3, <2>6, <2>7, <2>8, <3>2 DEF Works, WorkInv
    <3> QED
      BY <3>1, <3>2
  <2>11. \A q \in ExecId : rows'[q].handoff # "none" => rows'[q].status = "success"
    BY <2>3 DEF WorkInv
  <2>12. ASSUME faults' = 0, NEW q \in ExecId
         PROVE  /\ rows'[q].status \in Live => \E u \in Thread : Carries(u, q)'
                /\ Pending(q)' => \E u \in Thread : HandsOff(u, q)'
    <3>1. CASE q = n
      BY <2>3, <2>5, <3>1 DEF Pending
    <3>2. CASE q = p
      BY <2>3, <3>2 DEF Pending, Live
    <3>3. CASE q \notin {p, n}
      <4>1. rows'[q] = rows[q] /\ ~Carries(t, q) /\ ~HandsOff(t, q)
        BY <1>2, <2>3, <3>3 DEF Works
      <4> QED
        BY <1>0, <2>6, <2>12, <4>1 DEF WorkInv, Pending
    <3> QED
      BY <3>1, <3>2, <3>3
  <2> QED
    BY <2>9, <2>10, <2>11, <2>12 DEF WorkInv
<1> QED
  BY <1>4, <1>5, <1>6, <1>7 DEF Dispatch

LEMMA LaunchWork ==
    ASSUME RunnerInv, WorkInv, NEW t \in Thread, Launch(t) \/ LaunchChild(t)
    PROVE  WorkInv'
<1>1. /\ up' = up /\ faults' = faults /\ UNCHANGED rows
      /\ thread[t].pc \in {"launch", "launchChild"}
  BY DEF Launch, LaunchChild, LaunchHook, At, NoFault, outside, tableVars
<1>2. PICK h \in Hook, e \in ExecId : Launches(t, e) /\ LaunchFacts(t, h, e)
  BY LaunchCalls, Launched DEF RunnerInv
<1>3. Carries(t, e) /\ \A q \in ExecId : Works(t, q) => q = e
  BY <1>2 DEF Launches, Works, Carries, HandsOff
<1>4. /\ \A q \in ExecId : ~Works(t, q)' /\ ~Works(e, q)
      /\ \A q \in ExecId : Works(e, q)' => q = e
      /\ Carries(e, e)' /\ ~HandsOff(e, e)'
  BY <1>2 DEF LaunchFacts, AfterPc, Works, Carries, HandsOff
<1>5. \A u \in Thread \ {t, e}, q \in ExecId :
          /\ Carries(u, q)' <=> Carries(u, q)
          /\ HandsOff(u, q)' <=> HandsOff(u, q)
  BY <1>2 DEF LaunchFacts, Carries, HandsOff
<1>6. t # e /\ e \in Thread
  BY <1>2 DEF LaunchFacts
<1>7. /\ \A u \in Thread : Works(u, e) => u = t
      /\ rows[e].status \in Live /\ rows[e].handoff = "none" /\ ~Pending(e)
  BY <1>3, Owner DEF Works, Pending
<1>8. \A q \in ExecId : Pending(q)' <=> Pending(q)
  BY <1>1 DEF Pending
<1>9. \A u, v \in Thread, q \in ExecId : Works(u, q)' /\ Works(v, q)' => u = v
  BY <1>4, <1>5, <1>7 DEF Works, WorkInv
<1>10. \A u \in Thread, q \in ExecId :
           /\ Carries(u, q)' => rows'[q].status \in Live
           /\ HandsOff(u, q)' => rows'[q].handoff \in {"none", "pending"}
  BY <1>1, <1>4, <1>5, <1>7 DEF Works, WorkInv
<1>11. ASSUME up', faults' = 0, NEW q \in ExecId
       PROVE  /\ rows'[q].status \in Live => \E u \in Thread : Carries(u, q)'
              /\ Pending(q)' => \E u \in Thread : HandsOff(u, q)'
  <2>1. CASE q = e
    BY <1>4, <1>6, <1>7, <1>8, <2>1
  <2>2. CASE q # e
    <3>1. ~Works(t, q) /\ ~Works(e, q)
      BY <1>3, <1>4, <2>2
    <3> QED
      BY <1>1, <1>5, <1>8, <1>11, <3>1 DEF WorkInv, Works
  <2> QED
    BY <2>1, <2>2
<1> QED
  BY <1>1, <1>9, <1>10, <1>11 DEF WorkInv

LEMMA OutsideWork ==
    ASSUME RunnerInv, WorkInv,
           Crash \/ Restart \/ EditHooks \/ \E e \in ExecId : Cancel(e)
    PROVE  WorkInv'
<1>0. TypeInv /\ faults \in Nat
  BY DEF RunnerInv, TypeInv, TypeOK
<1>1. CASE EditHooks \/ \E e \in ExecId : Cancel(e)
  BY <1>1 DEF EditHooks, Cancel, NoFault, outside, tableVars, WorkInv, Works, Carries, HandsOff,
              Pending
<1>2. CASE Crash
  <2>1. /\ thread' = [t \in Thread |-> Idle] /\ Idle.pc = "idle"
        /\ UNCHANGED rows /\ ~up'
    BY <1>2 DEF Crash, Idle, tableVars
  <2>2. \A t \in Thread, q \in ExecId : ~Works(t, q)'
    BY <2>1, AtRestNext DEF RestPc
  <2> QED
    BY <2>1, <2>2 DEF WorkInv, Works
<1>3. CASE Restart
  <2>1. UNCHANGED thread /\ \A t \in Thread : thread'[t].pc = "idle"
    BY <1>3 DEF Restart, RunnerInv, CodeInv
  <2>2. \A t \in Thread, q \in ExecId : ~Works(t, q)'
    BY <2>1, AtRestNext DEF RestPc
  <2>3. CASE Sweep
    <3>1. Swept
      BY <1>0, <2>3, SweptFacts
    <3>2. \A q \in ExecId :
              /\ rows'[q].status \notin Live /\ ~Pending(q)'
              /\ rows'[q].handoff # "none" => rows'[q].status = "success"
      BY <3>1 DEF Swept, WorkInv, Pending, Live
    <3> QED
      BY <2>2, <3>2 DEF WorkInv, Works
  <2>4. CASE Fault /\ UNCHANGED tableVars
    <3>1. faults' # 0 /\ UNCHANGED rows
      BY <1>0, <2>4 DEF Fault, tableVars
    <3> QED
      BY <2>2, <3>1 DEF WorkInv, Works
  <2> QED
    BY <1>3, <2>3, <2>4 DEF Restart
<1> QED
  BY <1>1, <1>2, <1>3

LEMMA WorkStep ==
    ASSUME RunnerInv, WorkInv, [Next]_vars
    PROVE  WorkInv'
<1>0. TypeInv /\ (faults' = 0 => faults = 0)
  BY FaultsGrow DEF RunnerInv
<1>1. CASE UNCHANGED vars
  BY <1>1 DEF vars, WorkInv, Works, Carries, HandsOff, Pending
<1>2. ASSUME NEW r \in Req, Arrive(r) \/ SyncStep(r) \/ AsyncStep(r), ~Launch(r)
      PROVE  WorkInv'
  BY <1>0, <1>2, ReqTurn, ArriveWork, SyncWork, AsyncWork
<1>3. ASSUME NEW w \in ExecId, WorkerTurns(w) PROVE WorkInv'
  BY <1>0, <1>3, WorkerTurn, WorkerWork
<1> QED
  BY <1>1, <1>2, <1>3, StepCases, LaunchWork, DispatchWork, OutsideWork

LEMMA WorkInit ==
    ASSUME Init
    PROVE  WorkInv
<1>1. /\ thread = [t \in Thread |-> Idle] /\ Idle.pc = "idle"
      /\ rows = [e \in ExecId |-> NoRow]
  BY DEF Init, TableInit, Idle
<1>2. \A t \in Thread, q \in ExecId : ~Works(t, q)
  BY <1>1, AtRest DEF RestPc
<1>3. \A q \in ExecId : rows[q].status = "absent" /\ rows[q].handoff = "none"
  BY <1>1 DEF NoRow
<1> QED
  BY <1>2, <1>3 DEF WorkInv, Works, Live, Pending

-----------------------------------------------------------------------------
(* A launched execution is within reach of a cancel, or was cancelled,     *)
(* until its command has ended, and nothing is registered or cancelled     *)
(* that no worker will take out.                                           *)
CancelPc == {"start", "markRunning", "execute"}
EntryPc == RunPc \cup {"start", "logPanic", "unregister"}

RegistryInv ==
    \A e \in ExecId :
        /\ thread[e].pc \in CancelPc => e \in registered \cup canceled
        /\ e \in registered => e \notin canceled /\ thread[e].pc \in EntryPc
        /\ e \in canceled => thread[e].pc \in EntryPc \cup {"endCanceled"}

(* A turn that leaves the registry alone.                                  *)
LEMMA RegistryKept ==
    ASSUME RegistryInv, NEW t \in Thread, Alone(t), UNCHANGED registry,
           t \in ExecId =>
               /\ thread'[t].pc \in CancelPc => thread[t].pc \in CancelPc
               /\ thread[t].pc \in EntryPc =>
                      \/ thread'[t].pc \in EntryPc
                      \/ thread'[t].pc = "endCanceled" /\ t \in canceled
               /\ thread[t].pc = "endCanceled" =>
                      thread'[t].pc \in EntryPc \cup {"endCanceled"}
    PROVE  RegistryInv'
<1> SUFFICES ASSUME NEW e \in ExecId
             PROVE  /\ thread'[e].pc \in CancelPc => e \in registered \cup canceled
                    /\ e \in registered => e \notin canceled /\ thread'[e].pc \in EntryPc
                    /\ e \in canceled => thread'[e].pc \in EntryPc \cup {"endCanceled"}
  BY DEF RegistryInv, registry
<1>1. CASE e = t
  BY <1>1 DEF RegistryInv
<1>2. CASE e # t
  BY <1>2 DEF RegistryInv, Alone, Thread
<1> QED
  BY <1>1, <1>2

LEMMA RegistryStep ==
    ASSUME RunnerInv, RegistryInv, [Next]_vars
    PROVE  RegistryInv'
<1>0. /\ TypeInv /\ Req \cap ExecId = {} /\ Thread = Req \cup ExecId
      /\ EntryPc = {"markRunning", "execute", "finish", "finishSlot", "start", "logPanic",
                    "unregister"}
      /\ CancelPc = {"start", "markRunning", "execute"}
  BY ThreadAssumption DEF RunnerInv, Thread, EntryPc, CancelPc, RunPc
<1>1. CASE UNCHANGED vars
  BY <1>1 DEF vars, RegistryInv
<1>2. ASSUME NEW r \in Req, Arrive(r) \/ SyncStep(r) \/ AsyncStep(r), ~Launch(r)
      PROVE  RegistryInv'
  <2>1. UNCHANGED registry
    BY <1>2
    DEF Arrive, SyncStep, AsyncStep, Load, RejectAuth, RetrySuccessor, AdmitAsync, RefuseAsync,
        InsertQueued, InsertQueuedFails, InsertRunning, InsertRunningFails, RunSync,
        RunSyncPanics, FinishSync, process, registry
  <2> QED
    BY <1>0, <1>2, <2>1, ReqTurn, RegistryKept
<1>3. ASSUME NEW t \in Thread, Launch(t) \/ LaunchChild(t) PROVE RegistryInv'
  <2>1. PICK h \in Hook, e \in ExecId :
            Launches(t, e) /\ LaunchHook(t, h, e) /\ LaunchFacts(t, h, e)
    BY <1>3, LaunchCalls, Launched DEF RunnerInv
  <2>2. /\ registered' = registered \cup {e} /\ canceled' = canceled
        /\ thread[e].pc = "idle" /\ thread'[e].pc = "start"
        /\ thread[t].pc \in {"launch", "launchChild"}
        /\ thread'[t].pc \in {"idle", "handoffDone"}
        /\ t # e /\ \A f \in ExecId \ {t, e} : thread'[f] = thread[f]
    BY <1>0, <2>1 DEF LaunchHook, Register, LaunchFacts, AfterPc, Launches
  <2> SUFFICES ASSUME NEW f \in ExecId
               PROVE  /\ thread'[f].pc \in CancelPc => f \in registered' \cup canceled'
                      /\ f \in registered' => f \notin canceled' /\ thread'[f].pc \in EntryPc
                      /\ f \in canceled' => thread'[f].pc \in EntryPc \cup {"endCanceled"}
    BY DEF RegistryInv
  <2>3. CASE f = e
    BY <1>0, <2>2, <2>3 DEF RegistryInv
  <2>4. CASE f = t
    BY <1>0, <2>2, <2>4 DEF RegistryInv
  <2>5. CASE f \notin {t, e}
    BY <2>2, <2>5 DEF RegistryInv
  <2> QED
    BY <2>3, <2>4, <2>5
<1>4. ASSUME NEW t \in Thread, Dispatch(t), ~LaunchChild(t) PROVE RegistryInv'
  <2>1. UNCHANGED registry
    BY <1>4
    DEF Dispatch, DispatchNothing, RecordFailure, DispatchRefused, DispatchFails,
        DispatchCommit, process, registry
  <2>2. /\ Alone(t) /\ thread[t].pc \in {"dispatch", "recordFailure"}
        /\ thread'[t].pc \in {"idle", "handoffDone", "recordFailure", "launchChild"}
    BY <1>0, <1>4, DispatchTurn DEF AfterPc
  <2> QED
    BY <1>0, <2>1, <2>2, RegistryKept
<1>5. ASSUME NEW w \in ExecId, WorkerTurns(w) PROVE RegistryInv'
  <2>0. w \in Thread /\ Alone(w)
    BY <1>0, <1>5, WorkerTurn
  <2>1. CASE DropCancel(w)
    <3>1. /\ thread[w].pc = "unregister" /\ thread'[w].pc = "release"
          /\ registered' = registered \ {w} /\ canceled' = canceled \ {w}
      BY <1>0, <2>0, <2>1, GotoFacts DEF DropCancel, At, Unregister
    <3> SUFFICES ASSUME NEW f \in ExecId
                 PROVE  /\ thread'[f].pc \in CancelPc => f \in registered' \cup canceled'
                        /\ f \in registered' => f \notin canceled' /\ thread'[f].pc \in EntryPc
                        /\ f \in canceled' => thread'[f].pc \in EntryPc \cup {"endCanceled"}
      BY DEF RegistryInv
    <3>2. CASE f = w
      BY <1>0, <3>1, <3>2
    <3>3. CASE f # w
      BY <1>0, <2>0, <3>1, <3>3 DEF RegistryInv, Alone
    <3> QED
      BY <3>2, <3>3
  <2>2. CASE ~DropCancel(w)
    <3>1. UNCHANGED registry
      BY <1>5, <2>2
      DEF WorkerTurns, WorkerGoes, WorkerRuns, WorkerEnds, Acquire, Abandon, EndCanceled,
          BeginRun, FinishRun, ReturnSlot, LogPanic, ExecutePanics, Execute,
          ReleaseAdmission, EndHandoff, process, registry
    <3>2. CASE WorkerGoes(w)
      <4>1. thread'[w].pc = "endCanceled" => w \in canceled
        BY <2>2, <3>2, WorkerGoesFacts, <1>0 DEF Abandon, GiveUp
      <4>2. /\ thread[w].pc \in EntryPc \cup {"endCanceled"}
            /\ thread'[w].pc \in EntryPc \cup {"endCanceled"}
            /\ thread'[w].pc \in CancelPc => thread[w].pc \in CancelPc
        BY <2>2, <3>2, WorkerGoesFacts, <1>0
      <4> QED
        BY <2>0, <3>1, <4>1, <4>2, RegistryKept
    <3>3. CASE WorkerRuns(w)
      <4>1. /\ thread[w].pc = "execute" /\ thread'[w].pc \in {"finishSlot", "finish"}
        BY <3>3, WorkerRunsFacts, <1>0
      <4> QED
        BY <1>0, <2>0, <3>1, <4>1, RegistryKept
    <3>4. CASE WorkerEnds(w)
      <4>1. /\ thread[w].pc \in {"release", "handoffDone"}
            /\ thread'[w].pc \in {"dispatch", "idle"}
        BY <3>4, WorkerEndFacts, <1>0 DEF WorkerEnds, ReleaseAdmission, EndHandoff, At
      <4> QED
        BY <1>0, <2>0, <3>1, <4>1, RegistryKept
    <3> QED
      BY <1>5, <3>2, <3>3, <3>4 DEF WorkerTurns
  <2> QED
    BY <2>1, <2>2
<1>6. CASE EditHooks \/ Restart
  BY <1>6 DEF EditHooks, Restart, RegistryInv, process
<1>7. ASSUME NEW e \in ExecId, Cancel(e) PROVE RegistryInv'
  BY <1>7 DEF Cancel, CancelEntry, RegistryInv
<1>8. CASE Crash
  <2>1. /\ registered' = {} /\ canceled' = {}
        /\ \A t \in Thread : thread'[t].pc = "idle"
    BY <1>8 DEF Crash, Reset, Idle
  <2> QED
    BY <1>0, <2>1 DEF RegistryInv
<1> QED
  BY <1>1, <1>2, <1>3, <1>4, <1>5, <1>6, <1>7, <1>8, StepCases

(* The inductive invariant of executions at work.                          *)
LifeInv == RunnerInv /\ WorkInv /\ RegistryInv

LEMMA LifeInit ==
    ASSUME Init
    PROVE  LifeInv
<1>1. RegistryInv
  BY DEF Init, RunnerInit, Idle, Thread, RegistryInv, CancelPc, EntryPc
<1> QED
  BY <1>1, InitRunner, WorkInit DEF LifeInv

LEMMA LifeStep ==
    ASSUME LifeInv, [Next]_vars
    PROVE  LifeInv'
BY RunnerStep, WorkStep, RegistryStep DEF LifeInv

LEMMA LifeAlways == Spec => []LifeInv
<1>1. LifeInv /\ [Next]_vars => LifeInv'
  BY LifeStep
<1> QED
  BY <1>1, LifeInit, PTL DEF Spec

(* A row that has ended is carried by nobody and, unless a write failed, a *)
(* live one is carried by exactly one thread, also after a restart: with   *)
(* any number of requests, hooks and crashes.                              *)
THEOREM LiveRowIsCarriedHolds == Spec => []LiveRowIsCarried
<1>1. LifeInv => LiveRowIsCarried
  <2>1. LifeInv => RegistryInv /\ WorkInv /\ CancelPc = {"start", "markRunning", "execute"}
    BY DEF LifeInv, CancelPc
  <2>2. ASSUME WorkInv, NEW e \in ExecId
        PROVE  /\ \A t \in Thread : Carries(t, e) => rows[e].status \in Live
               /\ \A t, u \in Thread : Carries(t, e) /\ Carries(u, e) => t = u
               /\ up /\ faults = 0 /\ rows[e].status \in Live =>
                      \E t \in Thread : Carries(t, e)
    BY <2>2 DEF WorkInv, Works
  <2> QED
    BY <2>1, <2>2 DEF LiveRowIsCarried, RegistryInv, EntryPc
<1> QED
  BY <1>1, LifeAlways, PTL

(* A pending handoff has exactly one thread behind it, unless a write      *)
(* failed: whoever dispatches, retries or restarts.                        *)
THEOREM PendingIsOwnedHolds == Spec => []PendingIsOwned
<1>1. LifeInv => PendingIsOwned
  BY DEF LifeInv, WorkInv, Works, PendingIsOwned
<1> QED
  BY <1>1, LifeAlways, PTL

-----------------------------------------------------------------------------
(* What a step may do to the executions table, whoever takes it.           *)
SameAccepted == accepted' = accepted

TableSame == UNCHANGED <<rows, nextId>> /\ SameAccepted

RowStarted(h, status, target) ==
    /\ status \in Live /\ target \in Hook \cup {NoHook}
    /\ Inserted(h, status, {h}, target) /\ SameAccepted

RowRejected(h) == Inserted(h, "failed", {}, NoHook) /\ SameAccepted

Unsettled(e) == rows[e].status \in Live /\ rows[e].handoff = "none"

RowMarked(e, status) ==
    /\ Unsettled(e) /\ status \in {"running"} \cup EndedBadly
    /\ StatusSet(e, status) /\ SameAccepted

RowFinished(e, status) ==
    Unsettled(e) /\ status \in Finished /\ FinishSet(e, status) /\ SameAccepted

RowHandedOff(p, target) ==
    /\ Pending(p) /\ rows[p].target \in Hook /\ rows[p].target \notin rows[p].path
    /\ target \in Hook \cup {NoHook} /\ Committed(p, target) /\ SameAccepted

RowRefused(p) ==
    Pending(p) /\ HandoffSet(p, "failed", rows[p].attempt) /\ SameAccepted

RowClaimed(p) ==
    /\ Retryable(p) /\ rows[p].attempt \in 1..MaxAttempt
    /\ HandoffSet(p, "pending", rows[p].attempt + 1)
    /\ \A q \in ExecId, a \in 1..MaxAttempt :
           accepted'[q][a] = IF q = p /\ a = rows[p].attempt THEN accepted[q][a] + 1
                             ELSE accepted[q][a]

RowsSwept == Swept /\ SameAccepted

RowEffect ==
    \/ TableSame \/ RowsSwept
    \/ \E h \in Hook : \/ RowRejected(h)
                       \/ \E status \in Live, target \in Hook \cup {NoHook} :
                              RowStarted(h, status, target)
    \/ \E e \in ExecId : \/ \E status \in {"running"} \cup EndedBadly : RowMarked(e, status)
                         \/ \E status \in Finished : RowFinished(e, status)
    \/ \E p \in ExecId : \/ \E target \in Hook \cup {NoHook} : RowHandedOff(p, target)
                         \/ RowRefused(p) \/ RowClaimed(p)

LEMMA ReqEffect ==
    ASSUME RunnerInv, WorkInv, NEW r \in Req, Arrive(r) \/ SyncStep(r) \/ AsyncStep(r), ~Launch(r)
    PROVE  RowEffect
<1>0. r \in Thread /\ TypeInv /\ LocalShape(r, thread[r], rows, nextId)
  BY ThreadFacts DEF Thread, RunnerInv
<1>1. ASSUME NEW h \in Hook, Load(r, h) \/ RejectAuth(r, h) PROVE RowEffect
  BY <1>0, <1>1, InsertedFacts
  DEF Load, RejectAuth, RowEffect, TableSame, RowRejected, SameAccepted, tableVars
<1>2. ASSUME NEW p \in ExecId, NEW a \in 1..MaxAttempt, RetrySuccessor(r, p, a) PROVE RowEffect
  <2>1. HandoffSet(p, "pending", rows[p].attempt + 1) /\ Retryable(p) /\ rows[p].attempt = a
    BY <1>0, <1>2, ClaimFacts DEF RetrySuccessor
  <2>2. accepted' = [accepted EXCEPT ![p][a] = @ + 1]
    BY <1>2 DEF RetrySuccessor
  <2>3. accepted \in [ExecId -> [1..MaxAttempt -> Nat]]
    BY <1>0 DEF TypeInv, TypeOK
  <2>4. \A q \in ExecId, b \in 1..MaxAttempt :
            accepted'[q][b] = IF q = p /\ b = a THEN accepted[q][b] + 1 ELSE accepted[q][b]
    BY <2>2, <2>3
  <2> QED
    BY <2>1, <2>4 DEF RowEffect, RowClaimed
<1>3. ASSUME NEW status \in Live, StartRow(r, status), thread[r].hook \in Hook, SameAccepted,
             thread[r].succ \in Hook \cup {NoHook}
      PROVE  RowEffect
  <2>1. Inserted(thread[r].hook, status, {thread[r].hook}, thread[r].succ)
    BY <1>0, <1>3, InsertedFacts DEF StartRow
  <2> QED
    BY <1>3, <2>1 DEF RowEffect, RowStarted
<1>4. CASE InsertQueued(r) \/ InsertRunning(r)
  <2>1. /\ thread[r].pc \in HookPc /\ SameAccepted
        /\ StartRow(r, "queued") \/ StartRow(r, "running")
    BY <1>4 DEF InsertQueued, InsertRunning, At, HookPc, OwnPc, SameAccepted
  <2>2. thread[r].hook \in Hook /\ thread[r].succ \in Hook \cup {NoHook}
    BY <1>0, <2>1 DEF LocalShape, TypeInv, TypeOK, Local
  <2> QED
    BY <1>3, <2>1, <2>2 DEF Live
<1>5. CASE FinishSync(r)
  <2>1. /\ thread[r].pc = "finishSync" /\ SameAccepted
        /\ FinishRow(thread[r].exec, thread[r].result) \/ UNCHANGED tableVars
    BY <1>5 DEF FinishSync, At, SameAccepted
  <2>2. PICK e \in ExecId : e = thread[r].exec
    BY <1>0, <2>1 DEF LocalShape, RowPc
  <2>3. thread[r].result \in Finished /\ Carries(r, e)
    BY <1>0, <2>1, <2>2 DEF LocalShape, Carries
  <2>4. Unsettled(e)
    BY <1>0, <2>3, Owner DEF Works, Unsettled
  <2>5. CASE FinishRow(e, thread[r].result)
    BY <1>0, <2>1, <2>3, <2>4, <2>5, FinishFacts DEF RowEffect, RowFinished, Unsettled
  <2> QED
    BY <2>1, <2>2, <2>5 DEF RowEffect, TableSame, tableVars
<1>6. CASE /\ ~FinishSync(r) /\ ~InsertQueued(r) /\ ~InsertRunning(r)
           /\ SyncStep(r) \/ AsyncStep(r)
  BY <1>6
  DEF SyncStep, AsyncStep, AdmitAsync, RefuseAsync, InsertQueuedFails, Launch, LaunchHook,
      InsertRunningFails, RunSync, RunSyncPanics, RowEffect, TableSame, SameAccepted, tableVars
<1> QED
  BY <1>1, <1>2, <1>4, <1>5, <1>6 DEF Arrive

LEMMA WorkerEffect ==
    ASSUME RunnerInv, WorkInv, NEW w \in ExecId, WorkerTurns(w)
    PROVE  RowEffect
<1>0. /\ w \in Thread /\ TypeInv
      /\ thread[w].pc \notin {"idle", "handoffDone"} => thread[w].exec = w
      /\ thread[w].pc = "finish" => thread[w].result \in Finished
      /\ thread[w].pc = "logPanic" => thread[w].result = "panic"
  BY ThreadFacts DEF Thread, RunnerInv, LocalShape, CodeInv
<1>1. Carries(w, w) => Unsettled(w)
  BY <1>0, Owner DEF Works, Unsettled
<1>2. ASSUME UNCHANGED tableVars, SameAccepted PROVE RowEffect
  BY <1>2 DEF RowEffect, TableSame, tableVars
<1>3. CASE EndCanceled(w) \/ LogPanic(w) \/ BeginRun(w)
  <2>1. /\ thread[w].pc \in {"endCanceled", "logPanic", "markRunning"} /\ SameAccepted
        /\ \/ UNCHANGED tableVars
           \/ \E status \in {"running"} \cup EndedBadly : SetStatus(w, status)
    BY <1>3 DEF EndCanceled, LogPanic, BeginRun, At, SameAccepted, LogEnd, MarkRunning,
                EndedBadly
  <2>2. Unsettled(w)
    BY <1>0, <1>1, <2>1 DEF Carries
  <2>3. ASSUME NEW status \in {"running"} \cup EndedBadly, SetStatus(w, status)
        PROVE  RowEffect
    <3>1. StatusSet(w, status)
      BY <1>0, <2>3, StatusFacts
    <3> QED
      BY <2>1, <2>2, <2>3, <3>1 DEF RowEffect, RowMarked
  <2> QED
    BY <1>2, <2>1, <2>3
<1>4. CASE FinishRun(w)
  <2>1. /\ thread[w].pc = "finish" /\ SameAccepted
        /\ FinishRow(w, thread[w].result) \/ UNCHANGED tableVars
    BY <1>4 DEF FinishRun, At, SameAccepted
  <2>2. thread[w].result \in Finished /\ Unsettled(w)
    BY <1>0, <1>1, <2>1 DEF Carries
  <2>3. CASE FinishRow(w, thread[w].result)
    BY <1>0, <2>1, <2>2, <2>3, FinishFacts DEF RowEffect, RowFinished, Unsettled
  <2> QED
    BY <1>2, <2>1, <2>3
<1>5. CASE ~(EndCanceled(w) \/ LogPanic(w) \/ BeginRun(w) \/ FinishRun(w))
  BY <1>2, <1>5
  DEF WorkerTurns, WorkerGoes, WorkerRuns, WorkerEnds, Acquire, Abandon, ReturnSlot,
      DropCancel, ExecutePanics, Execute, ReleaseAdmission, EndHandoff, SameAccepted
<1> QED
  BY <1>3, <1>4, <1>5

LEMMA DispatchEffect ==
    ASSUME RunnerInv, WorkInv, NEW t \in Thread, Dispatch(t), ~LaunchChild(t)
    PROVE  RowEffect
<1>0. TypeInv /\ thread[t].pc \in {"dispatch", "recordFailure"}
  BY DispatchTurn DEF RunnerInv
<1>1. PICK p \in ExecId : p = Parent(t) /\ p < nextId
  BY <1>0, ThreadFacts DEF LocalShape, RowPc, Parent
<1>2. ASSUME UNCHANGED tableVars, SameAccepted PROVE RowEffect
  BY <1>2 DEF RowEffect, TableSame, tableVars
<1>3. CASE DispatchCommit(t)
  <2>1. /\ Committed(p, hooks[rows[p].target].succ) /\ Pending(p) /\ SameAccepted
        /\ rows[p].target \notin rows[p].path
    BY <1>0, <1>1, <1>3, CommittedFacts DEF DispatchCommit, CanDispatch, SameAccepted
  <2>2. rows[p].target \in Hook
    BY <1>0, <2>1 DEF TypeInv, Shape, RowShape, Pending
  <2>3. hooks[rows[p].target].succ \in Hook \cup {NoHook}
    BY <1>0, <2>2 DEF TypeInv, TypeOK, ConfigTypeOK, HookRow
  <2> QED
    BY <2>1, <2>2, <2>3 DEF RowEffect, RowHandedOff
<1>4. CASE RecordFailure(t)
  <2>1. SameAccepted /\ (FailHandoff(p) \/ UNCHANGED tableVars)
    BY <1>1, <1>4 DEF RecordFailure, SameAccepted
  <2>2. CASE FailHandoff(p) /\ rows[p].handoff = "pending"
    <3>1. Pending(p)
      BY <2>2 DEF WorkInv, Pending
    <3>2. HandoffSet(p, "failed", rows[p].attempt)
      BY <1>0, <2>2, FailFacts
    <3> QED
      BY <2>1, <3>1, <3>2 DEF RowEffect, RowRefused
  <2>3. CASE FailHandoff(p) /\ rows[p].handoff # "pending"
    <3>1. rows' = [rows EXCEPT ![p] = [rows[p] EXCEPT !.handoff = rows[p].handoff]]
      BY <2>3 DEF FailHandoff
    <3>2. rows[p] \in Row /\ rows \in [ExecId -> Row]
      BY <1>0 DEF TypeInv, TypeOK, TableTypeOK
    <3>3. [rows[p] EXCEPT !.handoff = rows[p].handoff] = rows[p]
      BY <3>2 DEF Row
    <3>4. rows' = rows
      BY <3>1, <3>2, <3>3
    <3> QED
      BY <1>2, <2>1, <2>3, <3>4 DEF FailHandoff, tableVars
  <2> QED
    BY <1>2, <2>1, <2>2, <2>3
<1>5. CASE ~DispatchCommit(t) /\ ~RecordFailure(t)
  BY <1>2, <1>5
  DEF Dispatch, DispatchNothing, DispatchRefused, DispatchFails, SameAccepted
<1> QED
  BY <1>3, <1>4, <1>5

LEMMA StepEffect ==
    ASSUME RunnerInv, WorkInv, [Next]_vars
    PROVE  RowEffect
<1>1. ASSUME UNCHANGED tableVars, SameAccepted PROVE RowEffect
  BY <1>1 DEF RowEffect, TableSame, tableVars
<1>2. CASE UNCHANGED vars \/ \E t \in Thread : Launch(t) \/ LaunchChild(t)
  BY <1>1, <1>2 DEF vars, Launch, LaunchChild, LaunchHook, SameAccepted, tableVars
<1>3. CASE EditHooks \/ Crash \/ \E e \in ExecId : Cancel(e)
  BY <1>1, <1>3 DEF EditHooks, Crash, Cancel, SameAccepted
<1>4. CASE Restart
  BY <1>1, <1>4, SweptFacts DEF Restart, RunnerInv, SameAccepted, RowEffect, RowsSwept
<1> QED
  BY <1>2, <1>3, <1>4, StepCases, ReqEffect, WorkerEffect, DispatchEffect

LEMMA FinalStep ==
    ASSUME TypeInv, RowEffect, NEW e \in ExecId, rows[e].status \in Finished
    PROVE  rows'[e].status = rows[e].status
<1>0. rows[e].status \notin Live /\ rows[e].status # "absent" /\ NoRow.status = "absent"
  BY DEF Live, Finished, EndedBadly, NoRow
<1>1. CASE TableSame \/ RowsSwept
  BY <1>0, <1>1 DEF TableSame, RowsSwept, Swept
<1>2. ASSUME NEW h, NEW status, NEW path, NEW target, Inserted(h, status, path, target)
      PROVE  rows'[e].status = rows[e].status
  BY <1>0, <1>2 DEF Inserted, OtherRows
<1>3. ASSUME NEW q \in ExecId, NEW status,
             RowMarked(q, status) \/ RowFinished(q, status)
      PROVE  rows'[e].status = rows[e].status
  BY <1>0, <1>3 DEF RowMarked, RowFinished, Unsettled, StatusSet, FinishSet, OtherRows
<1>4. ASSUME NEW p \in ExecId, NEW target, RowHandedOff(p, target)
      PROVE  rows'[e].status = rows[e].status
  BY <1>0, <1>4 DEF RowHandedOff, Committed
<1>5. ASSUME NEW p \in ExecId, RowRefused(p) \/ RowClaimed(p)
      PROVE  rows'[e].status = rows[e].status
  BY <1>5 DEF RowRefused, RowClaimed, HandoffSet, OtherRows
<1> QED
  BY <1>1, <1>2, <1>3, <1>4, <1>5 DEF RowEffect, RowRejected, RowStarted

(* No late write by a worker, no retry, cancel, crash or restart changes   *)
(* the status of an execution that has ended.                              *)
THEOREM FinishedIsFinalHolds == Spec => FinishedIsFinal
<1> DEFINE Final == \A e \in ExecId :
                        rows[e].status \in Finished => rows'[e].status = rows[e].status
<1>1. LifeInv /\ [Next]_vars => [Final]_vars
  BY StepEffect, FinalStep DEF LifeInv, RunnerInv
<1>2. FinishedIsFinal <=> [][Final]_vars
  BY DEF FinishedIsFinal
<1> HIDE DEF Final
<1> QED
  BY <1>1, <1>2, LifeAlways, PTL DEF Spec

-----------------------------------------------------------------------------
(* The successors of an execution: every one but the latest of a dispatch  *)
(* has ended badly, there are no more of them than attempts, and an        *)
(* attempt is claimed exactly once, by the claim of the next.              *)
Bad(e) == rows[e].status \in EndedBadly

Handed(p) ==
    /\ rows[p].handoff = "none" <=> rows[p].attempt = 0
    /\ rows[p].handoff = "dispatched" => rows[p].child # 0
    /\ rows[p].child # 0 => rows[p].child \in Children(p)
    /\ \A c \in Children(p) :
           /\ rows[p].handoff # "none"
           /\ Bad(c) \/ (c = rows[p].child /\ rows[p].handoff = "dispatched")
    /\ Cardinality(Children(p)) + (IF rows[p].handoff = "pending" THEN 1 ELSE 0)
           <= rows[p].attempt
    /\ \A a \in 1..MaxAttempt : accepted[p][a] = IF a < rows[p].attempt THEN 1 ELSE 0

SuccInv ==
    /\ \A e \in ExecId : rows[e].parent < e
    /\ \A p \in ExecId : Handed(p)

SameParents == \A e \in ExecId : rows'[e].parent = rows[e].parent

(* A row whose handoff a step leaves alone.                                *)
LEMMA HandedAside ==
    ASSUME TypeInv, RowEffect, NEW p \in ExecId, Handed(p), Children(p)' = Children(p),
           rows'[p].handoff = rows[p].handoff, rows'[p].attempt = rows[p].attempt,
           rows'[p].child = rows[p].child,
           \A a \in 1..MaxAttempt : accepted'[p][a] = accepted[p][a]
    PROVE  Handed(p)'
<1>1. \A c \in Children(p) : Bad(c) => Bad(c)'
  BY FinalStep DEF Bad, Finished, Children
<1> HIDE DEF Children
<1> QED
  BY <1>1 DEF Handed

(* A step that inserts no successor and touches one handoff at most.       *)
LEMMA HandedElsewhere ==
    ASSUME TypeInv, RowEffect, SuccInv, NEW e \in ExecId, OtherRows(e),
           rows'[e].parent = rows[e].parent, Handed(e)',
           \A p \in ExecId \ {e}, a \in 1..MaxAttempt : accepted'[p][a] = accepted[p][a]
    PROVE  SuccInv'
<1>1. SameParents
  BY DEF SameParents, OtherRows
<1>2. \A p \in ExecId : Children(p)' = Children(p)
  BY <1>1 DEF SameParents, Children
<1>3. ASSUME NEW p \in ExecId, p # e PROVE Handed(p)'
  BY <1>2, <1>3, HandedAside DEF OtherRows, SuccInv
<1> QED
  BY <1>1, <1>3 DEF SuccInv, SameParents

(* Nobody is the child of a row that is not there yet.                     *)
LEMMA NoChildYet ==
    ASSUME TypeInv, SuccInv, nextId \in ExecId
    PROVE  /\ \A e \in ExecId : rows[e].parent # nextId
           /\ Children(nextId) = {}
<1>1. \A e \in ExecId : e >= nextId => rows[e].parent = 0
  BY DEF TypeInv, Shape, NoRow
<1>2. \A e \in ExecId : rows[e].parent < e
  BY DEF SuccInv
<1> QED
  BY <1>1, <1>2, ExecAssumption DEF Children, ExecId

LEMMA SuccInserted ==
    ASSUME TypeInv, RowEffect, SuccInv, SameAccepted,
           NEW h, NEW status, NEW path, NEW target, Inserted(h, status, path, target)
    PROVE  SuccInv'
<1>1. PICK n \in ExecId : n = nextId
  BY DEF Inserted
<1>2. /\ OtherRows(n) /\ rows[n].parent = 0 /\ rows'[n].parent = 0
      /\ rows'[n].handoff = rows[n].handoff /\ rows'[n].attempt = rows[n].attempt
      /\ rows'[n].child = rows[n].child
  BY <1>1 DEF Inserted, NoRow
<1>3. Children(n)' = Children(n)
  BY <1>2 DEF OtherRows, Children
<1>4. Handed(n)'
  BY <1>2, <1>3, HandedAside DEF SuccInv, SameAccepted
<1> QED
  BY <1>2, <1>4, HandedElsewhere DEF SameAccepted

LEMMA SuccMarked ==
    ASSUME TypeInv, RowEffect, SuccInv, NEW e \in ExecId, NEW status, RowMarked(e, status)
    PROVE  SuccInv'
<1>1. /\ OtherRows(e) /\ rows'[e].parent = rows[e].parent /\ SameAccepted
      /\ rows'[e].handoff = rows[e].handoff /\ rows'[e].attempt = rows[e].attempt
      /\ rows'[e].child = rows[e].child
  BY DEF RowMarked, StatusSet, SameKin
<1>2. Children(e)' = Children(e)
  BY <1>1 DEF OtherRows, Children
<1>3. Handed(e)'
  BY <1>1, <1>2, HandedAside DEF SuccInv, SameAccepted
<1> QED
  BY <1>1, <1>3, HandedElsewhere DEF SameAccepted

LEMMA SuccFinished ==
    ASSUME TypeInv, RowEffect, SuccInv, NEW e \in ExecId, NEW status, RowFinished(e, status)
    PROVE  SuccInv'
<1>1. /\ OtherRows(e) /\ rows'[e].parent = rows[e].parent /\ SameAccepted
      /\ rows'[e].child = rows[e].child /\ rows[e].handoff = "none"
      /\ \/ rows'[e].handoff = "none" /\ rows'[e].attempt = 0
         \/ rows'[e].handoff = "pending" /\ rows'[e].attempt = 1
  BY DEF RowFinished, Unsettled, FinishSet, SameKin
<1>2. /\ Handed(e) /\ Children(e) = {} /\ rows[e].child = 0 /\ rows[e].attempt = 0
      /\ \A a \in 1..MaxAttempt : accepted[e][a] = 0
  BY <1>1 DEF SuccInv, Handed
<1>3. Children(e)' = {}
  BY <1>1, <1>2 DEF OtherRows, Children
<1>4. Handed(e)'
  BY <1>1, <1>2, <1>3, FS_EmptySet DEF Handed, SameAccepted
<1> QED
  BY <1>1, <1>4, HandedElsewhere DEF SameAccepted

LEMMA SuccSettled ==
    ASSUME TypeInv, RowEffect, SuccInv, NEW p \in ExecId, RowRefused(p) \/ RowClaimed(p)
    PROVE  SuccInv'
<1>1. /\ OtherRows(p) /\ rows'[p].parent = rows[p].parent /\ rows'[p].child = rows[p].child
  BY DEF RowRefused, RowClaimed, HandoffSet, SameKin
<1>2. Children(p)' = Children(p) /\ Cardinality(Children(p)) \in Nat
  BY <1>1, FiniteIds DEF OtherRows, Children
<1>3. \A c \in Children(p) : Bad(c) => Bad(c)'
  BY FinalStep DEF Bad, Finished, Children
<1>4. Handed(p) /\ rows[p].attempt \in Nat
  BY DEF SuccInv, TypeInv, TypeOK, TableTypeOK, Row
<1>5. CASE RowRefused(p)
  <2>1. /\ rows[p].handoff = "pending" /\ rows'[p].handoff = "failed"
        /\ rows'[p].attempt = rows[p].attempt /\ accepted' = accepted
    BY <1>5 DEF RowRefused, Pending, HandoffSet, SameAccepted
  <2> HIDE DEF Children
  <2>2. Handed(p)'
    BY <1>1, <1>2, <1>3, <1>4, <2>1 DEF Handed
  <2> QED
    BY <1>1, <2>1, <2>2, HandedElsewhere
<1>6. CASE RowClaimed(p)
  <2>1. /\ rows'[p].handoff = "pending" /\ rows'[p].attempt = rows[p].attempt + 1
        /\ \A q \in ExecId, a \in 1..MaxAttempt :
               accepted'[q][a] = IF q = p /\ a = rows[p].attempt THEN accepted[q][a] + 1
                                 ELSE accepted[q][a]
    BY <1>6 DEF RowClaimed, HandoffSet
  <2>2. /\ rows[p].handoff \notin {"none", "pending"}
        /\ rows[p].handoff = "dispatched" => Bad(rows[p].child)
    BY <1>6 DEF RowClaimed, Retryable, Bad
  <2>3. \A c \in Children(p) : Bad(c)
    BY <1>4, <2>2 DEF Handed
  <2>4. \A a \in 1..MaxAttempt : accepted'[p][a] = IF a < rows'[p].attempt THEN 1 ELSE 0
    BY <1>4, <2>1 DEF Handed
  <2> HIDE DEF Children
  <2>5. Cardinality(Children(p)) + 1 <= rows'[p].attempt
    BY <1>2, <1>4, <2>1, <2>2 DEF Handed
  <2>6. Handed(p)'
    BY <1>1, <1>2, <1>3, <1>4, <2>1, <2>3, <2>4, <2>5 DEF Handed
  <2> QED
    BY <1>1, <2>1, <2>6, HandedElsewhere
<1> QED
  BY <1>5, <1>6

LEMMA SuccHandedOff ==
    ASSUME TypeInv, RowEffect, SuccInv, NEW p \in ExecId, NEW target, RowHandedOff(p, target)
    PROVE  SuccInv'
<1>1. PICK n \in ExecId : n = nextId
  BY DEF RowHandedOff, Committed
<1>2. /\ p < n /\ SameAccepted /\ rows[p].handoff = "pending"
      /\ rows[n] = NoRow /\ \A q \in ExecId \ {p, n} : rows'[q] = rows[q]
      /\ rows'[n].parent = p /\ rows'[n].handoff = "none" /\ rows'[n].child = 0
      /\ rows'[n].attempt = 0
      /\ rows'[p].parent = rows[p].parent /\ rows'[p].handoff = "dispatched"
      /\ rows'[p].child = n /\ rows'[p].attempt = rows[p].attempt
  BY <1>1 DEF RowHandedOff, Pending, Committed, SameKin
<1>3. \A e \in ExecId \ {n} : rows'[e].parent = rows[e].parent
  BY <1>2
<1>4. Children(n) = {} /\ \A e \in ExecId : rows[e].parent # n
  BY <1>1, NoChildYet
<1>5. rows[n].parent = 0 /\ n # p
  BY <1>2 DEF NoRow, ExecId
<1>6. /\ Children(n)' = {} /\ Children(p)' = Children(p) \cup {n} /\ n \notin Children(p)
      /\ \A q \in ExecId \ {p, n} : Children(q)' = Children(q)
  BY <1>2, <1>3, <1>4, <1>5 DEF Children, ExecId
<1>7. \A c \in Children(p) : Bad(c) => Bad(c)'
  BY FinalStep DEF Bad, Finished, Children
<1>8. IsFiniteSet(Children(p)) /\ Cardinality(Children(p)) \in Nat
  BY FiniteIds DEF Children
<1>9. /\ Handed(p) /\ Handed(n) /\ rows[p].attempt \in Nat
  BY DEF SuccInv, TypeInv, TypeOK, TableTypeOK, Row
<1>10. Handed(n)'
  <2>1. /\ rows[n].attempt = 0 /\ \A a \in 1..MaxAttempt : accepted[n][a] = 0
    BY <1>2, <1>9 DEF Handed, NoRow
  <2> QED
    BY <1>2, <1>6, <2>1, FS_EmptySet DEF Handed, SameAccepted
<1>11. Handed(p)'
  <2>1. Cardinality(Children(p)') = Cardinality(Children(p)) + 1
    BY <1>6, <1>8, FS_AddElement
  <2>2. \A c \in Children(p) : Bad(c)'
    BY <1>2, <1>7, <1>9 DEF Handed
  <2>3. rows[p].attempt # 0
    BY <1>2, <1>9 DEF Handed
  <2>4. n # 0 /\ n \in Children(p)'
    BY <1>6 DEF ExecId
  <2>5. Cardinality(Children(p)) + 1 <= rows[p].attempt
    BY <1>2, <1>9 DEF Handed
  <2>6. \A a \in 1..MaxAttempt : accepted'[p][a] = IF a < rows'[p].attempt THEN 1 ELSE 0
    BY <1>2, <1>9 DEF Handed, SameAccepted
  <2> HIDE DEF Children
  <2> QED
    BY <1>2, <1>6, <1>8, <2>1, <2>2, <2>3, <2>4, <2>5, <2>6 DEF Handed
<1>12. ASSUME NEW q \in ExecId, q \notin {p, n} PROVE Handed(q)'
  BY <1>2, <1>6, <1>12, HandedAside DEF SuccInv, SameAccepted
<1>13. \A e \in ExecId : rows'[e].parent < e
  BY <1>2, <1>3 DEF SuccInv
<1> QED
  BY <1>10, <1>11, <1>12, <1>13 DEF SuccInv

LEMMA SuccSwept ==
    ASSUME TypeInv, RowEffect, SuccInv, RowsSwept
    PROVE  SuccInv'
<1>1. SameParents /\ SameAccepted /\ Swept
  BY DEF RowsSwept, Swept, SameParents, SameKin
<1>2. ASSUME NEW p \in ExecId PROVE Handed(p)'
  <2>1. Children(p)' = Children(p) /\ Cardinality(Children(p)) \in Nat
    BY <1>1, FiniteIds DEF SameParents, Children
  <2>2. \A c \in Children(p) : Bad(c) => Bad(c)'
    BY FinalStep DEF Bad, Finished, Children
  <2>3. /\ Handed(p) /\ rows[p].attempt \in Nat
        /\ rows'[p].attempt = rows[p].attempt /\ rows'[p].child = rows[p].child
        /\ rows'[p].handoff = IF rows[p].handoff = "pending" THEN "interrupted"
                              ELSE rows[p].handoff
    BY <1>1 DEF SuccInv, Swept, TypeInv, TypeOK, TableTypeOK, Row
  <2> HIDE DEF Children
  <2>4. CASE rows[p].handoff = "pending"
    BY <1>1, <2>1, <2>2, <2>3, <2>4 DEF Handed, SameAccepted
  <2>5. CASE rows[p].handoff # "pending"
    BY <1>1, <2>1, <2>2, <2>3, <2>5 DEF Handed, SameAccepted
  <2> QED
    BY <2>4, <2>5
<1> QED
  BY <1>1, <1>2 DEF SuccInv, SameParents

LEMMA SuccStep ==
    ASSUME TypeInv, RowEffect, SuccInv
    PROVE  SuccInv'
<1>1. CASE TableSame
  <2>1. rows' = rows /\ accepted' = accepted
    BY <1>1 DEF TableSame, SameAccepted
  <2>2. \A p \in ExecId : Children(p)' = Children(p)
    BY <2>1 DEF Children
  <2>3. ASSUME NEW p \in ExecId PROVE Handed(p)'
    BY <2>1, <2>2, HandedAside DEF SuccInv
  <2> QED
    BY <2>1, <2>3 DEF SuccInv
<1> QED
  BY <1>1, SuccInserted, SuccMarked, SuccFinished, SuccSettled, SuccHandedOff, SuccSwept
  DEF RowEffect, RowRejected, RowStarted

LEMMA SuccInit ==
    ASSUME Init
    PROVE  SuccInv
<1>1. /\ rows = [e \in ExecId |-> NoRow]
      /\ accepted = [e \in ExecId |-> [a \in 1..MaxAttempt |-> 0]]
  BY DEF Init, TableInit
<1>2. \A e \in ExecId : /\ rows[e].parent = 0 /\ rows[e].handoff = "none"
                        /\ rows[e].attempt = 0 /\ rows[e].child = 0
  BY <1>1 DEF NoRow
<1>3. \A p \in ExecId : Children(p) = {}
  BY <1>2 DEF Children, ExecId
<1>4. ASSUME NEW p \in ExecId PROVE Handed(p)
  <2>1. \A a \in 1..MaxAttempt : accepted[p][a] = 0
    BY <1>1
  <2>2. ~(\E a \in 1..MaxAttempt : a < 0)
    BY BoundAssumption
  <2> QED
    BY <1>2, <1>3, <2>1, <2>2, FS_EmptySet DEF Handed
<1> QED
  BY <1>2, <1>4 DEF SuccInv, ExecId

-----------------------------------------------------------------------------
(* chain_path holds the hooks of the whole chain: the parent's path and    *)
(* the hook of the execution itself, which was not among them.             *)
Chained(e) ==
    /\ rows[e].status \in Live \/ rows[e].handoff # "none" => rows[e].hook \in rows[e].path
    /\ rows[e].parent # 0 =>
           /\ rows[e].hook \notin rows[rows[e].parent].path
           /\ rows[e].path = rows[rows[e].parent].path \cup {rows[e].hook}

ChainInv == \A e \in ExecId : Chained(e)

(* A step that inserts nothing: what was live or handed off stays so, or   *)
(* was before.                                                             *)
LEMMA ChainSame ==
    ASSUME ChainInv,
           \A e \in ExecId :
               /\ SameKin(e) /\ rows[e].parent \in {0} \cup ExecId
               /\ rows'[e].status \in Live \/ rows'[e].handoff # "none" =>
                      rows[e].status \in Live \/ rows[e].handoff # "none"
    PROVE  ChainInv'
<1> SUFFICES ASSUME NEW e \in ExecId PROVE Chained(e)'
  BY DEF ChainInv
<1>1. /\ Chained(e) /\ SameKin(e)
      /\ rows[e].parent # 0 => SameKin(rows[e].parent)
  BY DEF ChainInv
<1> QED
  BY <1>1 DEF Chained, SameKin

LEMMA ChainStep ==
    ASSUME TypeInv, RowEffect, SuccInv, ChainInv
    PROVE  ChainInv'
<1>0. /\ \A e \in ExecId : rows[e].parent \in {0} \cup ExecId
      /\ \A e \in ExecId : rows[e].parent < e
  BY DEF TypeInv, TypeOK, TableTypeOK, Row, SuccInv
<1>1. CASE TableSame
  BY <1>1 DEF TableSame, ChainInv, Chained
<1>2. CASE RowsSwept
  BY <1>0, <1>2, ChainSame DEF RowsSwept, Swept, Live
<1>3. ASSUME NEW e \in ExecId, OtherRows(e), SameKin(e),
             rows'[e].status \in Live \/ rows'[e].handoff # "none" =>
                 rows[e].status \in Live \/ rows[e].handoff # "none"
      PROVE  ChainInv'
  BY <1>0, <1>3, ChainSame DEF OtherRows, SameKin
<1>4. ASSUME NEW e \in ExecId, NEW status, RowMarked(e, status) \/ RowFinished(e, status)
      PROVE  ChainInv'
  BY <1>3, <1>4 DEF RowMarked, RowFinished, StatusSet, FinishSet, Unsettled
<1>5. ASSUME NEW p \in ExecId, RowRefused(p) \/ RowClaimed(p)
      PROVE  ChainInv'
  BY <1>3, <1>5 DEF RowRefused, RowClaimed, HandoffSet, Pending, Retryable
<1>6. ASSUME NEW h, NEW status, NEW path, NEW target, Inserted(h, status, path, target),
             status \in Live => h \in path
      PROVE  ChainInv'
  <2>1. PICK n \in ExecId : n = nextId
    BY <1>6 DEF Inserted
  <2>2. /\ \A e \in ExecId \ {n} : rows'[e] = rows[e] /\ rows[e].parent # n
        /\ rows'[n].hook = h /\ rows'[n].status = status /\ rows'[n].path = path
        /\ rows'[n].parent = 0 /\ rows'[n].handoff = "none"
    BY <1>6, <2>1, NoChildYet DEF Inserted, OtherRows
  <2>3. Chained(n)'
    BY <1>6, <2>2 DEF Chained
  <2>4. ASSUME NEW e \in ExecId, e # n PROVE Chained(e)'
    <3>1. rows'[e] = rows[e] /\ Chained(e)
          /\ (rows[e].parent # 0 => rows'[rows[e].parent] = rows[rows[e].parent])
      BY <1>0, <2>2, <2>4 DEF ChainInv
    <3> QED
      BY <3>1 DEF Chained
  <2> QED
    BY <2>3, <2>4 DEF ChainInv
<1>7. ASSUME NEW p \in ExecId, NEW target, RowHandedOff(p, target) PROVE ChainInv'
  <2>1. PICK n \in ExecId : n = nextId
    BY <1>7 DEF RowHandedOff, Committed
  <2>2. /\ p # n /\ \A e \in ExecId \ {p, n} : rows'[e] = rows[e]
        /\ \A e \in ExecId : rows[e].parent # n
        /\ rows'[n].hook = rows[p].target /\ rows'[n].parent = p
        /\ rows[p].target \notin rows[p].path
        /\ rows'[n].path = rows[p].path \cup {rows[p].target}
        /\ SameKin(p) /\ rows[p].handoff # "none"
    BY <1>7, <2>1, NoChildYet DEF RowHandedOff, Committed, Pending, ExecId
  <2>3. \A e \in ExecId \ {n} : SameKin(e)
    BY <2>2 DEF SameKin
  <2>4. p \in ExecId \ {n} /\ rows'[p].path = rows[p].path
    BY <2>2 DEF SameKin
  <2>5. Chained(n)'
    BY <2>2, <2>4 DEF Chained
  <2>6. ASSUME NEW e \in ExecId, e # n PROVE Chained(e)'
    <3>1. /\ Chained(e) /\ SameKin(e)
          /\ rows[e].parent # 0 => SameKin(rows[e].parent)
      BY <1>0, <2>2, <2>3, <2>6 DEF ChainInv
    <3>2. rows'[e].status \in Live \/ rows'[e].handoff # "none" =>
              rows[e].status \in Live \/ rows[e].handoff # "none"
      BY <2>2, <2>6
    <3> QED
      BY <3>1, <3>2 DEF Chained, SameKin
  <2> QED
    BY <2>5, <2>6 DEF ChainInv
<1>8. Live = {"queued", "running"} /\ "failed" \notin Live
  BY DEF Live
<1> QED
  BY <1>1, <1>2, <1>4, <1>5, <1>6, <1>7, <1>8 DEF RowEffect, RowRejected, RowStarted

(* The inductive invariant of the handoff.                                 *)
HandoffInv == LifeInv /\ SuccInv /\ ChainInv

LEMMA HandoffAlways == Spec => []HandoffInv
<1>1. Init => HandoffInv
  <2>1. ASSUME Init PROVE ChainInv
    BY <2>1 DEF Init, TableInit, NoRow, ChainInv, Chained, Live
  <2> QED
    BY <2>1, LifeInit, SuccInit DEF HandoffInv
<1>2. HandoffInv /\ [Next]_vars => HandoffInv'
  <2> SUFFICES ASSUME HandoffInv, [Next]_vars PROVE HandoffInv'
    OBVIOUS
  <2>1. TypeInv /\ RowEffect
    BY StepEffect DEF HandoffInv, LifeInv, RunnerInv
  <2>2. LifeInv'
    BY LifeStep DEF HandoffInv
  <2> QED
    BY <2>1, <2>2, SuccStep, ChainStep DEF HandoffInv
<1> QED
  BY <1>1, <1>2, PTL DEF Spec

(* However often an operator retries and whatever fails or crashes, an     *)
(* execution has at most one successor that is alive or has succeeded, no  *)
(* attempt starts two or is claimed twice, and only a success has any.     *)
THEOREM SuccessorsSoundHolds == Spec => []SuccessorsSound
<1>1. HandoffInv => SuccessorsSound
  <2> SUFFICES ASSUME HandoffInv PROVE SuccessorsSound
    OBVIOUS
  <2>1. \A p \in ExecId : Handed(p)
    BY DEF HandoffInv, SuccInv
  <2>2. OneSuccessor
    BY <2>1 DEF OneSuccessor, Handed, Bad
  <2>3. OneChildPerAttempt
    <3> SUFFICES ASSUME NEW p \in ExecId
                 PROVE  /\ Cardinality(Children(p)) + (IF Pending(p) THEN 1 ELSE 0)
                               <= rows[p].attempt
                        /\ \A a \in 1..MaxAttempt : accepted[p][a] <= 1
      BY DEF OneChildPerAttempt
    <3>1. Cardinality(Children(p)) \in Nat /\ rows[p].attempt \in Nat
      BY FiniteIds DEF Children, HandoffInv, LifeInv, RunnerInv, TypeInv, TypeOK, TableTypeOK,
                       Row
    <3> HIDE DEF Children
    <3>2. Cardinality(Children(p)) + (IF Pending(p) THEN 1 ELSE 0) <= rows[p].attempt
      BY <2>1, <3>1 DEF Handed, Pending
    <3>3. \A a \in 1..MaxAttempt : accepted[p][a] <= 1
      BY <2>1 DEF Handed
    <3> QED
      BY <3>2, <3>3
  <2>4. OnlySuccessHandsOff
    <3>1. \A e \in ExecId : rows[e].handoff # "none" => rows[e].status = "success"
      BY DEF HandoffInv, LifeInv, WorkInv
    <3>2. ASSUME NEW e \in ExecId, rows[e].parent # 0
          PROVE  rows[rows[e].parent].status = "success"
      <4>1. PICK p \in ExecId : p = rows[e].parent
        BY <3>2 DEF HandoffInv, LifeInv, RunnerInv, TypeInv, TypeOK, TableTypeOK, Row
      <4>2. rows[p].handoff # "none"
        BY <2>1, <4>1 DEF Handed, Children
      <4> QED
        BY <3>1, <4>1, <4>2
    <3> QED
      BY <3>1, <3>2 DEF OnlySuccessHandsOff
  <2> QED
    BY <2>2, <2>3, <2>4 DEF SuccessorsSound
<1> QED
  BY <1>1, HandoffAlways, PTL

(* No hook runs twice in a chain of any length, whatever the hooks were    *)
(* edited to while it ran: the members of a chain before e all have their  *)
(* hook in the path of e's parent, and e's own is not in it.               *)
THEOREM ChainNeverRepeatsHolds == Spec => []ChainNeverRepeats
<1>1. HandoffInv => ChainNeverRepeats
  <2> SUFFICES ASSUME HandoffInv, NEW e \in ExecId, NEW p \in Ancestors(e)
               PROVE  rows[p].hook # rows[e].hook
    BY DEF ChainNeverRepeats
  <2>1. \A q \in ExecId : /\ rows[q].parent \in {0} \cup ExecId
                          /\ Chained(q) /\ Handed(q)
    BY DEF HandoffInv, LifeInv, RunnerInv, TypeInv, TypeOK, TableTypeOK, Row, ChainInv,
           SuccInv
  <2>2. \A q \in ExecId :
            rows[q].parent # 0 =>
                /\ rows[q].parent \in ExecId
                /\ rows[rows[q].parent].hook \in rows[rows[q].parent].path
                /\ rows[rows[q].parent].path \subseteq rows[q].path
    <3> SUFFICES ASSUME NEW q \in ExecId, rows[q].parent # 0
                 PROVE  /\ rows[q].parent \in ExecId
                        /\ rows[rows[q].parent].hook \in rows[rows[q].parent].path
                        /\ rows[rows[q].parent].path \subseteq rows[q].path
      OBVIOUS
    <3>1. PICK r \in ExecId : r = rows[q].parent
      BY <2>1
    <3>2. rows[r].handoff # "none"
      BY <2>1, <3>1 DEF Handed, Children
    <3> QED
      BY <2>1, <3>1, <3>2 DEF Chained
  <2>3. ASSUME NEW S \in SUBSET ExecId,
               \A q \in S \cup {e} : rows[q].parent \in S \cup {0}
        PROVE  p \in S
    BY <2>3 DEF Ancestors
  <2>4. CASE rows[e].parent = 0
    <3>1. \A q \in {} \cup {e} : rows[q].parent \in {} \cup {0}
      BY <2>4
    <3>2. {} \in SUBSET ExecId
      OBVIOUS
    <3> QED
      BY <2>3, <3>1, <3>2
  <2>5. CASE rows[e].parent # 0
    <3> DEFINE S == {q \in ExecId : /\ rows[q].hook \in rows[q].path
                                    /\ rows[q].path \subseteq rows[rows[e].parent].path}
    <3>1. \A q \in S \cup {e} : rows[q].parent \in S \cup {0}
      BY <2>2, <2>5
    <3>2. p \in S
      BY <2>3, <3>1
    <3>3. rows[e].hook \notin rows[rows[e].parent].path
      BY <2>1, <2>5 DEF Chained
    <3> QED
      BY <3>2, <3>3
  <2> QED
    BY <2>4, <2>5
<1> QED
  BY <1>1, HandoffAlways, PTL

-----------------------------------------------------------------------------
(* The abstract handoff, as the rows of the table show it.                 *)
Views ==
    [p \in ExecId |->
        [state |-> rows[p].handoff, attempt |-> rows[p].attempt,
         starts |-> Cardinality(Children(p)), last |-> LastSuccessor(p)]]

(* The abstract actions, told in terms of Views.                           *)
LEMMA AbstractActions ==
    ASSUME NEW p \in ExecId
    PROVE  /\ /\ Views[p].state = "none"
              /\ Views' = [Views EXCEPT ![p].state = "pending", ![p].attempt = 1]
              => H!Offer(p)
           /\ /\ Views[p].state = "pending"
              /\ Views' = [Views EXCEPT ![p].state = "dispatched", ![p].starts = @ + 1,
                                        ![p].last = "open"]
              => H!StartSuccessor(p)
           /\ /\ Views[p].state = "pending"
              /\ Views' = [Views EXCEPT ![p].state = "failed"]
              => H!Refuse(p)
           /\ /\ Views[p].last = "open"
              /\ \/ Views' = [Views EXCEPT ![p].last = "bad"]
                 \/ Views' = [Views EXCEPT ![p].last = "good"]
                 \/ \E c \in ExecId \ {p} :
                        /\ Views[c].state = "none"
                        /\ Views' = [Views EXCEPT ![p].last = "good",
                                                  ![c].state = "pending", ![c].attempt = 1]
              => H!SuccessorEnds(p)
           /\ /\ \/ Views[p].state \in {"failed", "interrupted"}
                 \/ Views[p].state = "dispatched" /\ Views[p].last = "bad"
              /\ Views' = [Views EXCEPT ![p].state = "pending", ![p].attempt = @ + 1]
              => H!ClaimAgain(p)
BY DEF Views, H!Offer, H!StartSuccessor, H!Refuse, H!SuccessorEnds, H!ClaimAgain

LEMMA AbstractInterrupt ==
    ASSUME Views' = [p \in ExecId |->
               [Views[p] EXCEPT !.state = IF @ = "pending" THEN "interrupted" ELSE @,
                                !.last = IF @ = "open" THEN "bad" ELSE @]]
    PROVE  H!Interrupt
BY DEF Views, H!Interrupt

-----------------------------------------------------------------------------
(* How a successor with this status shows.                                 *)
Shows(status) ==
    IF status \in Live THEN "open" ELSE IF status = "success" THEN "good" ELSE "bad"

LEMMA ViewFacts ==
    ASSUME NEW p \in ExecId
    PROVE  /\ Views[p] = [state |-> rows[p].handoff, attempt |-> rows[p].attempt,
                          starts |-> Cardinality(Children(p)), last |-> LastSuccessor(p)]
           /\ Views'[p] = [state |-> rows'[p].handoff, attempt |-> rows'[p].attempt,
                           starts |-> Cardinality(Children(p))',
                           last |-> LastSuccessor(p)']
           /\ LastSuccessor(p) = IF rows[p].child = 0 THEN "none"
                                 ELSE Shows(rows[rows[p].child].status)
           /\ LastSuccessor(p)' = IF rows'[p].child = 0 THEN "none"
                                  ELSE Shows(rows'[rows'[p].child].status)
BY DEF Views, LastSuccessor, Shows

LEMMA ViewFields ==
    ASSUME NEW p \in ExecId
    PROVE  /\ Views[p].state = rows[p].handoff
           /\ Views[p].attempt = rows[p].attempt
           /\ Views[p].starts = Cardinality(Children(p))
           /\ Views[p].last = LastSuccessor(p)
           /\ Views'[p].state = rows'[p].handoff
           /\ Views'[p].attempt = rows'[p].attempt
           /\ Views'[p].starts = Cardinality(Children(p))'
           /\ Views'[p].last = LastSuccessor(p)'
           /\ Views[p] = [state |-> Views[p].state, attempt |-> Views[p].attempt,
                          starts |-> Views[p].starts, last |-> Views[p].last]
           /\ Views'[p] = [state |-> Views'[p].state, attempt |-> Views'[p].attempt,
                           starts |-> Views'[p].starts, last |-> Views'[p].last]
<1>1. PICK a : a = rows[p].handoff
  OBVIOUS
<1>2. PICK b : b = rows[p].attempt
  OBVIOUS
<1>3. PICK c : c = Cardinality(Children(p))
  OBVIOUS
<1>4. PICK d : d = LastSuccessor(p)
  OBVIOUS
<1>5. PICK x : x = rows'[p].handoff
  OBVIOUS
<1>6. PICK y : y = rows'[p].attempt
  OBVIOUS
<1>7. PICK z : z = Cardinality(Children(p))'
  OBVIOUS
<1>8. PICK w : w = LastSuccessor(p)'
  OBVIOUS
<1>9. /\ Views[p] = [state |-> a, attempt |-> b, starts |-> c, last |-> d]
      /\ Views'[p] = [state |-> x, attempt |-> y, starts |-> z, last |-> w]
  BY <1>1, <1>2, <1>3, <1>4, <1>5, <1>6, <1>7, <1>8, ViewFacts
<1> QED
  BY <1>1, <1>2, <1>3, <1>4, <1>5, <1>6, <1>7, <1>8, <1>9

(* A row that shows as before.                                             *)
Unseen(q) ==
    /\ rows'[q].handoff = rows[q].handoff /\ rows'[q].attempt = rows[q].attempt
    /\ Children(q)' = Children(q) /\ LastSuccessor(q)' = LastSuccessor(q)

LEMMA UnseenView ==
    ASSUME NEW q \in ExecId, Unseen(q)
    PROVE  Views'[q] = Views[q]
BY ViewFacts DEF Unseen

LEMMA ViewsDomain ==
    /\ Views = [p \in ExecId |-> Views[p]]
    /\ Views' = [p \in ExecId |-> Views'[p]]
BY DEF Views

LEMMA AllUnseen ==
    ASSUME \A q \in ExecId : Unseen(q)
    PROVE  Views' = Views
BY UnseenView, ViewsDomain

LEMMA OneSeen ==
    ASSUME NEW p \in ExecId, \A q \in ExecId \ {p} : Unseen(q)
    PROVE  Views' = [Views EXCEPT ![p] = Views'[p]]
<1>1. \A q \in ExecId \ {p} : Views'[q] = Views[q]
  BY UnseenView
<1> QED
  BY <1>1, ViewsDomain

(* A step that is seen in some fields of one row.                          *)
LEMMA FieldsSeen ==
    ASSUME NEW p \in ExecId, \A q \in ExecId \ {p} : Unseen(q)
    PROVE  /\ Views'[p].starts = Views[p].starts /\ Views'[p].last = Views[p].last =>
                  Views' = [Views EXCEPT ![p].state = Views'[p].state,
                                         ![p].attempt = Views'[p].attempt]
           /\ (/\ Views'[p].starts = Views[p].starts /\ Views'[p].last = Views[p].last
               /\ Views'[p].attempt = Views[p].attempt) =>
                  Views' = [Views EXCEPT ![p].state = Views'[p].state]
           /\ (/\ Views'[p].starts = Views[p].starts /\ Views'[p].state = Views[p].state
               /\ Views'[p].attempt = Views[p].attempt) =>
                  Views' = [Views EXCEPT ![p].last = Views'[p].last]
           /\ Views'[p].attempt = Views[p].attempt =>
                  Views' = [Views EXCEPT ![p].state = Views'[p].state,
                                         ![p].starts = Views'[p].starts,
                                         ![p].last = Views'[p].last]
<1>1. PICK v : v = Views[p]
  OBVIOUS
<1>2. PICK state : state = Views'[p].state
  OBVIOUS
<1>3. PICK attempt : attempt = Views'[p].attempt
  OBVIOUS
<1>4. PICK starts : starts = Views'[p].starts
  OBVIOUS
<1>5. PICK last : last = Views'[p].last
  OBVIOUS
<1>6. /\ v = [state |-> v.state, attempt |-> v.attempt, starts |-> v.starts, last |-> v.last]
      /\ Views'[p] = [state |-> state, attempt |-> attempt, starts |-> starts, last |-> last]
  BY <1>1, <1>2, <1>3, <1>4, <1>5, ViewFields
<1>7. PICK u : u = [v EXCEPT !.state = state]
  OBVIOUS
<1>8. u = [state |-> state, attempt |-> v.attempt, starts |-> v.starts, last |-> v.last]
  BY <1>6, <1>7
<1>9. PICK s : s = [u EXCEPT !.starts = starts]
  OBVIOUS
<1>10. s = [state |-> state, attempt |-> v.attempt, starts |-> starts, last |-> v.last]
  BY <1>8, <1>9
<1>11. [u EXCEPT !.attempt = attempt]
          = [state |-> state, attempt |-> attempt, starts |-> v.starts, last |-> v.last]
  BY <1>8
<1>12. [s EXCEPT !.last = last]
          = [state |-> state, attempt |-> v.attempt, starts |-> starts, last |-> last]
  BY <1>10
<1>13. [v EXCEPT !.last = last]
           = [state |-> v.state, attempt |-> v.attempt, starts |-> v.starts, last |-> last]
  BY <1>6
<1>14. Views' = [Views EXCEPT ![p] = Views'[p]]
  BY OneSeen
<1>15. ASSUME starts = v.starts, last = v.last
       PROVE  Views' = [Views EXCEPT ![p].state = state, ![p].attempt = attempt]
  <2>1. [[v EXCEPT !.state = state] EXCEPT !.attempt = attempt] = Views'[p]
    BY <1>6, <1>7, <1>11, <1>15
  <2> QED
    BY <1>1, <1>14, <2>1, ViewsDomain
<1>16. ASSUME starts = v.starts, last = v.last, attempt = v.attempt
       PROVE  Views' = [Views EXCEPT ![p].state = state]
  <2>1. [v EXCEPT !.state = state] = Views'[p]
    BY <1>6, <1>7, <1>8, <1>16
  <2> QED
    BY <1>1, <1>14, <2>1, ViewsDomain
<1>17. ASSUME starts = v.starts, state = v.state, attempt = v.attempt
       PROVE  Views' = [Views EXCEPT ![p].last = last]
  <2>1. [v EXCEPT !.last = last] = Views'[p]
    BY <1>6, <1>13, <1>17
  <2> QED
    BY <1>1, <1>14, <2>1, ViewsDomain
<1>18. ASSUME attempt = v.attempt
       PROVE  Views' = [Views EXCEPT ![p].state = state, ![p].starts = starts,
                                     ![p].last = last]
  <2>1. [[[v EXCEPT !.state = state] EXCEPT !.starts = starts] EXCEPT !.last = last]
            = Views'[p]
    BY <1>6, <1>7, <1>9, <1>12, <1>18
  <2> QED
    BY <1>1, <1>14, <2>1, ViewsDomain
<1> QED
  BY <1>1, <1>2, <1>3, <1>4, <1>5, <1>15, <1>16, <1>17, <1>18

(* A step that changes no status, child or parent.                         *)
LEMMA LastKept ==
    ASSUME TypeInv, NEW q \in ExecId, rows'[q].child = rows[q].child,
           rows[q].child # 0 =>
               Shows(rows'[rows[q].child].status) = Shows(rows[rows[q].child].status)
    PROVE  LastSuccessor(q)' = LastSuccessor(q)
BY ViewFacts

LEMMA ChildOf ==
    ASSUME SuccInv, NEW q \in ExecId, rows[q].child # 0
    PROVE  rows[q].child \in ExecId /\ rows[rows[q].child].parent = q
<1>1. rows[q].child \in Children(q)
  BY DEF SuccInv, Handed
<1> QED
  BY <1>1 DEF Children

LEMMA InsertedView ==
    ASSUME TypeInv, SuccInv, NEW h, NEW status, NEW path, NEW target,
           Inserted(h, status, path, target)
    PROVE  Views' = Views
<1>1. PICK n \in ExecId : n = nextId
  BY DEF Inserted
<1>2. /\ \A q \in ExecId \ {n} : rows'[q] = rows[q]
      /\ rows[n].parent = 0 /\ rows'[n].parent = 0
      /\ rows'[n].handoff = rows[n].handoff /\ rows'[n].attempt = rows[n].attempt
      /\ rows'[n].child = 0 /\ rows[n].child = 0
  BY <1>1 DEF Inserted, OtherRows, NoRow
<1>3. SameParents /\ \A q \in ExecId : Children(q)' = Children(q)
  BY <1>2 DEF SameParents, Children
<1>4. ASSUME NEW q \in ExecId PROVE LastSuccessor(q)' = LastSuccessor(q)
  <2>1. rows'[q].child = rows[q].child
    BY <1>2
  <2>2. rows[q].child # 0 => rows[q].child \in ExecId \ {n}
    BY <1>2, ChildOf DEF ExecId
  <2> QED
    BY <1>2, <2>1, <2>2, LastKept
<1> QED
  BY <1>2, <1>3, <1>4, AllUnseen DEF Unseen

LEMMA RefusedView ==
    ASSUME TypeInv, SuccInv, NEW p \in ExecId, NEW handoff, NEW attempt,
           HandoffSet(p, handoff, attempt)
    PROVE  Views' = [Views EXCEPT ![p].state = handoff, ![p].attempt = attempt]
<1>1. /\ \A q \in ExecId \ {p} : rows'[q] = rows[q]
      /\ \A q \in ExecId : /\ rows'[q].parent = rows[q].parent
                           /\ rows'[q].child = rows[q].child
                           /\ rows'[q].status = rows[q].status
      /\ rows'[p].handoff = handoff /\ rows'[p].attempt = attempt
  BY DEF HandoffSet, OtherRows, SameKin
<1>2. \A q \in ExecId : Children(q)' = Children(q)
  BY <1>1 DEF Children
<1>3. ASSUME NEW q \in ExecId PROVE LastSuccessor(q)' = LastSuccessor(q)
  <2>1. rows[q].child \in {0} \cup ExecId
    BY DEF TypeInv, TypeOK, TableTypeOK, Row
  <2> QED
    BY <1>1, <2>1, LastKept
<1>4. /\ Views'[p].state = handoff /\ Views'[p].attempt = attempt
      /\ Views'[p].starts = Views[p].starts /\ Views'[p].last = Views[p].last
  <2>1. Children(p)' = Children(p) /\ LastSuccessor(p)' = LastSuccessor(p)
    BY <1>2, <1>3
  <2>2. Views'[p].starts = Views[p].starts
    BY <2>1, ViewFields, ZenonT(30)
  <2>3. Views'[p].last = Views[p].last
    BY <2>1, ViewFields
  <2> QED
    BY <1>1, <2>2, <2>3, ViewFields
<1> QED
  BY <1>1, <1>2, <1>3, <1>4, FieldsSeen DEF Unseen

LEMMA HandedOffView ==
    ASSUME TypeInv, SuccInv, NEW p \in ExecId, NEW target, RowHandedOff(p, target)
    PROVE  H!StartSuccessor(p)
<1>1. PICK n \in ExecId : n = nextId
  BY DEF RowHandedOff, Committed
<1>2. /\ p # n /\ rows[n] = NoRow /\ \A q \in ExecId \ {p, n} : rows'[q] = rows[q]
      /\ rows'[n].parent = p /\ rows'[n].handoff = "none" /\ rows'[n].child = 0
      /\ rows'[n].attempt = 0 /\ rows'[n].status = "queued"
      /\ rows'[p].parent = rows[p].parent /\ rows'[p].handoff = "dispatched"
      /\ rows'[p].child = n /\ rows'[p].attempt = rows[p].attempt
      /\ rows[p].handoff = "pending" /\ rows'[p].status = rows[p].status
  BY <1>1 DEF RowHandedOff, Pending, Committed, SameKin, ExecId
<1>3. Children(n) = {} /\ \A e \in ExecId : rows[e].parent # n
  BY <1>1, NoChildYet
<1>4. \A e \in ExecId \ {n} : rows'[e].parent = rows[e].parent /\ rows'[e].status = rows[e].status
  BY <1>2
<1>5. rows[n].parent = 0 /\ rows[n].handoff = "none" /\ rows[n].attempt = 0 /\ rows[n].child = 0
  BY <1>2 DEF NoRow
<1>6. /\ Children(n)' = {} /\ Children(p)' = Children(p) \cup {n} /\ n \notin Children(p)
      /\ \A q \in ExecId \ {p, n} : Children(q)' = Children(q)
  BY <1>2, <1>3, <1>4, <1>5 DEF Children, ExecId
<1>7. ASSUME NEW q \in ExecId, q # p PROVE Unseen(q)
  <2>1. rows'[q].child = rows[q].child
    BY <1>2, <1>5, <1>7
  <2>2. rows[q].child # 0 => rows[q].child \in ExecId \ {n}
    BY <1>5, ChildOf DEF ExecId
  <2>3. LastSuccessor(q)' = LastSuccessor(q)
    BY <1>4, <2>1, <2>2, LastKept
  <2> QED
    BY <1>2, <1>3, <1>5, <1>6, <1>7, <2>3 DEF Unseen
<1>9. Cardinality(Children(p))' = Cardinality(Children(p)) + 1
  BY <1>6, FiniteIds, FS_AddElement DEF Children
<1>10. LastSuccessor(p)' = "open"
  <2>1. Shows("queued") = "open" /\ n # 0
    BY DEF Shows, Live, ExecId
  <2>2. LastSuccessor(p)' = IF rows'[p].child = 0 THEN "none"
                            ELSE Shows(rows'[rows'[p].child].status)
    BY ViewFacts
  <2>3. rows'[p].child # 0 /\ rows'[rows'[p].child].status = "queued"
    BY <1>2, <2>1
  <2> QED
    BY <2>1, <2>2, <2>3
<1>11. /\ Views'[p].state = "dispatched" /\ Views'[p].attempt = Views[p].attempt
       /\ Views'[p].starts = Views[p].starts + 1 /\ Views'[p].last = "open"
       /\ Views[p].state = "pending"
  BY <1>2, <1>9, <1>10, ViewFields
<1>12. Views' = [Views EXCEPT ![p].state = "dispatched",
                              ![p].starts = Views[p].starts + 1, ![p].last = "open"]
  <2>1. \A q \in ExecId \ {p} : Unseen(q)
    BY <1>7
  <2> QED
    BY <1>11, <2>1, FieldsSeen
<1> QED
  BY <1>11, <1>12, AbstractActions

(* A live row changes its status, and perhaps offers its handoff: the only *)
(* other row that shows it is the one whose latest successor it is.        *)
EndSet(e, status) ==
    /\ Unsettled(e) /\ OtherRows(e) /\ rows'[e].status = status
    /\ rows'[e].parent = rows[e].parent /\ rows'[e].child = rows[e].child

LEMMA EndingView ==
    ASSUME TypeInv, SuccInv, NEW e \in ExecId, NEW status, EndSet(e, status)
    PROVE  /\ \A q \in ExecId : Children(q)' = Children(q)
           /\ \A q \in ExecId : rows[q].child # e => LastSuccessor(q)' = LastSuccessor(q)
           /\ \A q \in ExecId : rows[q].child = e =>
                  q # e /\ LastSuccessor(q) = "open" /\ LastSuccessor(q)' = Shows(status)
           /\ \A q, r \in ExecId : rows[q].child = e /\ rows[r].child = e => q = r
           /\ rows[e].handoff = "none" /\ rows[e].attempt = 0 /\ rows[e].child # e
<1>1. \A q \in ExecId : rows'[q].child = rows[q].child /\ rows'[q].parent = rows[q].parent
  BY DEF EndSet, OtherRows
<1>2. \A q \in ExecId : Children(q)' = Children(q)
  BY <1>1 DEF Children
<1>3. \A q \in ExecId : rows[q].child # e => LastSuccessor(q)' = LastSuccessor(q)
  <2> TAKE q \in ExecId
  <2> HAVE rows[q].child # e
  <2>1. rows[q].child # 0 => rows[q].child \in ExecId \ {e}
    BY ChildOf
  <2> QED
    BY <1>1, <2>1, LastKept DEF EndSet, OtherRows
<1>4. \A q \in ExecId : rows[q].child = e => rows[e].parent = q /\ q < e
  BY ChildOf DEF SuccInv, ExecId
<1>5. \A q \in ExecId : rows[q].child = e =>
          LastSuccessor(q) = "open" /\ LastSuccessor(q)' = Shows(status)
  <2> TAKE q \in ExecId
  <2> HAVE rows[q].child = e
  <2>1. e # 0 /\ rows'[q].child = e /\ Shows(rows[e].status) = "open"
    BY <1>1 DEF EndSet, Unsettled, Shows, ExecId
  <2> QED
    BY <2>1, ViewFacts DEF EndSet
<1>6. rows[e].handoff = "none" /\ rows[e].attempt = 0
  BY DEF EndSet, Unsettled, SuccInv, Handed
<1>7. \A q \in ExecId : rows[q].child = e => q # e
  BY <1>4 DEF ExecId
<1> QED
  BY <1>2, <1>3, <1>4, <1>5, <1>6, <1>7

(* A step that is seen in two rows: one's latest successor, the other.     *)
LEMMA TwoSeen ==
    ASSUME NEW p \in ExecId, NEW e \in ExecId, p # e,
           \A q \in ExecId \ {p, e} : Unseen(q),
           Views'[p].state = Views[p].state, Views'[p].attempt = Views[p].attempt,
           Views'[p].starts = Views[p].starts, Views'[p].last = "good",
           Views'[e].state = "pending", Views'[e].attempt = 1,
           Views'[e].starts = Views[e].starts, Views'[e].last = Views[e].last
    PROVE  Views' = [Views EXCEPT ![p].last = "good",
                                  ![e].state = "pending", ![e].attempt = 1]
<1>1. PICK v : v = Views[e]
  OBVIOUS
<1>2. PICK r : r = Views[p]
  OBVIOUS
<1>3. /\ v = [state |-> v.state, attempt |-> v.attempt, starts |-> v.starts, last |-> v.last]
      /\ r = [state |-> r.state, attempt |-> r.attempt, starts |-> r.starts, last |-> r.last]
      /\ Views'[e] = [state |-> "pending", attempt |-> 1, starts |-> v.starts, last |-> v.last]
      /\ Views'[p] = [state |-> r.state, attempt |-> r.attempt, starts |-> r.starts,
                      last |-> "good"]
  BY <1>1, <1>2, ViewFields
<1>4. PICK s : s = [r EXCEPT !.last = "good"]
  OBVIOUS
<1>5. s = Views'[p]
  BY <1>3, <1>4
<1>6. PICK u : u = [v EXCEPT !.state = "pending"]
  OBVIOUS
<1>7. u = [state |-> "pending", attempt |-> v.attempt, starts |-> v.starts, last |-> v.last]
  BY <1>3, <1>6
<1>8. [u EXCEPT !.attempt = 1] = Views'[e]
  BY <1>3, <1>7
<1>9. \A q \in ExecId \ {p, e} : Views'[q] = Views[q]
  BY UnseenView
<1>10. PICK V : V = [Views EXCEPT ![p] = [Views[p] EXCEPT !.last = "good"]]
  OBVIOUS
<1>11. V = [q \in ExecId |-> IF q = p THEN Views'[p] ELSE Views[q]]
  BY <1>2, <1>4, <1>5, <1>10, ViewsDomain
<1>12. PICK W : W = [V EXCEPT ![e] = [V[e] EXCEPT !.state = "pending"]]
  OBVIOUS
<1>13. W = [q \in ExecId |-> IF q = p THEN Views'[p] ELSE IF q = e THEN u ELSE Views[q]]
  BY <1>1, <1>6, <1>11, <1>12
<1>14. [W EXCEPT ![e] = [W[e] EXCEPT !.attempt = 1]]
          = [q \in ExecId |-> IF q = p THEN Views'[p] ELSE IF q = e THEN Views'[e]
                              ELSE Views[q]]
  BY <1>8, <1>13
<1>15. Views' = [W EXCEPT ![e] = [W[e] EXCEPT !.attempt = 1]]
  BY <1>9, <1>14, ViewsDomain
<1> QED
  BY <1>10, <1>12, <1>15

LEMMA MarkedView ==
    ASSUME TypeInv, SuccInv, NEW e \in ExecId, NEW status, RowMarked(e, status)
    PROVE  Views' = Views \/ \E p \in ExecId : H!SuccessorEnds(p)
<1>0. EndSet(e, status) /\ Shows(status) \in {"open", "bad"}
      /\ rows'[e].handoff = rows[e].handoff /\ rows'[e].attempt = rows[e].attempt
  BY DEF RowMarked, StatusSet, SameKin, EndSet, Shows, Live, EndedBadly
<1>1. \A q \in ExecId : /\ rows'[q].handoff = rows[q].handoff
                        /\ rows'[q].attempt = rows[q].attempt /\ Children(q)' = Children(q)
  BY <1>0, EndingView DEF EndSet, OtherRows
<1>2. CASE Shows(status) = "open" \/ \A q \in ExecId : rows[q].child # e
  <2>1. \A q \in ExecId : LastSuccessor(q)' = LastSuccessor(q)
    BY <1>0, <1>2, EndingView
  <2> QED
    BY <1>1, <2>1, AllUnseen DEF Unseen
<1>3. CASE Shows(status) # "open" /\ \E q \in ExecId : rows[q].child = e
  <2>1. PICK p \in ExecId : rows[p].child = e
    BY <1>3
  <2>2. \A q \in ExecId \ {p} : LastSuccessor(q)' = LastSuccessor(q)
    BY <1>0, <2>1, EndingView
  <2>3. \A q \in ExecId \ {p} : Unseen(q)
    BY <1>1, <2>2 DEF Unseen
  <2>4. Children(p)' = Children(p)
    BY <1>1
  <2>5. Views'[p].starts = Views[p].starts
    BY <2>4, ViewFields, ZenonT(30)
  <2>6. LastSuccessor(p) = "open" /\ LastSuccessor(p)' = "bad"
    BY <1>0, <1>3, <2>1, EndingView
  <2>7. Views'[p].last = "bad" /\ Views[p].last = "open"
    BY <2>6, ViewFields
  <2>8. Views'[p].state = Views[p].state /\ Views'[p].attempt = Views[p].attempt
    BY <1>1, ViewFields
  <2>9. Views' = [Views EXCEPT ![p].last = "bad"]
    BY <2>3, <2>5, <2>7, <2>8, FieldsSeen
  <2> QED
    BY <2>7, <2>9, AbstractActions
<1> QED
  BY <1>2, <1>3

LEMMA FinishedView ==
    ASSUME TypeInv, SuccInv, NEW e \in ExecId, NEW status, RowFinished(e, status)
    PROVE  \/ Views' = Views
           \/ \E p \in ExecId : H!Offer(p) \/ H!SuccessorEnds(p)
<1>0. EndSet(e, status) /\ Shows(status) \in {"good", "bad"} /\ status # "queued"
      /\ (Offers(e, status) => Shows(status) = "good")
      /\ rows'[e].handoff = (IF Offers(e, status) THEN "pending" ELSE "none")
      /\ rows'[e].attempt = (IF Offers(e, status) THEN 1 ELSE 0)
  BY DEF RowFinished, FinishSet, SameKin, EndSet, Shows, Live, Finished, EndedBadly, Offers
<1>1. \A q \in ExecId : Children(q)' = Children(q)
  BY <1>0, EndingView
<1>2. \A q \in ExecId \ {e} : /\ rows'[q].handoff = rows[q].handoff
                              /\ rows'[q].attempt = rows[q].attempt
  BY <1>0 DEF EndSet, OtherRows
<1>3. rows[e].handoff = "none" /\ rows[e].attempt = 0 /\ LastSuccessor(e)' = LastSuccessor(e)
  BY <1>0, EndingView
<1>4. \A q \in ExecId : Views'[q].starts = Views[q].starts
  <2> TAKE q \in ExecId
  <2>1. Children(q)' = Children(q)
    BY <1>1
  <2> QED
    BY <2>1, ViewFields, ZenonT(30)
<1>5. Views'[e].last = Views[e].last
  BY <1>3, ViewFields
<1>6. CASE \A q \in ExecId : rows[q].child # e
  <2>1. \A q \in ExecId : LastSuccessor(q)' = LastSuccessor(q)
    BY <1>0, <1>6, EndingView
  <2>2. CASE Offers(e, status)
    <3>1. \A q \in ExecId \ {e} : Unseen(q)
      BY <1>1, <1>2, <2>1 DEF Unseen
    <3>2. Views[e].state = "none" /\ Views'[e].state = "pending" /\ Views'[e].attempt = 1
      BY <1>0, <1>3, <2>2, ViewFields
    <3>3. Views' = [Views EXCEPT ![e].state = "pending", ![e].attempt = 1]
      BY <1>4, <1>5, <3>1, <3>2, FieldsSeen
    <3> QED
      BY <3>2, <3>3, AbstractActions
  <2>3. CASE ~Offers(e, status)
    BY <1>0, <1>1, <1>2, <1>3, <2>1, <2>3, AllUnseen DEF Unseen
  <2> QED
    BY <2>2, <2>3
<1>7. CASE \E q \in ExecId : rows[q].child = e
  <2>1. PICK p \in ExecId : rows[p].child = e
    BY <1>7
  <2>2. p # e /\ LastSuccessor(p) = "open" /\ LastSuccessor(p)' = Shows(status)
    BY <1>0, <2>1, EndingView
  <2>3. \A q \in ExecId \ {p} : LastSuccessor(q)' = LastSuccessor(q)
    BY <1>0, <2>1, EndingView
  <2>4. \A q \in ExecId \ {p, e} : Unseen(q)
    BY <1>1, <1>2, <2>3 DEF Unseen
  <2>5. /\ Views[p].last = "open" /\ Views'[p].last = Shows(status)
        /\ Views'[p].state = Views[p].state /\ Views'[p].attempt = Views[p].attempt
    <3>1. Views[p].last = "open" /\ Views'[p].last = Shows(status)
      BY <2>2, ViewFields
    <3>2. rows'[p].handoff = rows[p].handoff /\ rows'[p].attempt = rows[p].attempt
      BY <1>2, <2>2
    <3> QED
      BY <3>1, <3>2, ViewFields
  <2>6. CASE Offers(e, status)
    <3>1. Views[e].state = "none" /\ Views'[e].state = "pending" /\ Views'[e].attempt = 1
      BY <1>0, <1>3, <2>6, ViewFields
    <3>2. Views'[p].last = "good"
      BY <1>0, <2>5, <2>6
    <3>3. Views' = [Views EXCEPT ![p].last = "good",
                                 ![e].state = "pending", ![e].attempt = 1]
      BY <1>4, <1>5, <2>2, <2>4, <2>5, <3>1, <3>2, TwoSeen
    <3> QED
      BY <2>2, <2>5, <3>1, <3>3, AbstractActions
  <2>7. CASE ~Offers(e, status)
    <3>1. Unseen(e)
      BY <1>0, <1>1, <1>3, <2>7 DEF Unseen
    <3>2. \A q \in ExecId \ {p} : Unseen(q)
      BY <2>4, <3>1
    <3>3. Views' = [Views EXCEPT ![p].last = Views'[p].last]
      BY <1>4, <2>5, <3>2, FieldsSeen
    <3>4. Views' = [Views EXCEPT ![p].last = "good"] \/ Views' = [Views EXCEPT ![p].last = "bad"]
      BY <1>0, <2>5, <3>3
    <3> QED
      BY <2>5, <3>4, AbstractActions
  <2> QED
    BY <2>6, <2>7
<1> QED
  BY <1>6, <1>7

LEMMA SweptView ==
    ASSUME TypeInv, SuccInv, RowsSwept
    PROVE  H!Interrupt
<1>1. \A q \in ExecId : Children(q)' = Children(q)
  BY DEF RowsSwept, Swept, SameKin, Children
<1>2. ASSUME NEW p \in ExecId
      PROVE  LastSuccessor(p)' = IF LastSuccessor(p) = "open" THEN "bad" ELSE LastSuccessor(p)
  <2>1. rows'[p].child = rows[p].child
    BY DEF RowsSwept, Swept
  <2>2. rows[p].child # 0 => rows[p].child \in ExecId
    BY ChildOf
  <2>3. \A c \in ExecId : Shows(rows'[c].status) =
                              IF Shows(rows[c].status) = "open" THEN "bad"
                              ELSE Shows(rows[c].status)
    BY DEF RowsSwept, Swept, Shows, Live
  <2> QED
    BY <2>1, <2>2, <2>3, ViewFacts
<1>3. ASSUME NEW p \in ExecId
      PROVE  Views'[p] =
                 [Views[p] EXCEPT !.state = IF @ = "pending" THEN "interrupted" ELSE @,
                                  !.last = IF @ = "open" THEN "bad" ELSE @]
  <2>1. PICK v : v = Views[p]
    OBVIOUS
  <2>2. v = [state |-> v.state, attempt |-> v.attempt, starts |-> v.starts, last |-> v.last]
    BY <2>1, ViewFields
  <2>3. PICK u : u = [v EXCEPT !.state = IF v.state = "pending" THEN "interrupted"
                                         ELSE v.state]
    OBVIOUS
  <2>4. u = [state |-> IF v.state = "pending" THEN "interrupted" ELSE v.state,
             attempt |-> v.attempt, starts |-> v.starts, last |-> v.last]
    BY <2>2, <2>3
  <2>5. [u EXCEPT !.last = IF u.last = "open" THEN "bad" ELSE u.last]
            = [state |-> IF v.state = "pending" THEN "interrupted" ELSE v.state,
               attempt |-> v.attempt, starts |-> v.starts,
               last |-> IF v.last = "open" THEN "bad" ELSE v.last]
    BY <2>4
  <2>6. Children(p)' = Children(p)
    BY <1>1
  <2>7. Views'[p].starts = v.starts
    BY <2>1, <2>6, ViewFields, ZenonT(30)
  <2>8. Views'[p].last = IF v.last = "open" THEN "bad" ELSE v.last
    BY <1>2, <2>1, ViewFields, ZenonT(30)
  <2>9. /\ Views'[p].state = IF v.state = "pending" THEN "interrupted" ELSE v.state
        /\ Views'[p].attempt = v.attempt
    BY <2>1, ViewFields DEF RowsSwept, Swept
  <2>10. Views'[p] = [state |-> IF v.state = "pending" THEN "interrupted" ELSE v.state,
                      attempt |-> v.attempt, starts |-> v.starts,
                      last |-> IF v.last = "open" THEN "bad" ELSE v.last]
    BY <2>7, <2>8, <2>9, ViewFields
  <2> QED
    BY <2>1, <2>3, <2>5, <2>10
<1> QED
  BY <1>3, ViewsDomain, AbstractInterrupt

(* Every step of the tables, threads and locks is a step of the handoff or *)
(* leaves it alone.                                                        *)
LEMMA HandoffStep ==
    ASSUME TypeInv, SuccInv, RowEffect
    PROVE  H!HandoffNext \/ Views' = Views
<1>1. CASE TableSame
  <2>1. \A p \in ExecId : Children(p)' = Children(p)
    BY <1>1 DEF TableSame, Children
  <2>2. \A p \in ExecId : LastSuccessor(p)' = LastSuccessor(p)
    BY <1>1 DEF TableSame, LastSuccessor
  <2> QED
    BY <1>1, <2>1, <2>2, AllUnseen DEF TableSame, Unseen
<1>2. CASE RowsSwept
  BY <1>2, SweptView DEF H!HandoffNext
<1>3. ASSUME NEW h, NEW status, NEW target,
             RowRejected(h) \/ RowStarted(h, status, target)
      PROVE  Views' = Views
  BY <1>3, InsertedView DEF RowRejected, RowStarted
<1>4. ASSUME NEW e \in ExecId, NEW status, RowMarked(e, status) \/ RowFinished(e, status)
      PROVE  H!HandoffNext \/ Views' = Views
  BY <1>4, MarkedView, FinishedView DEF H!HandoffNext
<1>5. ASSUME NEW p \in ExecId, NEW target, RowHandedOff(p, target)
      PROVE  H!HandoffNext
  BY <1>5, HandedOffView DEF H!HandoffNext
<1>6. ASSUME NEW p \in ExecId, RowRefused(p) PROVE H!HandoffNext
  <2>1. Views[p].state = "pending" /\ Views[p].attempt = rows[p].attempt
    BY <1>6, ViewFields DEF RowRefused, Pending
  <2>2. Views' = [Views EXCEPT ![p].state = "failed", ![p].attempt = rows[p].attempt]
    BY <1>6, RefusedView DEF RowRefused
  <2>3. PICK v : v = Views[p]
    OBVIOUS
  <2>4. v = [state |-> v.state, attempt |-> v.attempt, starts |-> v.starts, last |-> v.last]
    BY <2>3, ViewFields
  <2>5. PICK u : u = [v EXCEPT !.state = "failed"]
    OBVIOUS
  <2>6. u = [state |-> "failed", attempt |-> v.attempt, starts |-> v.starts, last |-> v.last]
    BY <2>4, <2>5
  <2>7. [u EXCEPT !.attempt = v.attempt] = u
    BY <2>6
  <2>8. [[Views[p] EXCEPT !.state = "failed"] EXCEPT !.attempt = rows[p].attempt]
            = [Views[p] EXCEPT !.state = "failed"]
    BY <2>1, <2>3, <2>5, <2>7
  <2>9. Views' = [Views EXCEPT ![p].state = "failed"]
    BY <2>2, <2>8, ViewsDomain
  <2> QED
    BY <2>1, <2>9, AbstractActions DEF H!HandoffNext
<1>7. ASSUME NEW p \in ExecId, RowClaimed(p) PROVE H!HandoffNext
  <2>1. Views[p].state = rows[p].handoff /\ Views[p].attempt = rows[p].attempt
    BY ViewFields
  <2>2. Views' = [Views EXCEPT ![p].state = "pending", ![p].attempt = rows[p].attempt + 1]
    BY <1>7, RefusedView, ZenonT(30) DEF RowClaimed
  <2>3. Views' = [Views EXCEPT ![p].state = "pending", ![p].attempt = @ + 1]
    BY <2>1, <2>2, ViewsDomain
  <2>4. ASSUME rows[p].handoff = "dispatched", rows[rows[p].child].status \in EndedBadly
        PROVE  Views[p].last = "bad"
    <3>1. rows[p].child # 0
      BY <2>4 DEF SuccInv, Handed
    <3>2. Shows(rows[rows[p].child].status) = "bad"
      BY <2>4 DEF Shows, EndedBadly, Live
    <3> QED
      BY <3>1, <3>2, ViewFields, ViewFacts
  <2>5. \/ rows[p].handoff \in {"failed", "interrupted"}
        \/ rows[p].handoff = "dispatched" /\ rows[rows[p].child].status \in EndedBadly
    BY <1>7 DEF RowClaimed, Retryable
  <2>6. H!ClaimAgain(p)
    BY <2>1, <2>3, <2>4, <2>5, AbstractActions
  <2> QED
    BY <2>6 DEF H!HandoffNext
<1> QED
  BY <1>1, <1>2, <1>3, <1>4, <1>5, <1>6, <1>7 DEF RowEffect

LEMMA HandoffStart ==
    ASSUME Init
    PROVE  H!HandoffInit
<1>1. ASSUME NEW p \in ExecId
      PROVE  /\ rows[p].handoff = "none" /\ rows[p].attempt = 0
             /\ Children(p) = {} /\ LastSuccessor(p) = "none"
  BY DEF Init, RunnerInit, TableInit, NoRow, Children, LastSuccessor, ExecId
<1>2. \A p \in ExecId :
          Views[p] = [state |-> "none", attempt |-> 0, starts |-> 0, last |-> "none"]
  BY <1>1, FS_EmptySet DEF Views
<1> QED
  BY <1>2 DEF Views, H!HandoffInit

(* The tables, threads and locks implement the abstract handoff: an        *)
(* attempt starts one successor or is given back to the operator, whatever *)
(* the interleaving, the crashes and the failed writes.                    *)
THEOREM RefinesHandoffHolds == Spec => RefinesHandoff
<1>1. HandoffInv /\ [Next]_vars => H!HandoffNext \/ Views' = Views
  BY StepEffect, HandoffStep DEF HandoffInv, LifeInv, RunnerInv
<1>2. HandoffInv /\ [Next]_vars => [H!HandoffNext]_Views
  BY <1>1
<1>3. RefinesHandoff <=> H!HandoffInit /\ [][H!HandoffNext]_Views
  BY DEF RefinesHandoff, H!HandoffSpec, Views
<1> QED
  BY <1>2, <1>3, HandoffStart, HandoffAlways, PTL DEF Spec
=============================================================================

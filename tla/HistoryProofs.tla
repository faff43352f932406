---------------------------- MODULE HistoryProofs ----------------------------
(***************************************************************************)
(* A history that can be followed, for any graph of hooks, windows and     *)
(* bounds: whatever a pass deletes, an execution that is kept keeps its    *)
(* ancestors, its successor and its log.                                   *)
(*                                                                         *)
(* Ancestors are kept because what is retained is closed under parents.    *)
(* That the successor outlives its parent rests on more: it is the latest  *)
(* of the successors there are (Kin), it started after the others (Aged),  *)
(* and the others have ended badly and so have no successors whose age     *)
(* could keep the parent.                                                  *)
(***************************************************************************)
EXTENDS History, TLAPS

TypeInv ==
    /\ TableTypeOK
    /\ now \in Nat /\ started \in [ExecId -> Nat]
    /\ logged \subseteq ExecId
    /\ cutoff # NoSweep => cutoff \in Int

Fresh == \A e \in ExecId : e >= nextId => rows[e] = NoRow

(* Executions are numbered in the order they start in.                     *)
Aged ==
    \A e \in ExecId : e < nextId =>
        /\ started[e] <= now
        /\ \A f \in ExecId : f <= e => started[f] <= started[e]

(* A handoff is of a success with a target, and a dispatched one has a     *)
(* successor.                                                              *)
Offered(e) ==
    /\ rows[e].handoff # "none" => rows[e].status = "success" /\ rows[e].target # NoHook
    /\ rows[e].handoff = "dispatched" => rows[e].child \in Recorded /\ e < rows[e].child

(* Of the successors of p all have ended badly, but for the latest of a    *)
(* dispatched handoff.                                                     *)
Kin(p, c) ==
    /\ rows[p].status = "success" /\ rows[p].handoff # "none"
    /\ rows[p].handoff = "dispatched" => c <= rows[p].child
    /\ \/ rows[p].handoff = "dispatched" /\ rows[p].child = c
       \/ rows[c].status \in EndedBadly

KinInv ==
    /\ \A e \in ExecId : Offered(e)
    /\ \A p, c \in ExecId : rows[c].parent = p => Kin(p, c)

HistoryInv == TypeInv /\ Fresh /\ Aged /\ KinInv /\ NoOrphanLogs

-----------------------------------------------------------------------------
(* The statements, field by field.                                         *)
OtherRows(e) == \A q \in ExecId \ {e} : rows'[q] = rows[q]

(* A statement that writes the status or the handoff of one row.           *)
Written(e) ==
    /\ TableTypeOK' /\ nextId' = nextId /\ OtherRows(e)
    /\ rows'[e].parent = rows[e].parent /\ rows'[e].child = rows[e].child
    /\ rows'[e].target = rows[e].target

LEMMA StatusWritten ==
    ASSUME TableTypeOK, NEW e \in ExecId, NEW status \in Live, SetStatus(e, status)
    PROVE  /\ Written(e) /\ rows'[e].status = status /\ rows'[e].handoff = rows[e].handoff
<1> DEFINE row == [rows[e] EXCEPT !.status = status]
<1>1. rows' = [rows EXCEPT ![e] = row] /\ nextId' = nextId
  BY DEF SetStatus
<1>2. rows[e] \in Row /\ rows \in [ExecId -> Row]
  BY DEF TableTypeOK
<1>3. /\ row \in Row /\ row.status = status /\ row.parent = rows[e].parent
      /\ row.child = rows[e].child /\ row.handoff = rows[e].handoff
      /\ row.target = rows[e].target
  BY <1>2 DEF Row
<1> HIDE DEF row
<1> QED
  BY <1>1, <1>2, <1>3 DEF Written, OtherRows, TableTypeOK

LEMMA FinishWritten ==
    ASSUME TableTypeOK, NEW e \in ExecId, NEW status \in Finished, rows[e].status \in Live,
           FinishRow(e, status)
    PROVE  /\ Written(e) /\ rows'[e].status = status
           /\ \/ rows'[e].handoff = "none"
              \/ /\ rows'[e].handoff = "pending" /\ status = "success"
                 /\ rows[e].target # NoHook
<1> DEFINE row == FinishedRow(rows[e], status)
<1>1. rows' = [rows EXCEPT ![e] = row] /\ nextId' = nextId
  BY DEF FinishRow
<1>2. rows[e] \in Row /\ rows \in [ExecId -> Row]
  BY DEF TableTypeOK
<1>3. /\ row \in Row /\ row.status = status /\ row.parent = rows[e].parent
      /\ row.child = rows[e].child /\ row.target = rows[e].target
      /\ \/ row.handoff = "none"
         \/ row.handoff = "pending" /\ status = "success" /\ rows[e].target # NoHook
  <2>1. CASE status = "success" /\ rows[e].target # NoHook
    BY <1>2, <2>1 DEF Row, FinishedRow
  <2>2. CASE ~(status = "success" /\ rows[e].target # NoHook)
    BY <1>2, <2>2 DEF Row, FinishedRow
  <2> QED
    BY <2>1, <2>2
<1> HIDE DEF row
<1> QED
  BY <1>1, <1>2, <1>3 DEF Written, OtherRows, TableTypeOK

LEMMA HandoffWritten ==
    ASSUME TableTypeOK, NEW p \in ExecId,
           (FailHandoff(p) /\ rows[p].handoff = "pending") \/ Claim(p)
    PROVE  /\ Written(p) /\ rows'[p].status = rows[p].status
           /\ rows'[p].handoff = "pending" \/ (rows'[p].handoff = "failed" /\ ~Claim(p))
<1>2. rows[p] \in Row /\ rows \in [ExecId -> Row]
  BY DEF TableTypeOK
<1>3. CASE FailHandoff(p) /\ rows[p].handoff = "pending" /\ ~Claim(p)
  <2> DEFINE row == [rows[p] EXCEPT !.handoff = "failed"]
  <2>1. rows' = [rows EXCEPT ![p] = row] /\ nextId' = nextId
    BY <1>2, <1>3 DEF FailHandoff
  <2>2. /\ row \in Row /\ row.status = rows[p].status /\ row.parent = rows[p].parent
        /\ row.target = rows[p].target /\ row.child = rows[p].child /\ row.handoff = "failed"
    BY <1>2 DEF Row
  <2> HIDE DEF row
  <2> QED
    BY <1>2, <1>3, <2>1, <2>2 DEF Written, OtherRows, TableTypeOK
<1>4. CASE Claim(p)
  <2> DEFINE row == [rows[p] EXCEPT !.handoff = "pending", !.attempt = rows[p].attempt + 1]
  <2>1. rows' = [rows EXCEPT ![p] = row] /\ nextId' = nextId
    BY <1>4 DEF Claim
  <2>2. /\ row \in Row /\ row.status = rows[p].status /\ row.parent = rows[p].parent
        /\ row.target = rows[p].target /\ row.child = rows[p].child /\ row.handoff = "pending"
    <3>1. rows[p].attempt + 1 \in Nat
      BY <1>2 DEF Row
    <3> QED
      BY <1>2, <3>1 DEF Row
  <2> HIDE DEF row
  <2> QED
    BY <1>2, <2>1, <2>2 DEF Written, OtherRows, TableTypeOK
<1> QED
  BY <1>3, <1>4

(* A row inserted at the next id.                                          *)
Added(row) ==
    /\ TableTypeOK' /\ nextId \in ExecId /\ nextId' = nextId + 1
    /\ rows'[nextId] = row

LEMMA NewRowFields ==
    ASSUME NEW h \in Hook, NEW status \in Live, NEW parent \in {0} \cup ExecId,
           NEW path \in SUBSET Hook, NEW target \in Hook \cup {NoHook}
    PROVE  /\ NewRow(h, status, parent, path, target) \in Row
           /\ NewRow(h, status, parent, path, target).status = status
           /\ NewRow(h, status, parent, path, target).parent = parent
           /\ NewRow(h, status, parent, path, target).handoff = "none"
           /\ NewRow(h, status, parent, path, target).child = 0
BY DEF NewRow, NoRow, Row, Live

LEMMA TriggerAdds ==
    ASSUME TableTypeOK, NEW row \in Row, Insert(row)
    PROVE  Added(row) /\ OtherRows(nextId)
BY ExecAssumption DEF TableTypeOK, Insert, HasRoom, ExecId, Added, OtherRows

LEMMA SuccessorAdds ==
    ASSUME TableTypeOK, NEW p \in ExecId, NEW target \in Hook \cup {NoHook},
           rows[p].target \in Hook, p # nextId, InsertSuccessor(p, target)
    PROVE  /\ Added(NewRow(rows[p].target, "queued", p, rows[p].path \cup {rows[p].target},
                           target))
           /\ \A q \in ExecId \ {p, nextId} : rows'[q] = rows[q]
           /\ rows'[p].status = rows[p].status /\ rows'[p].parent = rows[p].parent
           /\ rows'[p].handoff = "dispatched" /\ rows'[p].child = nextId
           /\ rows'[p].target = rows[p].target
<1> DEFINE new == NewRow(rows[p].target, "queued", p, rows[p].path \cup {rows[p].target},
                         target)
           row == [rows[p] EXCEPT !.handoff = "dispatched", !.child = nextId]
<1>1. nextId \in ExecId /\ nextId' = nextId + 1
  BY ExecAssumption DEF TableTypeOK, InsertSuccessor, HasRoom, ExecId
<1>2. rows[p] \in Row /\ rows \in [ExecId -> Row]
  BY DEF TableTypeOK
<1>3. new \in Row
  <2>1. rows[p].path \cup {rows[p].target} \in SUBSET Hook /\ "queued" \in Live
    BY <1>2 DEF Row, Live
  <2> QED
    BY <2>1, NewRowFields
<1>4. rows' = [[rows EXCEPT ![nextId] = new] EXCEPT ![p] = row]
  BY <1>1, <1>2 DEF InsertSuccessor
<1>5. /\ row \in Row /\ row.status = rows[p].status /\ row.parent = rows[p].parent
      /\ row.handoff = "dispatched" /\ row.child = nextId /\ row.target = rows[p].target
  BY <1>1, <1>2 DEF Row
<1> HIDE DEF new, row
<1>6. rows' \in [ExecId -> Row] /\ rows'[nextId] = new /\ rows'[p] = row
      /\ \A q \in ExecId \ {p, nextId} : rows'[q] = rows[q]
  BY <1>1, <1>2, <1>3, <1>4, <1>5
<1>7. TableTypeOK'
  BY <1>1, <1>6, ExecAssumption DEF TableTypeOK, ExecId
<1> QED
  BY <1>1, <1>5, <1>6, <1>7 DEF Added, new

Swept ==
    /\ TableTypeOK' /\ nextId' = nextId
    /\ \A e \in ExecId :
           /\ rows'[e].parent = rows[e].parent /\ rows'[e].child = rows[e].child
           /\ rows'[e].target = rows[e].target
           /\ rows'[e].handoff = IF rows[e].handoff = "pending" THEN "interrupted"
                                 ELSE rows[e].handoff
           /\ rows'[e].status = IF rows[e].status \in Live THEN "interrupted"
                                ELSE rows[e].status

LEMMA SweepSweeps ==
    ASSUME TableTypeOK, Sweep
    PROVE  Swept /\ \A e \in ExecId : rows[e] = NoRow => rows'[e] = NoRow
<1>1. rows' = [e \in ExecId |-> SweptRow(rows[e])] /\ nextId' = nextId
  BY DEF Sweep
<1>2. ASSUME NEW row \in Row
      PROVE  /\ SweptRow(row) \in Row
             /\ SweptRow(row).parent = row.parent /\ SweptRow(row).child = row.child
             /\ SweptRow(row).target = row.target
             /\ SweptRow(row).handoff = IF row.handoff = "pending" THEN "interrupted"
                                        ELSE row.handoff
             /\ SweptRow(row).status = IF row.status \in Live THEN "interrupted"
                                       ELSE row.status
  BY ZenonT(30) DEF SweptRow, Row, Finished, EndedBadly
<1>3. SweptRow(NoRow) = NoRow
  BY DEF SweptRow, NoRow, Live
<1> QED
  BY <1>1, <1>2, <1>3 DEF Swept, TableTypeOK

-----------------------------------------------------------------------------
(* What each statement keeps.                                              *)
LEMMA StatusKept ==
    ASSUME HistoryInv, NEW e \in ExecId, Written(e),
           rows[e].status \in Live, rows'[e].status \in Live \cup Finished,
           \/ rows'[e].handoff = "none"
           \/ /\ rows'[e].handoff = "pending" /\ rows'[e].status = "success"
              /\ rows[e].target # NoHook
    PROVE  KinInv' /\ Recorded' = Recorded
<1> USE DEF HistoryInv, KinInv, Written, OtherRows
<1>1. "absent" \notin Live \cup Finished /\ "success" \notin Live
      /\ Live \cap EndedBadly = {}
  BY DEF Live, Finished, EndedBadly
<1>2. Recorded' = Recorded
  BY <1>1 DEF Recorded
<1>3. ASSUME NEW q \in ExecId PROVE Offered(q)'
  BY <1>1, <1>2 DEF Offered
<1>4. ASSUME NEW p \in ExecId, NEW c \in ExecId, rows'[c].parent = p PROVE Kin(p, c)'
  <2>1. Kin(p, c)
    BY <1>4
  <2>2. p # e
    BY <1>1, <2>1 DEF Kin
  <2> QED
    BY <1>1, <2>1, <2>2 DEF Kin
<1> QED
  BY <1>2, <1>3, <1>4

LEMMA HandoffKept ==
    ASSUME HistoryInv, NEW p \in ExecId, Written(p),
           rows[p].status = "success", rows'[p].status = "success",
           rows[p].target # NoHook,
           rows'[p].handoff \in {"pending", "failed"},
           rows[p].handoff = "dispatched" => rows[rows[p].child].status \in EndedBadly
    PROVE  KinInv' /\ Recorded' = Recorded
<1> USE DEF HistoryInv, KinInv, Written, OtherRows
<1>1. "success" \notin EndedBadly
  BY DEF EndedBadly
<1>2. Recorded' = Recorded
  BY DEF Recorded
<1>3. ASSUME NEW q \in ExecId PROVE Offered(q)'
  BY <1>2 DEF Offered
<1>4. ASSUME NEW q \in ExecId, NEW c \in ExecId, rows'[c].parent = q PROVE Kin(q, c)'
  <2>1. Kin(q, c)
    BY <1>4
  <2> QED
    BY <1>1, <2>1 DEF Kin
<1> QED
  BY <1>2, <1>3, <1>4

(* Nothing else is touched when a statement writes one row.                *)
LEMMA RestKept ==
    ASSUME HistoryInv, TableTypeOK', nextId' = nextId, Recorded' = Recorded,
           \A e \in ExecId : rows[e] = NoRow => rows'[e] = NoRow,
           UNCHANGED <<now, started>>, logged' \subseteq Recorded,
           cutoff' \in {cutoff, NoSweep}, KinInv'
    PROVE  HistoryInv'
<1> USE DEF HistoryInv
<1>1. TypeInv'
  BY DEF TypeInv, Recorded
<1>2. Fresh'
  BY DEF Fresh
<1>3. Aged'
  BY DEF Aged
<1>4. NoOrphanLogs'
  BY DEF NoOrphanLogs
<1> QED
  BY <1>1, <1>2, <1>3, <1>4

LEMMA NoRowFields ==
    /\ NoRow.status = "absent" /\ NoRow.handoff = "none" /\ NoRow.parent = 0
    /\ NoRow.child = 0 /\ "absent" \notin Live \cup Finished
BY DEF NoRow, Live, Finished, EndedBadly

LEMMA RowStep ==
    ASSUME HistoryInv, NEW e \in ExecId, NEW status \in Outcome,
           Begin(e) \/ Finish(e, status) \/ Refuse(e) \/ Retry(e)
    PROVE  HistoryInv' /\ Recorded \subseteq Recorded'
<1>1. TableTypeOK /\ status \in Finished /\ "running" \in Live /\ "queued" \in Live
  BY DEF HistoryInv, TypeInv, Outcome, Finished, EndedBadly, Live
<1>2. e \in Recorded /\ UNCHANGED <<now, started, logged, cutoff>>
  BY DEF Begin, Finish, Refuse, Retry, OnRow
<1>3. Written(e) /\ KinInv' /\ Recorded' = Recorded
  <2>1. CASE Begin(e)
    <3>1. rows[e].status = "queued" /\ SetStatus(e, "running")
      BY <2>1 DEF Begin, OnRow, MarkRunning
    <3>2. Written(e) /\ rows'[e].status = "running" /\ rows'[e].handoff = rows[e].handoff
      BY <1>1, <3>1, StatusWritten
    <3>3. rows[e].handoff = "none"
      BY <3>1 DEF HistoryInv, KinInv, Offered
    <3> QED
      BY <1>1, <3>1, <3>2, <3>3, StatusKept
  <2>2. CASE Finish(e, status)
    <3>1. rows[e].status \in Live /\ FinishRow(e, status)
      BY <2>2 DEF Finish, OnRow
    <3> QED
      BY <1>1, <3>1, FinishWritten, StatusKept
  <2>3. CASE Refuse(e)
    <3>1. Pending(e) /\ FailHandoff(e)
      BY <2>3 DEF Refuse, OnRow
    <3>2. /\ Written(e) /\ rows'[e].status = rows[e].status
          /\ rows'[e].handoff \in {"pending", "failed"}
      BY <1>1, <3>1, HandoffWritten DEF Pending
    <3>3. rows[e].target # NoHook
      BY <3>1 DEF Pending, HistoryInv, KinInv, Offered
    <3> QED
      BY <3>1, <3>2, <3>3, HandoffKept DEF Pending
  <2>4. CASE Retry(e)
    <3>1. Retryable(e) /\ Claim(e)
      BY <2>4 DEF Retry, OnRow
    <3>2. /\ Written(e) /\ rows'[e].status = rows[e].status
          /\ rows'[e].handoff \in {"pending", "failed"}
      BY <1>1, <3>1, HandoffWritten
    <3> QED
      BY <3>1, <3>2, HandoffKept DEF Retryable
  <2> QED
    BY <2>1, <2>2, <2>3, <2>4
<1>4. \A q \in ExecId : rows[q] = NoRow => rows'[q] = NoRow
  BY <1>2, <1>3, NoRowFields DEF Written, OtherRows, Recorded
<1>5. logged' \subseteq Recorded
  BY <1>2 DEF HistoryInv, NoOrphanLogs
<1> QED
  BY <1>2, <1>3, <1>4, <1>5, RestKept DEF Written

(* A row is added, and its parent's row, if there is one, is written.      *)
LEMMA AddedKept ==
    ASSUME HistoryInv, NEW row, Added(row), StampNew, row.status \in Live,
           UNCHANGED <<now, logged, cutoff>>,
           \A q \in ExecId \ {nextId} :
               rows'[q].status = rows[q].status /\ (rows[q] = NoRow => rows'[q] = NoRow)
    PROVE  TypeInv' /\ Fresh' /\ Aged' /\ NoOrphanLogs' /\ Recorded' = Recorded \cup {nextId}
<1> USE DEF HistoryInv, Added
<1>1. nextId \in ExecId /\ now \in Nat /\ started \in [ExecId -> Nat]
  BY DEF TypeInv
<1>2. started' = [started EXCEPT ![nextId] = now]
  BY DEF StampNew
<1>3. Recorded' = Recorded \cup {nextId}
  BY NoRowFields DEF Recorded
<1>4. TypeInv'
  BY <1>1, <1>2 DEF TypeInv
<1>5. Fresh'
  BY <1>1 DEF Fresh, ExecId
<1>6. Aged'
  <2> SUFFICES ASSUME NEW e \in ExecId, e < nextId + 1
               PROVE  /\ started'[e] <= now
                      /\ \A f \in ExecId : f <= e => started'[f] <= started'[e]
    BY DEF Aged
  <2>1. CASE e = nextId
    <3>1. started'[e] = now
      BY <1>1, <1>2, <2>1
    <3>2. \A f \in ExecId : f <= e => started'[f] <= now
      BY <1>1, <1>2, <2>1 DEF Aged, ExecId
    <3> QED
      BY <1>1, <3>1, <3>2
  <2>2. CASE e # nextId
    <3>1. e < nextId
      BY <1>1, <2>2 DEF ExecId
    <3>2. \A f \in ExecId : f <= e => f # nextId /\ started'[f] = started[f]
      BY <1>1, <1>2, <3>1 DEF ExecId
    <3>3. started'[e] = started[e]
      BY <1>1, <1>2, <2>2
    <3> QED
      BY <3>1, <3>2, <3>3 DEF Aged
  <2> QED
    BY <2>1, <2>2
<1>7. NoOrphanLogs'
  BY <1>3 DEF NoOrphanLogs
<1> QED
  BY <1>3, <1>4, <1>5, <1>6, <1>7

LEMMA RecordedBelow ==
    ASSUME HistoryInv, NEW e \in Recorded
    PROVE  e \in ExecId /\ e < nextId
BY NoRowFields DEF HistoryInv, Fresh, Recorded, ExecId, TypeInv, TableTypeOK

(* Nothing is known of an id before it is given out.                       *)
LEMMA NextUnknown ==
    ASSUME HistoryInv, nextId \in ExecId
    PROVE  /\ rows[nextId] = NoRow /\ nextId \notin Recorded
           /\ \A e \in Recorded : e < nextId
           /\ \A e \in ExecId : rows[e].parent # nextId
<1>1. \A e \in ExecId : e >= nextId => e \notin Recorded
  BY NoRowFields DEF HistoryInv, Fresh, Recorded
<1>2. ASSUME NEW e \in ExecId, rows[e].parent = nextId PROVE FALSE
  <2>1. Kin(nextId, e)
    BY <1>2 DEF HistoryInv, KinInv
  <2>2. nextId \notin Recorded
    BY <1>1 DEF HistoryInv, TypeInv, TableTypeOK, ExecId
  <2> QED
    BY <2>1, <2>2 DEF Kin, Recorded
<1> QED
  BY <1>1, <1>2 DEF HistoryInv, Fresh, Recorded, ExecId, TypeInv, TableTypeOK

LEMMA TriggerStep ==
    ASSUME HistoryInv, NEW h \in Entry, Trigger(h)
    PROVE  HistoryInv' /\ Recorded \subseteq Recorded'
<1> DEFINE row == NewRow(h, "running", 0, {h}, Successor[h])
<1>1. h \in Hook /\ Successor[h] \in Hook \cup {NoHook} /\ "running" \in Live /\ {h} \in SUBSET Hook
  BY HistoryAssumption DEF Live
<1>2. row \in Row /\ row.status = "running" /\ row.parent = 0 /\ row.handoff = "none"
      /\ row.child = 0
  BY <1>1, NewRowFields
<1>3. Insert(row) /\ StampNew /\ UNCHANGED <<now, logged, cutoff>>
  BY DEF Trigger
<1> HIDE DEF row
<1>4. Added(row) /\ OtherRows(nextId)
  BY <1>2, <1>3, TriggerAdds DEF HistoryInv, TypeInv
<1>5. TypeInv' /\ Fresh' /\ Aged' /\ NoOrphanLogs' /\ Recorded' = Recorded \cup {nextId}
  BY <1>1, <1>2, <1>3, <1>4, AddedKept DEF OtherRows
<1>6. nextId \in ExecId /\ rows'[nextId] = row
  BY <1>4 DEF Added
<1>7. ASSUME NEW e \in ExecId PROVE Offered(e)'
  BY <1>2, <1>4, <1>5, <1>6 DEF Offered, OtherRows, HistoryInv, KinInv
<1>8. ASSUME NEW p \in ExecId, NEW c \in ExecId, rows'[c].parent = p PROVE Kin(p, c)'
  <2>1. c # nextId
    BY <1>2, <1>6, <1>8 DEF ExecId
  <2>2. rows[c].parent = p
    BY <1>4, <1>8, <2>1 DEF OtherRows
  <2>3. p # nextId /\ Kin(p, c)
    BY <1>6, <2>2, NextUnknown DEF HistoryInv, KinInv
  <2> QED
    BY <1>4, <2>1, <2>3 DEF Kin, OtherRows
<1> QED
  BY <1>5, <1>7, <1>8 DEF HistoryInv, KinInv

LEMMA DispatchStep ==
    ASSUME HistoryInv, NEW p \in ExecId, Dispatch(p)
    PROVE  HistoryInv' /\ Recorded \subseteq Recorded'
<1> DEFINE target == Successor[rows[p].target]
           row == NewRow(rows[p].target, "queued", p, rows[p].path \cup {rows[p].target},
                         target)
<1>1. /\ Pending(p) /\ InsertSuccessor(p, target) /\ StampNew
      /\ UNCHANGED <<now, logged, cutoff>>
  BY DEF Dispatch
<1>2. TableTypeOK /\ rows[p] \in Row
  BY DEF HistoryInv, TypeInv, TableTypeOK
<1>3. nextId \in ExecId /\ p # nextId
  BY <1>1, <1>2, NextUnknown, ExecAssumption
  DEF InsertSuccessor, HasRoom, ExecId, Pending, Recorded, TableTypeOK
<1>4. rows[p].target \in Hook /\ target \in Hook \cup {NoHook}
  BY <1>1, <1>2, HistoryAssumption DEF Pending, HistoryInv, KinInv, Offered, Row
<1>5. /\ row.status = "queued" /\ row.parent = p /\ row.handoff = "none" /\ row.child = 0
  BY DEF NewRow, NoRow
<1> HIDE DEF row, target
<1>6. /\ Added(row) /\ \A q \in ExecId \ {p, nextId} : rows'[q] = rows[q]
      /\ rows'[p].status = rows[p].status /\ rows'[p].parent = rows[p].parent
      /\ rows'[p].handoff = "dispatched" /\ rows'[p].child = nextId
      /\ rows'[p].target = rows[p].target
  BY <1>1, <1>2, <1>3, <1>4, SuccessorAdds DEF row
<1>7. "queued" \in Live /\ rows[p] # NoRow
  BY <1>1, NoRowFields DEF Live, Pending
<1>8. TypeInv' /\ Fresh' /\ Aged' /\ NoOrphanLogs' /\ Recorded' = Recorded \cup {nextId}
  BY <1>1, <1>5, <1>6, <1>7, AddedKept
<1>9. nextId \in ExecId /\ rows'[nextId] = row
  BY <1>6 DEF Added
<1>10. ASSUME NEW e \in ExecId PROVE Offered(e)'
  <2>1. Offered(e) /\ Offered(p)
    BY DEF HistoryInv, KinInv
  <2>2. p < nextId
    BY <1>1, RecordedBelow DEF Pending, Recorded
  <2> QED
    BY <1>1, <1>3, <1>5, <1>6, <1>8, <1>9, <2>1, <2>2 DEF Offered, Pending
<1>11. ASSUME NEW q \in ExecId, NEW c \in ExecId, rows'[c].parent = q PROVE Kin(q, c)'
  <2>1. CASE c = nextId
    <3>1. q = p
      BY <1>5, <1>9, <1>11, <2>1
    <3> QED
      BY <1>1, <1>3, <1>6, <2>1, <3>1 DEF Kin, Pending, ExecId
  <2>2. CASE c # nextId
    <3>1. rows[c].parent = q /\ rows'[c].status = rows[c].status
      BY <1>6, <1>11, <2>2
    <3>2. q # nextId /\ Kin(q, c)
      BY <1>9, <3>1, NextUnknown DEF HistoryInv, KinInv
    <3>3. CASE q = p
      <4>1. rows[c].status \in EndedBadly
        BY <1>1, <3>2, <3>3 DEF Kin, Pending
      <4>2. c <= nextId
        <5>1. c \in Recorded
          BY <4>1 DEF EndedBadly, Recorded
        <5>2. c < nextId
          BY <1>9, <5>1, NextUnknown
        <5> QED
          BY <1>9, <5>2 DEF ExecId
      <4> QED
        BY <1>1, <1>6, <3>1, <3>3, <4>1, <4>2 DEF Kin, Pending
    <3>4. CASE q # p
      BY <1>6, <3>1, <3>2, <3>4 DEF Kin
    <3> QED
      BY <3>3, <3>4
  <2> QED
    BY <2>1, <2>2
<1> QED
  BY <1>8, <1>10, <1>11 DEF HistoryInv, KinInv

LEMMA RestartStep ==
    ASSUME HistoryInv, RestartSweep
    PROVE  HistoryInv' /\ Recorded \subseteq Recorded'
<1>1. Swept /\ \A e \in ExecId : rows[e] = NoRow => rows'[e] = NoRow
  BY SweepSweeps DEF RestartSweep, HistoryInv, TypeInv
<1>2. "interrupted" \in EndedBadly /\ "success" \notin Live
  BY DEF EndedBadly, Live
<1>3. Recorded' = Recorded
  BY <1>1, NoRowFields DEF Swept, Recorded
<1>4. ASSUME NEW e \in ExecId PROVE Offered(e)'
  BY <1>1, <1>2, <1>3 DEF Offered, Swept, HistoryInv, KinInv
<1>5. ASSUME NEW p \in ExecId, NEW c \in ExecId, rows'[c].parent = p PROVE Kin(p, c)'
  <2>1. Kin(p, c)
    BY <1>1, <1>5 DEF Swept, HistoryInv, KinInv
  <2> QED
    BY <1>1, <1>2, <2>1 DEF Kin, Swept
<1> QED
  BY <1>1, <1>3, <1>4, <1>5, RestKept
  DEF RestartSweep, Swept, KinInv, HistoryInv, NoOrphanLogs

LEMMA OtherStep ==
    ASSUME HistoryInv,
           \/ UNCHANGED historyVars \/ Tick
           \/ \E e \in ExecId : Log(e)
           \/ \E d \in Days : StartPass(d)
    PROVE  HistoryInv' /\ Recorded \subseteq Recorded'
<1>1. UNCHANGED tableVars /\ UNCHANGED started
  BY DEF Tick, Log, StartPass, historyVars
<1>2. now' \in Nat /\ now' >= now /\ now \in Nat
  BY DEF HistoryInv, TypeInv, Tick, Log, StartPass, historyVars
<1>3. cutoff' # NoSweep => cutoff' \in Int
  BY HistoryAssumption DEF HistoryInv, TypeInv, Tick, Log, StartPass, historyVars
<1>4. logged' \subseteq Recorded
  BY NoRowFields DEF HistoryInv, NoOrphanLogs, Tick, Log, StartPass, historyVars, Recorded
<1>5. Recorded' = Recorded /\ Fresh' /\ KinInv' /\ TableTypeOK' /\ NoOrphanLogs'
  BY <1>1, <1>4
  DEF tableVars, Recorded, Fresh, HistoryInv, TypeInv, TableTypeOK, NoOrphanLogs, KinInv,
      Offered, Kin
<1>6. Aged'
  BY <1>1, <1>2 DEF Aged, HistoryInv, TypeInv, tableVars
<1>7. TypeInv'
  BY <1>1, <1>2, <1>3, <1>4, <1>5 DEF TypeInv, HistoryInv, Recorded
<1> QED
  BY <1>5, <1>6, <1>7 DEF HistoryInv

-----------------------------------------------------------------------------
(* What a pass retains.                                                    *)
Holding(S) ==
    /\ S \subseteq ExecId /\ {e \in ExecId : KeptOnItsOwn(e)} \subseteq S
    /\ \A e \in S : rows[e].parent \in S \cup {0}

LEMMA RetainedLeast ==
    /\ Retained \subseteq ExecId
    /\ \A e \in ExecId : KeptOnItsOwn(e) => e \in Retained
    /\ \A S : Holding(S) => Retained \subseteq S
    /\ \A e \in ExecId : e \notin Retained => \E S : Holding(S) /\ e \notin S
BY DEF Retained, Holding

LEMMA RetainedClosed ==
    ASSUME HistoryInv, NEW e \in Retained
    PROVE  rows[e].parent \in Retained \cup {0}
<1> SUFFICES ASSUME rows[e].parent # 0, rows[e].parent \notin Retained PROVE FALSE
  OBVIOUS
<1>1. e \in ExecId /\ rows[e].parent \in ExecId
  BY RetainedLeast DEF HistoryInv, TypeInv, TableTypeOK, Row
<1>2. PICK S : Holding(S) /\ rows[e].parent \notin S
  BY <1>1, RetainedLeast
<1>3. e \in S
  BY <1>2, RetainedLeast
<1> QED
  BY <1>2, <1>3 DEF Holding

(* An execution that is retained and was handed off: so is its successor.  *)
LEMMA SuccessorRetained ==
    ASSUME HistoryInv, cutoff # NoSweep, NEW p \in Retained, rows[p].handoff = "dispatched"
    PROVE  rows[p].child \in Retained
<1> DEFINE last == rows[p].child
<1> SUFFICES ASSUME last \notin Retained PROVE FALSE
  OBVIOUS
<1>1. p \in ExecId /\ last \in Recorded /\ rows[p].status = "success"
  BY RetainedLeast DEF HistoryInv, KinInv, Offered
<1>2. last \in ExecId /\ ~KeptOnItsOwn(last)
  BY <1>1, RetainedLeast DEF Recorded
<1>3. started[last] < cutoff /\ cutoff \in Int /\ started \in [ExecId -> Nat]
  BY <1>1, <1>2 DEF KeptOnItsOwn, HistoryInv, TypeInv
<1>4. PICK S : Holding(S) /\ last \notin S
  BY <1>2, RetainedLeast
<1> DEFINE T == {e \in S : e # p /\ rows[e].parent # p}
<1>5. ASSUME NEW c \in ExecId, c = p \/ rows[c].parent = p PROVE ~KeptOnItsOwn(c)
  <2>0. "success" \notin Live /\ EndedBadly \cap Live = {} /\ "success" \notin EndedBadly
    BY DEF Live, EndedBadly
  <2>1. CASE c = p
    <3>1. p < last /\ last < nextId
      BY <1>1, RecordedBelow DEF HistoryInv, KinInv, Offered
    <3>2. started[p] <= started[last]
      BY <1>1, <1>2, <3>1 DEF HistoryInv, Aged, ExecId
    <3> QED
      BY <1>1, <1>2, <1>3, <2>0, <2>1, <3>2 DEF KeptOnItsOwn
  <2>2. CASE rows[c].parent = p
    <3>1. Kin(p, c)
      BY <1>1, <2>2 DEF HistoryInv, KinInv
    <3>2. c = last \/ rows[c].status \in EndedBadly
      BY <3>1 DEF Kin
    <3>3. c <= last /\ last < nextId
      BY <1>1, <3>1, RecordedBelow DEF Kin
    <3>4. started[c] <= started[last]
      BY <1>2, <3>3 DEF HistoryInv, Aged
    <3>5. rows[c].handoff # "none" => rows[c].status = "success"
      BY DEF HistoryInv, KinInv, Offered
    <3> QED
      BY <1>2, <1>3, <2>0, <3>2, <3>4, <3>5 DEF KeptOnItsOwn
  <2> QED
    BY <1>5, <2>1, <2>2
<1>6. Holding(T)
  <2>1. T \subseteq ExecId /\ {e \in ExecId : KeptOnItsOwn(e)} \subseteq T
    BY <1>4, <1>5 DEF Holding
  <2>2. ASSUME NEW e \in T, rows[e].parent # 0 PROVE rows[e].parent \in T
    <3>1. e \in ExecId /\ rows[e].parent \in S /\ rows[e].parent \in ExecId
      BY <1>4, <2>2 DEF Holding
    <3>2. ASSUME rows[rows[e].parent].parent = p PROVE FALSE
      <4>1. Kin(p, rows[e].parent) /\ Kin(rows[e].parent, e)
        BY <1>1, <3>1, <3>2 DEF HistoryInv, KinInv
      <4>2. rows[e].parent = last
        BY <4>1 DEF Kin, EndedBadly
      <4> QED
        BY <1>4, <3>1, <4>2
    <3> QED
      BY <3>1, <3>2
  <2> QED
    BY <2>1, <2>2 DEF Holding
<1>7. p \notin T
  OBVIOUS
<1> HIDE DEF T
<1> QED
  BY <1>6, <1>7, RetainedLeast

LEMMA CleanupStep ==
    ASSUME HistoryInv, Cleanup
    PROVE  HistoryInv'
<1>1. cutoff # NoSweep /\ cutoff' = NoSweep /\ UNCHANGED <<nextId, now, started>>
  BY DEF Cleanup
<1>2. rows' = [e \in ExecId |-> IF e \in Retained THEN rows[e] ELSE NoRow]
      /\ logged' = logged \ (Recorded \ Retained)
  BY DEF Cleanup
<1>3. rows \in [ExecId -> Row] /\ NoRow \in Row
  BY DEF HistoryInv, TypeInv, TableTypeOK, NoRow, Row
<1>4. \A e \in ExecId : rows'[e] = IF e \in Retained THEN rows[e] ELSE NoRow
  BY <1>2
<1>5. Recorded' = Recorded \cap Retained
  BY <1>4, NoRowFields DEF Recorded
<1>6. TypeInv' /\ Fresh' /\ Aged'
  BY <1>1, <1>2, <1>3, <1>4
  DEF HistoryInv, TypeInv, TableTypeOK, Fresh, Aged
<1>7. NoOrphanLogs'
  BY <1>2, <1>5 DEF HistoryInv, NoOrphanLogs
<1>8. ASSUME NEW e \in ExecId PROVE Offered(e)'
  BY <1>1, <1>4, <1>5, NoRowFields, SuccessorRetained DEF HistoryInv, KinInv, Offered
<1>9. ASSUME NEW p \in ExecId, NEW c \in ExecId, rows'[c].parent = p PROVE Kin(p, c)'
  <2>1. c \in Retained /\ rows'[c] = rows[c] /\ Kin(p, c)
    BY <1>4, <1>9, NoRowFields DEF HistoryInv, KinInv, ExecId
  <2>2. p \in Retained
    BY <1>9, <2>1, RetainedClosed DEF ExecId
  <2> QED
    BY <1>4, <2>1, <2>2 DEF Kin
<1> QED
  BY <1>6, <1>7, <1>8, <1>9 DEF HistoryInv, KinInv

-----------------------------------------------------------------------------
LEMMA HistoryInit ==
    ASSUME Init
    PROVE  HistoryInv
<1>1. NoRow \in Row
  BY DEF NoRow, Row
<1>2. TypeInv /\ Fresh /\ NoOrphanLogs
  BY <1>1, ExecAssumption DEF Init, TableInit, TypeInv, TableTypeOK, Fresh, NoOrphanLogs
<1>3. Aged
  BY DEF Init, TableInit, Aged, ExecId
<1>4. KinInv
  BY NoRowFields DEF Init, TableInit, KinInv, Offered, ExecId
<1> QED
  BY <1>2, <1>3, <1>4 DEF HistoryInv

LEMMA HistoryStep ==
    ASSUME HistoryInv, [Next]_historyVars
    PROVE  HistoryInv'
BY RowStep, TriggerStep, DispatchStep, RestartStep, OtherStep, CleanupStep
DEF Next, Outcome

LEMMA HistoryAlways == Spec => []HistoryInv
<1>1. HistoryInv /\ [Next]_historyVars => HistoryInv'
  BY HistoryStep
<1> QED
  BY <1>1, HistoryInit, PTL DEF Spec

(* No log outlives its execution, with any number of them and however many *)
(* passes.                                                                 *)
THEOREM NoOrphanLogsHolds == Spec => []NoOrphanLogs
<1>1. HistoryInv => NoOrphanLogs
  BY DEF HistoryInv
<1> QED
  BY <1>1, HistoryAlways, PTL

(* Whatever the window, the retries and the passes in between, a kept      *)
(* execution keeps its ancestors and its successor.                        *)
THEOREM RelativesKeptHolds == Spec => []RelativesKept
<1>1. HistoryInv => RelativesKept
  <2> SUFFICES ASSUME HistoryInv PROVE AncestorsKept /\ SuccessorKept
    BY DEF RelativesKept
  <2>1. AncestorsKept
    <3> SUFFICES ASSUME NEW e \in ExecId, rows[e].parent # 0
                 PROVE  rows[e].parent \in Recorded
      BY DEF AncestorsKept, Recorded
    <3>1. rows[e].parent \in ExecId
      BY DEF HistoryInv, TypeInv, TableTypeOK, Row
    <3> QED
      BY <3>1 DEF HistoryInv, KinInv, Kin, Recorded
  <2>2. SuccessorKept
    BY DEF SuccessorKept, HistoryInv, KinInv, Offered, Recorded
  <2> QED
    BY <2>1, <2>2
<1> QED
  BY <1>1, HistoryAlways, PTL

(* No pass deletes work that is not settled, however old its cutoff.       *)
THEOREM UnsettledStaysHolds == Spec => UnsettledStays
<1> DEFINE Stays == \A e \in Recorded : rows[e].status \in Live \/ Pending(e) =>
                        rows'[e].status # "absent"
<1>1. HistoryInv /\ [Next]_historyVars => [Stays]_historyVars
  <2> SUFFICES ASSUME HistoryInv, Next, NEW e \in Recorded, rows[e].status \in Live \/ Pending(e)
               PROVE  rows'[e].status # "absent"
    OBVIOUS
  <2>1. CASE Cleanup
    <3>1. e \in Retained
      BY RetainedLeast DEF KeptOnItsOwn, Pending, Recorded
    <3> QED
      BY <2>1, <3>1 DEF Cleanup, Recorded
  <2>2. CASE ~Cleanup
    BY <2>2, RowStep, TriggerStep, DispatchStep, RestartStep, OtherStep
    DEF Next, Outcome, Recorded
  <2> QED
    BY <2>1, <2>2
<1>2. UnsettledStays <=> [][Stays]_historyVars
  BY DEF UnsettledStays
<1> HIDE DEF Stays
<1> QED
  BY <1>1, <1>2, HistoryAlways, PTL DEF Spec
=============================================================================

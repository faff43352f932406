------------------------ MODULE ExecutionProperties ------------------------
(* What Executions promises: admission, the life of an execution row, and  *)
(* the handoff from a successful execution to the next hook.               *)
EXTENDS Executions

-----------------------------------------------------------------------------
(* Admission.                                                              *)

(* The threads holding an admission, by the call they are about to make.   *)
OwnPc == {"insert", "launch", "start", "endCanceled", "markRunning", "execute",
          "finish", "finishSlot", "logPanic", "unregister", "release"}
RunPc == {"markRunning", "execute", "finish", "finishSlot"}

Holds(t, h) ==
    \/ thread[t].pc \in OwnPc /\ thread[t].hook = h
    \/ thread[t].pc = "launchChild" /\ rows[thread[t].child].hook = h

(* A hook in flight is held by exactly one thread and a hook that is not,  *)
(* by none: no refusal, failed insert, cancellation or panic leaks an      *)
(* admission, and no admission is given back while its run goes on.        *)
SingleFlight ==
    /\ \A h \in inFlight : \E t \in Thread : Holds(t, h)
    /\ \A t \in Thread, h \in Hook : Holds(t, h) => h \in inFlight
    /\ \A t, u \in Thread, h \in Hook : Holds(t, h) /\ Holds(u, h) => t = u
    /\ Cardinality(inFlight) <= Capacity

(* Every path through a worker, a panic included, gives back exactly the   *)
(* slot it took, so that at most MaxConcurrent commands run at once.       *)
SlotAccounting == slots = Cardinality({w \in ExecId : thread[w].pc \in RunPc})

(* WaitIdle returns only when nothing is admitted and no worker is left,   *)
(* not even one between releasing its admission and starting a successor   *)
(* (comment at runner.go:130).                                             *)
IdleMeansDrained ==
    wg = Cardinality(inFlight) + Cardinality({w \in ExecId : thread[w].pc # "idle"})

(* The execution a 409 tells the caller to poll is the one holding the     *)
(* hook, and there is none to name only until it is launched.              *)
BusyNamesHolder ==
    \A h \in inFlight :
        IF slotExec[h] # 0
        THEN Holds(slotExec[h], h)
        ELSE \E t \in Thread :
                 Holds(t, h) /\ thread[t].pc \in {"insert", "launch", "launchChild"}

-----------------------------------------------------------------------------
(* Execution rows.                                                         *)

(* The threads that still have to bring row e to its end.                  *)
Carries(t, e) ==
    \/ thread[t].exec = e /\ thread[t].pc \in {"launch", "runSync", "finishSync", "start",
            "endCanceled", "markRunning", "execute", "finish"}
    \/ thread[t].exec = e /\ thread[t].pc \in {"finishSlot", "logPanic"}
                          /\ thread[t].result = "panic"
    \/ thread[t].child = e /\ thread[t].pc = "launchChild"

(* A row that has ended is never carried by anyone, so nothing runs behind *)
(* a finished status; and unless a write failed, a row shown as queued or  *)
(* running is carried by exactly one thread, also after a restart: no      *)
(* spinner is left turning (comment at execution.go:203).  A launched one  *)
(* stays within reach of a cancel, or was cancelled, until its command has *)
(* ended, and nothing stays in the registry that no worker will take out.  *)
LiveRowIsCarried ==
    \A e \in ExecId :
        /\ \A t \in Thread : Carries(t, e) => rows[e].status \in Live
        /\ \A t, u \in Thread : Carries(t, e) /\ Carries(u, e) => t = u
        /\ up /\ faults = 0 /\ rows[e].status \in Live => \E t \in Thread : Carries(t, e)
        /\ thread[e].pc \in {"start", "markRunning", "execute"} =>
               e \in registered \cup canceled
        /\ e \in registered => thread[e].pc \in RunPc \cup {"start", "logPanic", "unregister"}

(* Once an execution has ended, no late write by its worker, no retry, no  *)
(* cancel and no restart gives it another status.                          *)
FinishedIsFinal ==
    [][\A e \in ExecId :
           rows[e].status \in Finished => rows'[e].status = rows[e].status]_vars

-----------------------------------------------------------------------------
(* The handoff.                                                            *)

Children(p) == {e \in ExecId : rows[e].parent = p}

(* The threads that will dispatch p or record why they could not.          *)
HandsOff(t, p) ==
    /\ thread[t].exec = p
    /\ thread[t].pc \in {"finishSlot", "unregister", "release", "dispatch", "recordFailure"}

(* A pending handoff has exactly one thread behind it: two could start the *)
(* successor twice, none would leave it pending, which no retry accepts.   *)
PendingIsOwned ==
    \A p \in ExecId :
        Pending(p) =>
            /\ \A t, u \in Thread : HandsOff(t, p) /\ HandsOff(u, p) => t = u
            /\ up /\ faults = 0 => \E t \in Thread : HandsOff(t, p)

(* However often an operator retries, at most one successor of an          *)
(* execution is alive or has succeeded.                                    *)
OneSuccessor ==
    \A p \in ExecId : \A c, d \in Children(p) :
        rows[c].status \notin EndedBadly /\ rows[d].status \notin EndedBadly => c = d

(* Every attempt starts at most one successor, and a pending one has not   *)
(* started its own yet; a retry repeated with the same attempt number is   *)
(* never accepted twice (comment at success_chain.go:161).                 *)
OneChildPerAttempt ==
    \A p \in ExecId :
        /\ Cardinality(Children(p)) + (IF Pending(p) THEN 1 ELSE 0) <= rows[p].attempt
        /\ \A a \in 1..MaxAttempt : accepted[p][a] <= 1

(* Only a success is ever handed off, and it stays a success.              *)
OnlySuccessHandsOff ==
    \A e \in ExecId :
        /\ rows[e].handoff # "none" => rows[e].status = "success"
        /\ rows[e].parent # 0 => rows[rows[e].parent].status = "success"

(* One attempt, one successor, and only after a success.                   *)
SuccessorsSound == OneSuccessor /\ OneChildPerAttempt /\ OnlySuccessHandsOff

(* The executions before e in its chain: those in every set that holds the *)
(* parent of e and the parents of its own members.                         *)
Ancestors(e) ==
    {p \in ExecId :
        \A S \in SUBSET ExecId :
            (\A q \in S \cup {e} : rows[q].parent \in S \cup {0}) => p \in S}

(* No hook runs twice in one chain, whatever the configuration was edited  *)
(* to between two links: the snapshot decides the next link, the hooks     *)
(* table the one after, and only chain_path remembers the ones before.     *)
ChainNeverRepeats ==
    \A e \in ExecId : \A p \in Ancestors(e) : rows[p].hook # rows[e].hook

-----------------------------------------------------------------------------
(* The abstract handoff, read off the executions table.                    *)
LastSuccessor(p) ==
    LET c == rows[p].child
    IN  IF c = 0 THEN "none"
        ELSE IF rows[c].status \in Live THEN "open"
        ELSE IF rows[c].status = "success" THEN "good" ELSE "bad"

H == INSTANCE Handoff WITH
         Execution <- ExecId,
         handoff <- [p \in ExecId |->
                        [state |-> rows[p].handoff, attempt |-> rows[p].attempt,
                         starts |-> Cardinality(Children(p)), last |-> LastSuccessor(p)]]

(* The tables, threads and locks implement the abstract handoff: no step   *)
(* of any of them starts, fails or reclaims a handoff out of turn.         *)
RefinesHandoff == H!HandoffSpec

-----------------------------------------------------------------------------
(* Liveness.  A thread that can move keeps moving and a restarted process  *)
(* comes up: WF.  A command is sure to end when it is killed, and nothing  *)
(* else is: without a time limit one may hold its slot for ever.           *)
(* Arrivals, edits, cancels, crashes and faults are never forced.          *)
Progress ==
    /\ \A r \in Req : WF_vars(ReqStep(r))
    /\ \A w \in ExecId : WF_vars(WorkerStep(w))
    /\ WF_vars(Restart)
KillsEnd == \A w \in ExecId : WF_vars(Execute(w, "canceled"))

FairSpec == Spec /\ Progress /\ KillsEnd

(* An accepted cancellation ends its execution, whether it was running or  *)
(* waiting for a slot it would never have got.                             *)
CancelEnds == \A e \in ExecId : e \in canceled ~> rows[e].status \in Finished

(* What more is needed for the rest: every command ends, by itself or at   *)
(* its time limit, and a goroutine blocked on the channel of running slots *)
(* is served in its turn (Go queues blocked senders first in, first out).  *)
CommandsEnd == \A w \in ExecId : WF_vars(\E s \in Outcome : Execute(w, s))
Serving == \A w \in ExecId : SF_vars(Acquire(w))

(* Every execution that was recorded then ends, through a crash if need    *)
(* be: a queued row is not forgotten behind a full runner.                 *)
ExecutionEnds ==
    CommandsEnd /\ Serving =>
        \A e \in ExecId : rows[e].status \in Live ~> rows[e].status \in Finished

(* A pending handoff is dispatched, refused or interrupted in the end,     *)
(* whatever commands do: no retry accepts one that is stuck.               *)
HandoffResolves == \A p \in ExecId : rows[p].handoff = "pending" ~> rows[p].handoff # "pending"

=============================================================================

----------------------------- MODULE Executions -----------------------------
(***************************************************************************)
(* Triggering hooks and handing a success on to the next hook: the         *)
(* handlers of webhook.go, success_chain.go and execution.go over the      *)
(* hooks table, the executions table, the Runner and the cancel registry.  *)
(*                                                                         *)
(* Two kinds of thread run side by side.  A request (Req) is a goroutine   *)
(* of the HTTP server: it triggers a hook or retries a handoff.  A worker, *)
(* named by the execution it carries, is the goroutine launchHook starts.  *)
(* A thread advances one shared-memory or database operation at a time;    *)
(* its pc names the operation it is about to make.                         *)
(***************************************************************************)
EXTENDS HookConfig, ExecutionTable, Runner

CONSTANTS
    Req,         \* request threads
    Secured,     \* hooks with a trigger token or an HMAC secret
    MaxAttempt,  \* bound: attempts of one handoff
    MaxCrashes,  \* bound: crashes of the process
    MaxFaults    \* bound: failed writes and panics

VARIABLES
    thread,    \* thread -> its local state
    accepted,  \* history: how often each attempt of a handoff was claimed
    up,        \* whether the process is running
    crashes, faults  \* how much of the bounds is used

vars == <<hooks, edits, rows, nextId, inFlight, slotExec, slots, wg, registered,
          canceled, thread, accepted, up, crashes, faults>>
process == <<inFlight, slotExec, slots, wg, registered, canceled>>
outside == <<up, crashes>>

Thread == Req \cup ExecId

ReqPc == {"idle", "admit", "insert", "launch", "insertSync", "runSync", "finishSync",
          "dispatch", "recordFailure", "launchChild"}
WorkerPc == {"idle", "start", "endCanceled", "markRunning", "execute", "finish",
             "finishSlot", "logPanic", "unregister", "release", "dispatch",
             "recordFailure", "launchChild", "handoffDone"}
Outcome == {"success", "failed", "canceled", "panic"}

Local == [pc : ReqPc \cup WorkerPc,
          hook : Hook \cup {NoHook},    \* the hook this thread triggers or runs
          succ : Hook \cup {NoHook},    \* its success_hook_id as loaded
          exec : {0} \cup ExecId,       \* the execution this thread works on
          child : {0} \cup ExecId,      \* the successor it is launching
          result : {"none"} \cup Outcome]

Idle == [pc |-> "idle", hook |-> NoHook, succ |-> NoHook, exec |-> 0, child |-> 0,
         result |-> "none"]
Worker(h, e) == [Idle EXCEPT !.pc = "start", !.hook = h, !.exec = e]

ASSUME ThreadAssumption == Req \cap ExecId = {}
ASSUME BoundAssumption ==
    /\ MaxAttempt \in Nat \ {0}
    /\ MaxCrashes \in Nat /\ MaxFaults \in Nat
ASSUME SecuredAssumption == Secured \subseteq Hook

TypeOK ==
    /\ ConfigTypeOK /\ TableTypeOK /\ RunnerTypeOK
    /\ thread \in [Thread -> Local]
    /\ accepted \in [ExecId -> [1..MaxAttempt -> Nat]]
    /\ up \in BOOLEAN
    /\ crashes \in Nat /\ faults \in Nat

Init ==
    /\ ConfigInit /\ TableInit /\ RunnerInit
    /\ thread = [t \in Thread |-> Idle]
    /\ accepted = [e \in ExecId |-> [a \in 1..MaxAttempt |-> 0]]
    /\ up = TRUE
    /\ crashes = 0 /\ faults = 0

-----------------------------------------------------------------------------
At(t, pc) == up /\ thread[t].pc = pc
Goto(t, pc) == thread' = [thread EXCEPT ![t].pc = pc]

(* A request ends with its answer; a worker still owes its handoffDone.    *)
After(t) == IF t \in Req THEN Idle ELSE [Idle EXCEPT !.pc = "handoffDone"]
Done(t) == thread' = [thread EXCEPT ![t] = After(t)]

(* A write that fails, or a panic, out of a bounded number of them.        *)
Fault == faults < MaxFaults /\ faults' = faults + 1
(* An insert also fails when the database is full.                         *)
InsertError == IF HasRoom THEN Fault ELSE UNCHANGED faults

NoFault == UNCHANGED <<faults, configVars, outside>>
Quiet == UNCHANGED <<configVars, outside>>

-----------------------------------------------------------------------------
(* Trigger: load the hook.  What was loaded is used from here on, whatever *)
(* becomes of the hook's configuration meanwhile.                          *)
Load(r, h) ==
    /\ At(r, "idle")
    /\ hooks[h].present
    /\ thread' = [thread EXCEPT ![r] =
           [Idle EXCEPT !.pc = IF hooks[h].async THEN "admit" ELSE "insertSync",
                        !.hook = h, !.succ = hooks[h].succ]]
    /\ UNCHANGED <<tableVars, process, accepted>> /\ NoFault

(* A caller failing the hook's token or signature check leaves a failed    *)
(* row behind and nothing else.                                            *)
RejectAuth(r, h) ==
    /\ At(r, "idle")
    /\ hooks[h].present /\ h \in Secured
    /\ Insert(NewRow(h, "failed", 0, {}, NoHook))
    /\ UNCHANGED <<thread, process, accepted>> /\ NoFault

AdmitAsync(r) ==
    /\ At(r, "admit")
    /\ Admit(thread[r].hook)
    /\ Goto(r, "insert")
    /\ UNCHANGED <<tableVars, slots, registry, accepted>> /\ NoFault

(* 409 or 429: nothing was recorded.                                       *)
RefuseAsync(r) ==
    /\ At(r, "admit")
    /\ ~CanAdmit(thread[r].hook)
    /\ Done(r)
    /\ UNCHANGED <<tableVars, process, accepted>> /\ NoFault

StartRow(r, status) ==
    Insert(NewRow(thread[r].hook, status, 0, {thread[r].hook}, thread[r].succ))

InsertQueued(r) ==
    /\ At(r, "insert")
    /\ StartRow(r, "queued")
    /\ thread' = [thread EXCEPT ![r].pc = "launch", ![r].exec = nextId]
    /\ UNCHANGED <<process, accepted>> /\ NoFault

(* Mutant: the admission is not handed back.                               *)
InsertQueuedLeaks(r) ==
    /\ At(r, "insert")
    /\ InsertError
    /\ Done(r)
    /\ UNCHANGED <<tableVars, process, accepted>> /\ Quiet

InsertQueuedFails(r) ==
    /\ At(r, "insert")
    /\ InsertError
    /\ Release(thread[r].hook)
    /\ Done(r)
    /\ UNCHANGED <<tableVars, slots, registry, accepted>> /\ Quiet

(* launchHook: from here on the worker owns the admission.                 *)
LaunchHook(t, h, e) ==
    /\ SetExecution(h, e)
    /\ Register(e)
    /\ TrackHandoff
    /\ thread' = [thread EXCEPT ![t] = After(t), ![e] = Worker(h, e)]
    /\ UNCHANGED <<tableVars, inFlight, slots, accepted>> /\ NoFault

Launch(r) ==
    /\ At(r, "launch")
    /\ LaunchHook(r, thread[r].hook, thread[r].exec)

-----------------------------------------------------------------------------
(* The synchronous path runs the command on the request's own goroutine:   *)
(* no admission, no slot, no way to cancel it.                             *)
InsertRunning(r) ==
    /\ At(r, "insertSync")
    /\ StartRow(r, "running")
    /\ thread' = [thread EXCEPT ![r].pc = "runSync", ![r].exec = nextId]
    /\ UNCHANGED <<process, accepted>> /\ NoFault

InsertRunningFails(r) ==
    /\ At(r, "insertSync")
    /\ InsertError
    /\ Done(r)
    /\ UNCHANGED <<tableVars, process, accepted>> /\ Quiet

RunSync(r, s) ==
    /\ At(r, "runSync")
    /\ s \in {"success", "failed"}
    /\ thread' = [thread EXCEPT ![r].pc = "finishSync", ![r].result = s]
    /\ UNCHANGED <<tableVars, process, accepted>> /\ NoFault

(* gin's recovery middleware answers 500; the row stays running.           *)
RunSyncPanics(r) ==
    /\ At(r, "runSync")
    /\ Fault
    /\ Done(r)
    /\ UNCHANGED <<tableVars, process, accepted>> /\ Quiet

FinishSync(r) ==
    /\ At(r, "finishSync")
    /\ \/ FinishRow(thread[r].exec, thread[r].result) /\ UNCHANGED faults
       \/ Fault /\ UNCHANGED tableVars
    /\ Goto(r, "dispatch")
    /\ UNCHANGED <<process, accepted>> /\ Quiet

-----------------------------------------------------------------------------
(* The worker: wait for a running slot or for the cancel channel.          *)
Acquire(w) ==
    /\ At(w, "start")
    /\ Start
    /\ Goto(w, "markRunning")
    /\ UNCHANGED <<tableVars, admission, registry, accepted>> /\ NoFault

Abandon(w) ==
    /\ At(w, "start")
    /\ GiveUp(w)
    /\ Goto(w, "endCanceled")
    /\ UNCHANGED <<tableVars, admission, registry, accepted>> /\ NoFault

(* Mutant: the final status is not written.                                *)
EndCanceledSilently(w) ==
    /\ At(w, "endCanceled")
    /\ Goto(w, "unregister")
    /\ UNCHANGED <<tableVars, process, accepted>> /\ NoFault

EndCanceled(w) ==
    /\ At(w, "endCanceled")
    /\ \/ LogEnd(w, "canceled") /\ UNCHANGED faults
       \/ Fault /\ UNCHANGED tableVars
    /\ Goto(w, "unregister")
    /\ UNCHANGED <<process, accepted>> /\ Quiet

BeginRun(w) ==
    /\ At(w, "markRunning")
    /\ \/ MarkRunning(w) /\ UNCHANGED faults
       \/ Fault /\ UNCHANGED tableVars
    /\ Goto(w, "execute")
    /\ UNCHANGED <<process, accepted>> /\ Quiet

(* The executor reports canceled only for a closed channel, and asks again *)
(* before it reports a success; the time budget or a failed start reports  *)
(* failed either way.                                                      *)
Execute(w, s) ==
    /\ At(w, "execute")
    /\ \/ s = "success" /\ w \notin canceled
       \/ s = "canceled" /\ w \in canceled
       \/ s = "failed"
    /\ thread' = [thread EXCEPT ![w].pc = "finish", ![w].result = s]
    /\ UNCHANGED <<tableVars, process, accepted>> /\ NoFault

(* Mutant: Finish is not deferred, a panic skips it.                       *)
ExecutePanicsAway(w) ==
    /\ At(w, "execute")
    /\ Fault
    /\ thread' = [thread EXCEPT ![w].pc = "logPanic", ![w].result = "panic"]
    /\ UNCHANGED <<tableVars, process, accepted>> /\ Quiet

(* The deferred Finish runs before the deferred recover writes the row.    *)
ExecutePanics(w) ==
    /\ At(w, "execute")
    /\ Fault
    /\ thread' = [thread EXCEPT ![w].pc = "finishSlot", ![w].result = "panic"]
    /\ UNCHANGED <<tableVars, process, accepted>> /\ Quiet

FinishRun(w) ==
    /\ At(w, "finish")
    /\ \/ FinishRow(w, thread[w].result) /\ UNCHANGED faults
       \/ Fault /\ UNCHANGED tableVars
    /\ Goto(w, "finishSlot")
    /\ UNCHANGED <<process, accepted>> /\ Quiet

ReturnSlot(w) ==
    /\ At(w, "finishSlot")
    /\ Finish
    /\ Goto(w, IF thread[w].result = "panic" THEN "logPanic" ELSE "unregister")
    /\ UNCHANGED <<tableVars, admission, registry, accepted>> /\ NoFault

LogPanic(w) ==
    /\ At(w, "logPanic")
    /\ \/ LogEnd(w, "failed") /\ UNCHANGED faults
       \/ Fault /\ UNCHANGED tableVars
    /\ Goto(w, "unregister")
    /\ UNCHANGED <<process, accepted>> /\ Quiet

DropCancel(w) ==
    /\ At(w, "unregister")
    /\ Unregister(w)
    /\ Goto(w, "release")
    /\ UNCHANGED <<tableVars, admission, slots, accepted>> /\ NoFault

ReleaseAdmission(w) ==
    /\ At(w, "release")
    /\ Release(thread[w].hook)
    /\ thread' = [thread EXCEPT ![w] = [Idle EXCEPT !.pc = "dispatch", !.exec = w]]
    /\ UNCHANGED <<tableVars, slots, registry, accepted>> /\ NoFault

EndHandoff(w) ==
    /\ At(w, "handoffDone")
    /\ HandoffDone
    /\ thread' = [thread EXCEPT ![w] = Idle]
    /\ UNCHANGED <<tableVars, inFlight, slotExec, slots, registry, accepted>> /\ NoFault

-----------------------------------------------------------------------------
(* dispatchSuccess, on the thread that finished or claimed the parent.     *)
(* The transaction is one step: it holds the only connection from its read *)
(* to its commit, and Admit is the one thing it does besides.              *)
Parent(t) == thread[t].exec

DispatchNothing(t) ==
    /\ At(t, "dispatch")
    /\ ~Pending(Parent(t))
    /\ Done(t)
    /\ UNCHANGED <<tableVars, process, accepted>> /\ NoFault

(* Mutant: the chain so far is not looked at.                              *)
CanDispatchAgain(p) ==
    LET h == rows[p].target
    IN  hooks[h].present /\ CanAdmit(h)

CanDispatch(p) ==
    LET h == rows[p].target
    IN  hooks[h].present /\ h \notin rows[p].path /\ CanAdmit(h)

DispatchCommit(t) ==
    LET p == Parent(t)
        h == rows[p].target
    IN  /\ At(t, "dispatch")
        /\ Pending(p) /\ CanDispatch(p)
        /\ Admit(h)
        /\ InsertSuccessor(p, hooks[h].succ)
        /\ thread' = [thread EXCEPT ![t].pc = "launchChild", ![t].child = nextId]
        /\ UNCHANGED <<slots, registry, accepted>> /\ NoFault

(* Mutant: a refusal is not recorded.                                      *)
DispatchRefusedSilently(t) ==
    /\ At(t, "dispatch")
    /\ Pending(Parent(t)) /\ ~CanDispatch(Parent(t))
    /\ Done(t)
    /\ UNCHANGED <<tableVars, process, accepted>> /\ NoFault

(* A target that is gone, already in the chain or refused by the runner.   *)
DispatchRefused(t) ==
    /\ At(t, "dispatch")
    /\ Pending(Parent(t)) /\ ~CanDispatch(Parent(t))
    /\ Goto(t, "recordFailure")
    /\ UNCHANGED <<tableVars, process, accepted>> /\ NoFault

(* The insert fails: the slot just admitted is released and the            *)
(* transaction rolled back, which leaves only the error to record.         *)
DispatchFails(t) ==
    /\ At(t, "dispatch")
    /\ Pending(Parent(t)) /\ CanDispatch(Parent(t))
    /\ InsertError
    /\ Goto(t, "recordFailure")
    /\ UNCHANGED <<tableVars, process, accepted>> /\ Quiet

RecordFailure(t) ==
    /\ At(t, "recordFailure")
    /\ \/ FailHandoff(Parent(t)) /\ UNCHANGED faults
       \/ Fault /\ UNCHANGED tableVars
    /\ Done(t)
    /\ UNCHANGED <<process, accepted>> /\ Quiet

LaunchChild(t) ==
    /\ At(t, "launchChild")
    /\ LaunchHook(t, rows[thread[t].child].hook, thread[t].child)

(* RetrySuccessor: an operator retries attempt a of p, as some earlier     *)
(* view of p showed it.                                                    *)
RetrySuccessor(r, p, a) ==
    /\ At(r, "idle")
    /\ Retryable(p) /\ rows[p].attempt = a /\ a < MaxAttempt
    /\ Claim(p)
    /\ accepted' = [accepted EXCEPT ![p][a] = @ + 1]
    /\ thread' = [thread EXCEPT ![r] = [Idle EXCEPT !.pc = "dispatch", !.exec = p]]
    /\ UNCHANGED process /\ NoFault

(* POST /api/executions/:id/cancel for an execution the registry holds.    *)
Cancel(e) ==
    /\ up
    /\ CancelEntry(e)
    /\ UNCHANGED <<tableVars, admission, slots, thread, accepted>> /\ NoFault

EditHooks ==
    /\ up
    /\ ConfigNext
    /\ UNCHANGED <<tableVars, process, thread, accepted, outside, faults>>

-----------------------------------------------------------------------------
(* The process dies: goroutines and everything in memory go with it.       *)
Crash ==
    /\ up /\ crashes < MaxCrashes
    /\ up' = FALSE /\ crashes' = crashes + 1
    /\ Reset
    /\ thread' = [t \in Thread |-> Idle]
    /\ UNCHANGED <<tableVars, configVars, accepted, faults>>

(* Startup sweeps before it serves; a sweep that fails is only logged.     *)
Restart ==
    /\ ~up /\ up' = TRUE
    /\ \/ Sweep /\ UNCHANGED faults
       \/ Fault /\ UNCHANGED tableVars
    /\ UNCHANGED <<configVars, process, thread, accepted, crashes>>

-----------------------------------------------------------------------------
Dispatch(t) ==
    \/ DispatchNothing(t) \/ DispatchCommit(t) \/ DispatchRefused(t)
    \/ DispatchFails(t) \/ RecordFailure(t) \/ LaunchChild(t)

SyncStep(r) ==
    \/ InsertRunning(r) \/ InsertRunningFails(r)
    \/ (\E s \in Outcome : RunSync(r, s)) \/ RunSyncPanics(r)
    \/ FinishSync(r)

AsyncStep(r) ==
    AdmitAsync(r) \/ RefuseAsync(r) \/ InsertQueued(r) \/ InsertQueuedFails(r) \/ Launch(r)

(* Everything a request does once it has begun.                            *)
ReqStep(r) == SyncStep(r) \/ AsyncStep(r) \/ Dispatch(r)

Arrive(r) ==
    \/ \E h \in Hook : Load(r, h) \/ RejectAuth(r, h)
    \/ \E p \in ExecId, a \in 1..MaxAttempt : RetrySuccessor(r, p, a)

(* Everything a worker does but waiting for a slot and running a command.  *)
WorkerStep(w) ==
    \/ Abandon(w) \/ EndCanceled(w) \/ BeginRun(w) \/ FinishRun(w)
    \/ ReturnSlot(w) \/ LogPanic(w) \/ DropCancel(w) \/ ReleaseAdmission(w)
    \/ Dispatch(w) \/ EndHandoff(w)

Next ==
    \/ \E r \in Req : Arrive(r) \/ ReqStep(r)
    \/ \E w \in ExecId :
           \/ Acquire(w) \/ WorkerStep(w) \/ Cancel(w)
           \/ (\E s \in Outcome : Execute(w, s)) \/ ExecutePanics(w)
    \/ EditHooks \/ Crash \/ Restart

Spec == Init /\ [][Next]_vars
=============================================================================

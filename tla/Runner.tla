------------------------------- MODULE Runner -------------------------------
(***************************************************************************)
(* The in-memory admission control of asynchronous executions              *)
(* (internal/handlers/runner.go) with the registry of abort switches       *)
(* (internal/handlers/cancel.go).                                          *)
(*                                                                         *)
(* Every operation runs under one short mutex section or is one channel    *)
(* operation, so each is one action here; Executions composes them.         *)
(***************************************************************************)
EXTENDS Ids

CONSTANTS
    MaxConcurrent,  \* running slots
    MaxQueued       \* admitted executions beyond the running slots

ASSUME CapacityAssumption == MaxConcurrent \in Nat \ {0} /\ MaxQueued \in Nat

VARIABLES
    inFlight,    \* the keys of the map hook id -> *Slot
    slotExec,    \* the execID of the Slot of each hook in flight, 0 until set
    slots,       \* how many running slots are taken
    wg,          \* the counter of the WaitGroup WaitIdle waits on
    registered,  \* executions with an entry in the cancel registry
    canceled     \* executions whose cancel channel is closed

admission == <<inFlight, slotExec, wg>>
registry == <<registered, canceled>>
runnerVars == <<inFlight, slotExec, slots, wg, registered, canceled>>

Capacity == MaxConcurrent + MaxQueued

RunnerTypeOK ==
    /\ inFlight \in SUBSET Hook
    /\ slotExec \in [Hook -> {0} \cup ExecId]
    /\ slots \in 0..MaxConcurrent
    /\ wg \in Int
    /\ registered \in SUBSET ExecId
    /\ canceled \in SUBSET ExecId

(* A process starts with nothing admitted, running or cancelable.          *)
RunnerInit ==
    /\ inFlight = {}
    /\ slotExec = [h \in Hook |-> 0]
    /\ slots = 0
    /\ wg = 0
    /\ registered = {}
    /\ canceled = {}

Reset ==
    /\ inFlight' = {}
    /\ slotExec' = [h \in Hook |-> 0]
    /\ slots' = 0
    /\ wg' = 0
    /\ registered' = {}
    /\ canceled' = {}

-----------------------------------------------------------------------------
(* Admission counts everything admitted, running or waiting.               *)
(* Mutant: only the capacity is looked at.                                 *)
CanAdmitTwice(h) == Cardinality(inFlight) < Capacity

CanAdmit(h) == h \notin inFlight /\ Cardinality(inFlight) < Capacity

Admit(h) ==
    /\ CanAdmit(h)
    /\ inFlight' = inFlight \cup {h}
    /\ slotExec' = [slotExec EXCEPT ![h] = 0]
    /\ wg' = wg + 1

Release(h) ==
    /\ inFlight' = inFlight \ {h}
    /\ slotExec' = [slotExec EXCEPT ![h] = 0]
    /\ wg' = wg - 1

(* Mutant: the slot never learns its execution.                            *)
SetExecutionSkipped(h, e) == UNCHANGED slotExec

SetExecution(h, e) == slotExec' = [slotExec EXCEPT ![h] = e]

(* Mutant: a worker is not counted past its release.                       *)
TrackHandoffSkipped == UNCHANGED wg

TrackHandoff == wg' = wg + 1
HandoffDone == wg' = wg - 1

(* Mutant: the channel of slots is as large as the capacity.               *)
StartBeyond == slots < Capacity + 1 /\ slots' = slots + 1

(* Start: taking a slot and giving up on a closed cancel channel are the   *)
(* two branches of one select, which picks either when both are ready.     *)
Start == slots < MaxConcurrent /\ slots' = slots + 1

(* Mutant: Start does not watch the cancel channel.                        *)
GiveUpNever(e) == e \in {} /\ UNCHANGED slots

GiveUp(e) == e \in canceled /\ UNCHANGED slots
Finish == slots > 0 /\ slots' = slots - 1

(* Unregister is the last use of the channel: nobody selects on it again.  *)
Register(e) == registered' = registered \cup {e} /\ UNCHANGED canceled
Unregister(e) == registered' = registered \ {e} /\ canceled' = canceled \ {e}

(* The entry goes away as the channel closes, so that no second request    *)
(* closes it again.                                                        *)
CancelEntry(e) ==
    /\ e \in registered
    /\ registered' = registered \ {e}
    /\ canceled' = canceled \cup {e}

=============================================================================

------------------------------ MODULE TestRuns ------------------------------
(***************************************************************************)
(* The registry of script test runs: ScriptHandler.StartTestRun and        *)
(* CancelTestRun (script.go) over TestRunRegistry (testrun.go).  A start   *)
(* that finds every slot taken cancels the oldest run and tries once more; *)
(* the cancelled run's goroutine gives its slot up only later.             *)
(***************************************************************************)
EXTENDS Integers, FiniteSets, FiniteSetsExt

CONSTANTS
    MaxConcurrentTestRuns,
    Req  \* clients that want a test run; each is given one at most

ASSUME TestRunAssumption ==
    /\ MaxConcurrentTestRuns \in Nat \ {0}
    /\ IsFiniteSet(Req)

VARIABLES
    runs,   \* run -> what the registry holds of it; runs start in this order
    req,    \* client -> the next step of its request
    victim  \* the run cancelOldestRunning has picked, under the registry's lock

runsVars == <<runs, req, victim>>

RunId == 1..Cardinality(Req)
NoRun == [state |-> "none", cancel |-> "no"]

RunsInit ==
    /\ runs = [r \in RunId |-> NoRun]
    /\ req = [c \in Req |-> "idle"]
    /\ victim = 0

-----------------------------------------------------------------------------
Running == {r \in RunId : runs[r].state = "running"}
Unused == {r \in RunId : runs[r].state = "none"}

(* Mutant: the cap is one too high.                                        *)
HasSlotMore == Cardinality(Running) <= MaxConcurrentTestRuns

HasSlot == Cardinality(Running) < MaxConcurrentTestRuns

StartRun(c) ==
    /\ HasSlot
    /\ runs' = [runs EXCEPT ![Min(Unused)].state = "running"]
    /\ req' = [req EXCEPT ![c] = "accepted"]
    /\ UNCHANGED victim

Goto(c, next) == req' = [req EXCEPT ![c] = next] /\ UNCHANGED <<runs, victim>>

(* A client that was refused may press the button again.                   *)
Press(c) ==
    /\ req[c] \in {"idle", "refused"}
    /\ Goto(c, "start")

StartFirst(c) ==
    /\ req[c] = "start" /\ victim = 0
    /\ StartRun(c) \/ (~HasSlot /\ Goto(c, "evict"))

(* Mutant: the oldest run is looked for among the finished ones too.       *)
OldestAny == Min(RunId \ Unused)

(* Mutant: the youngest run goes.                                          *)
Youngest == Max(Running)

OldestRunning == Min(Running)

(* requestCancel, and who asked first: the channel is closed once, and not *)
(* when the run is over.                                                   *)
RequestCancel(r, by) ==
    IF r \in Running /\ runs[r].cancel = "no" THEN [runs EXCEPT ![r].cancel = by] ELSE runs

(* cancelOldestRunning: a run may end after it was found running and       *)
(* before it is cancelled; with nothing to cancel the refusal stands.      *)
Evict(c) ==
    /\ req[c] = "evict" /\ victim = 0
    /\ IF Running = {}
       THEN Goto(c, "refused")
       ELSE /\ victim' = OldestRunning
            /\ req' = [req EXCEPT ![c] = "cancel"]
            /\ UNCHANGED runs

CancelVictim(c) ==
    /\ req[c] = "cancel"
    /\ runs' = RequestCancel(victim, "eviction")
    /\ req' = [req EXCEPT ![c] = "again"]
    /\ victim' = 0

StartAgain(c) ==
    /\ req[c] = "again" /\ victim = 0
    /\ StartRun(c) \/ (~HasSlot /\ Goto(c, "refused"))

(* CancelTestRun: of a run that is known and not finished.                 *)
CancelRun(r) ==
    /\ r \in Running
    /\ runs' = RequestCancel(r, "client")
    /\ UNCHANGED <<req, victim>>

(* The goroutine of a run records its outcome.                             *)
End(r) ==
    /\ r \in Running
    /\ runs' = [runs EXCEPT ![r].state = "finished"]
    /\ UNCHANGED <<req, victim>>

Expired(r) == runs[r].state = "finished"

(* The sweep, for a run whose retention is over.                           *)
SweepRun(r) ==
    /\ Expired(r) /\ victim = 0
    /\ runs' = [runs EXCEPT ![r].state = "swept"]
    /\ UNCHANGED <<req, victim>>

Handle(c) == StartFirst(c) \/ Evict(c) \/ CancelVictim(c) \/ StartAgain(c)

RunsNext ==
    \/ \E c \in Req : Press(c) \/ Handle(c)
    \/ \E r \in RunId : CancelRun(r) \/ End(r) \/ SweepRun(r)

RunsSpec == RunsInit /\ [][RunsNext]_runsVars

-----------------------------------------------------------------------------
(* The run that is evicted has had the most time to be watched             *)
(* (testrun.go:224): however evictions race each other, the end of runs    *)
(* and cancels by clients, whatever is older than it is over.              *)
OldestGoesFirst ==
    \A young \in Running, old \in RunId :
        runs[young].cancel = "eviction" /\ old < young => old \notin Running

-----------------------------------------------------------------------------
(* The button is never dead (script.go:204): a client that keeps pressing  *)
(* it gets its run, though nobody watches the scripts that hold the slots  *)
(* and they never end by themselves.  Handlers return and a cancelled      *)
(* script ends, no more is assumed.                                        *)
EventuallyAdmitted == \A c \in Req : req[c] = "start" ~> req[c] = "accepted"
=============================================================================

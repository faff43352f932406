----------------------------- MODULE Retention -----------------------------
(***************************************************************************)
(* The retention policy and the goroutines that sweep by it: the request   *)
(* that saves a policy (settings.go), RetentionController and              *)
(* StartRetentionSweep (retention.go).  Every Apply starts a new sweeper   *)
(* and closes the stop channel of the last one, which may be anywhere in   *)
(* its loop.  What a pass deletes is the module History.                   *)
(***************************************************************************)
EXTENDS Integers

CONSTANTS
    Req,        \* requests that set a policy
    NoReq,      \* none of them
    Days,       \* the retention windows they may set
    MaxSweeps,  \* bound: sweepers that are ever started
    MaxFaults   \* bound: failed statements and crashes

ASSUME RetentionAssumption ==
    /\ NoReq \notin Req /\ Days \subseteq Nat \ {0}
    /\ MaxSweeps \in Nat /\ MaxFaults \in Nat

VARIABLES
    stored,   \* the policy in the settings table: the window, 0 when disabled
    holder,   \* the request that holds retentionMu, or NoReq
    req,      \* request -> its next step, and the policy it sets
    stop,     \* RetentionController.stop: the sweeper it stops, 0 for none
    sweeper,  \* sweeper -> its goroutine
    up,       \* whether the process is up
    applied,  \* history: the policy of the settings table was applied in this process
    faults

vars == <<stored, holder, req, stop, sweeper, up, applied, faults>>

Policy == {0} \cup Days
Sweeper == 1..MaxSweeps
Goroutine == [at : {"none", "begin", "pass", "wait", "gone"},
              days : Policy, timer : BOOLEAN, stopped : BOOLEAN]
NoSweeper == [at |-> "none", days |-> 0, timer |-> FALSE, stopped |-> FALSE]

TypeOK ==
    /\ stored \in Policy /\ holder \in Req \cup {NoReq}
    /\ req \in [Req -> [at : {"idle", "save", "apply"}, policy : Policy]]
    /\ stop \in {0} \cup Sweeper
    /\ sweeper \in [Sweeper -> Goroutine]
    /\ faults \in 0..MaxFaults
    /\ up \in BOOLEAN /\ applied \in BOOLEAN
    /\ {r \in Req : req[r].at = "apply"} = {holder} \ {NoReq}

Init ==
    /\ stored = 0 /\ holder = NoReq /\ stop = 0
    /\ req = [r \in Req |-> [at |-> "idle", policy |-> 0]]
    /\ sweeper = [i \in Sweeper |-> NoSweeper]
    /\ up = TRUE /\ applied = TRUE /\ faults = 0

Fault == faults < MaxFaults /\ faults' = faults + 1
Going(i) == sweeper[i].at \in {"begin", "pass", "wait"}
Unused == {i \in Sweeper : sweeper[i].at = "none"}
NextSweeper == CHOOSE i \in Unused : TRUE

-----------------------------------------------------------------------------
(* RetentionController.Apply, under its own mutex.  A disabled policy      *)
(* starts no goroutine and leaves a stop function that does nothing.       *)
Stopped == IF stop = 0 THEN sweeper ELSE [sweeper EXCEPT ![stop].stopped = TRUE]

Apply(days) ==
    IF days = 0
    THEN stop' = 0 /\ sweeper' = Stopped
    ELSE /\ Unused # {} /\ stop' = NextSweeper
         /\ sweeper' = [Stopped EXCEPT ![NextSweeper] =
                            [NoSweeper EXCEPT !.at = "begin", !.days = days]]

-----------------------------------------------------------------------------
(* UpdateRetention: save and apply under retentionMu.                      *)
Ask(r, policy) ==
    /\ up /\ req[r].at = "idle"
    /\ req' = [req EXCEPT ![r] = [at |-> "save", policy |-> policy]]
    /\ UNCHANGED <<stored, holder, stop, sweeper, up, applied, faults>>

(* Mutant: what was saved is applied by whoever comes first.               *)
SaveUnlocked(r) ==
    /\ up /\ req[r].at = "save"
    /\ stored' = req[r].policy /\ req' = [req EXCEPT ![r].at = "apply"]
    /\ UNCHANGED <<holder, stop, sweeper, up, applied, faults>>

Save(r) ==
    /\ up /\ req[r].at = "save" /\ holder = NoReq
    /\ \/ /\ stored' = req[r].policy /\ holder' = r
          /\ req' = [req EXCEPT ![r].at = "apply"] /\ UNCHANGED faults
       \/ /\ Fault /\ req' = [req EXCEPT ![r].at = "idle"]
          /\ UNCHANGED <<stored, holder>>
    /\ UNCHANGED <<stop, sweeper, up, applied>>

ApplySaved(r) ==
    /\ up /\ req[r].at = "apply"
    /\ Apply(req[r].policy)
    /\ holder' = NoReq /\ req' = [req EXCEPT ![r].at = "idle"]
    /\ applied' = TRUE
    /\ UNCHANGED <<stored, up, faults>>

-----------------------------------------------------------------------------
(* The goroutine of a sweeper: it sweeps once, whether or not it has been  *)
(* stopped meanwhile, and then whenever a day has gone by or until it      *)
(* sees that it is stopped; when both are so, the select takes either.     *)
At(i, here, next) ==
    /\ up /\ sweeper[i].at = here
    /\ sweeper' = [sweeper EXCEPT ![i].at = next, ![i].timer = FALSE]
    /\ UNCHANGED <<stored, holder, req, stop, up, applied, faults>>

ADayLater(i) ==
    /\ up /\ sweeper[i].at = "wait" /\ ~sweeper[i].timer
    /\ sweeper' = [sweeper EXCEPT ![i].timer = TRUE]
    /\ UNCHANGED <<stored, holder, req, stop, up, applied, faults>>

FirstPass(i) == At(i, "begin", "pass")

(* Mutant: a pass is followed by the next, and nobody looks at the stop.   *)
EndPassLoop(i) == At(i, "pass", "begin")

EndPass(i) == At(i, "pass", "wait")
DailyPass(i) == sweeper[i].timer /\ At(i, "wait", "pass")
SeeStop(i) == sweeper[i].stopped /\ At(i, "wait", "gone")

Crash ==
    /\ up /\ Fault /\ up' = FALSE
    /\ holder' = NoReq /\ stop' = 0 /\ applied' = FALSE
    /\ req' = [r \in Req |-> [at |-> "idle", policy |-> 0]]
    /\ sweeper' = [i \in Sweeper |->
                       IF Going(i) THEN [sweeper[i] EXCEPT !.at = "gone"] ELSE sweeper[i]]
    /\ UNCHANGED stored

(* ApplyStored; a policy that cannot be read is logged and not applied.    *)
Restart ==
    /\ ~up /\ up' = TRUE
    /\ \/ Apply(stored) /\ applied' = TRUE /\ UNCHANGED faults
       \/ Fault /\ UNCHANGED <<stop, sweeper, applied>>
    /\ UNCHANGED <<stored, holder, req>>

Step(i) == FirstPass(i) \/ EndPass(i) \/ DailyPass(i) \/ SeeStop(i)

Next ==
    \/ \E r \in Req : (\E p \in Policy : Ask(r, p)) \/ Save(r) \/ ApplySaved(r)
    \/ \E i \in Sweeper : Step(i) \/ ADayLater(i)
    \/ Crash \/ Restart

Spec == Init /\ [][Next]_vars

-----------------------------------------------------------------------------
(* Whatever policies are saved at once, and wherever the process died, at  *)
(* rest the only sweeper that was not stopped is the one the controller    *)
(* can stop, and it sweeps by the policy that is stored; there is none     *)
(* when cleanup is off.                                                    *)
PolicyInForce ==
    LET inCharge == {i \in Sweeper : Going(i) /\ ~sweeper[i].stopped}
    IN  up /\ applied /\ holder = NoReq =>
            /\ inCharge = {stop} \ {0}
            /\ {sweeper[i].days : i \in inCharge} = {stored} \ {0}

-----------------------------------------------------------------------------
(* Goroutines run, and a select that finds both its channels ready again   *)
(* and again does not take the timer every time.                           *)
FairSpec ==
    Spec /\ \A i \in Sweeper : WF_vars(Step(i)) /\ SF_vars(SeeStop(i))

(* A sweeper that was replaced ends: none is left behind to delete by an   *)
(* old policy for ever.                                                    *)
StoppedEnds == \A i \in Sweeper : sweeper[i].stopped ~> ~Going(i)
=============================================================================

--------------------------- MODULE RetentionProofs ---------------------------
(***************************************************************************)
(* One sweeper, by the stored policy, for any requests and policies, and   *)
(* however often the policy is saved.                                      *)
(*                                                                         *)
(* PolicyInForce speaks of rest only.  RetentionInv says what holds        *)
(* between a save and its application, and while the process is down: the  *)
(* sweeper that was not stopped is always the controller's (OneInCharge),  *)
(* and the request that holds the mutex is the one whose policy is stored. *)
(***************************************************************************)
EXTENDS Retention, TLAPS

OneInCharge ==
    \A i \in Sweeper : Going(i) /\ ~sweeper[i].stopped <=> i = stop

HolderSaved == holder # NoReq => req[holder].policy = stored

SweepsAsStored ==
    up /\ applied /\ holder = NoReq =>
        IF stop = 0 THEN stored = 0 ELSE stored # 0 /\ sweeper[stop].days = stored

(* While the process is down nothing is in charge of anything.             *)
DownAtRest == ~up => stop = 0 /\ holder = NoReq /\ ~applied

RetentionInv == TypeOK /\ OneInCharge /\ HolderSaved /\ SweepsAsStored /\ DownAtRest

-----------------------------------------------------------------------------
(* The next sweeper is one that was never started.                         *)
LEMMA NextIsUnused == Unused # {} => NextSweeper \in Unused
  BY DEF NextSweeper

LEMMA StoppedTyped ==
    ASSUME TypeOK
    PROVE  /\ Stopped \in [Sweeper -> Goroutine]
           /\ \A i \in Sweeper :
                  /\ Stopped[i].at = sweeper[i].at
                  /\ Stopped[i].stopped <=> sweeper[i].stopped \/ i = stop
  <1>1. sweeper \in [Sweeper -> Goroutine] /\ stop \in {0} \cup Sweeper
    BY DEF TypeOK
  <1>2. CASE stop = 0
    BY <1>1, <1>2, RetentionAssumption DEF Stopped, Sweeper
  <1>3. CASE stop # 0
    <2>1. Stopped = [sweeper EXCEPT ![stop] = [sweeper[stop] EXCEPT !.stopped = TRUE]]
      BY <1>3 DEF Stopped
    <2>2. /\ stop \in Sweeper /\ sweeper[stop] \in Goroutine
          /\ [sweeper[stop] EXCEPT !.stopped = TRUE] \in Goroutine
          /\ [sweeper[stop] EXCEPT !.stopped = TRUE].at = sweeper[stop].at
          /\ [sweeper[stop] EXCEPT !.stopped = TRUE].stopped = TRUE
      BY <1>1, <1>3 DEF Goroutine
    <2>. QED
      BY <1>1, <2>1, <2>2
  <1>. QED
    BY <1>2, <1>3

(* Apply puts exactly the new sweeper in charge, with the policy it got.   *)
LEMMA ApplyTakesOver ==
    ASSUME RetentionInv, NEW days \in Policy, Apply(days)
    PROVE  /\ stop' \in {0} \cup Sweeper
           /\ sweeper' \in [Sweeper -> Goroutine]
           /\ OneInCharge'
           /\ IF stop' = 0 THEN days = 0 ELSE days # 0 /\ sweeper'[stop'].days = days
  <1>. USE DEF RetentionInv
  <1>1. CASE days = 0
    <2>1. 0 \notin Sweeper
      BY RetentionAssumption DEF Sweeper
    <2>. QED
      BY <1>1, <2>1, StoppedTyped DEF Apply, OneInCharge, Going
  <1>2. CASE days # 0
    <2>. DEFINE new == NextSweeper
    <2>1. Unused # {} /\ stop' = new
      BY <1>2 DEF Apply
    <2>2. new \in Sweeper /\ new # 0 /\ sweeper[new].at = "none"
      BY <2>1, NextIsUnused, RetentionAssumption DEF Unused, Sweeper
    <2>. DEFINE started == [NoSweeper EXCEPT !.at = "begin", !.days = days]
    <2>3. sweeper' = [Stopped EXCEPT ![new] = started]
      BY <1>2 DEF Apply
    <2>4. /\ started \in Goroutine /\ started.days = days
          /\ started.at = "begin" /\ started.stopped = FALSE
      BY DEF NoSweeper, Goroutine, Policy
    <2>. HIDE DEF new, started
    <2>5. /\ sweeper'[new] = started
          /\ \A i \in Sweeper : i # new => sweeper'[i] = Stopped[i]
          /\ sweeper' \in [Sweeper -> Goroutine]
      BY <2>2, <2>3, <2>4, StoppedTyped
    <2>6. OneInCharge'
      BY <2>1, <2>2, <2>4, <2>5, StoppedTyped DEF OneInCharge, Going
    <2>. QED
      BY <1>2, <2>1, <2>2, <2>4, <2>5, <2>6
  <1>. QED
    BY <1>1, <1>2

-----------------------------------------------------------------------------
LEMMA RetentionInit == Init => RetentionInv
  <1>. SUFFICES ASSUME Init PROVE RetentionInv
    OBVIOUS
  <1>. USE RetentionAssumption DEF Init
  <1>1. TypeOK
    BY DEF TypeOK, NoSweeper, Goroutine, Policy
  <1>2. OneInCharge
    BY DEF OneInCharge, Going, NoSweeper, Sweeper
  <1>3. HolderSaved /\ SweepsAsStored /\ DownAtRest
    BY DEF HolderSaved, SweepsAsStored, DownAtRest
  <1>. QED
    BY <1>1, <1>2, <1>3 DEF RetentionInv

LEMMA RetentionAsk ==
    ASSUME RetentionInv, NEW r \in Req, NEW p \in Policy, Ask(r, p)
    PROVE  RetentionInv'
  <1>. USE DEF RetentionInv, Ask
  <1>1. TypeOK'
    BY DEF TypeOK, Unused
  <1>2. OneInCharge' /\ SweepsAsStored' /\ DownAtRest'
    BY DEF OneInCharge, Going, SweepsAsStored, DownAtRest
  <1>3. HolderSaved'
    BY DEF HolderSaved, TypeOK
  <1>. QED
    BY <1>1, <1>2, <1>3

LEMMA RetentionSave ==
    ASSUME RetentionInv, NEW r \in Req, Save(r)
    PROVE  RetentionInv'
  <1>. USE DEF RetentionInv, Save
  <1>1. req[r] \in [at : {"idle", "save", "apply"}, policy : Policy]
    BY DEF TypeOK
  <1>2. TypeOK'
    BY <1>1, RetentionAssumption DEF TypeOK, Fault
  <1>3. OneInCharge' /\ SweepsAsStored' /\ DownAtRest'
    BY RetentionAssumption DEF OneInCharge, Going, SweepsAsStored, DownAtRest
  <1>4. HolderSaved'
    BY <1>1 DEF HolderSaved, TypeOK
  <1>. QED
    BY <1>2, <1>3, <1>4

(* The request that applies is the one that saved last.                    *)
LEMMA RetentionApply ==
    ASSUME RetentionInv, NEW r \in Req, ApplySaved(r)
    PROVE  RetentionInv'
  <1>. USE DEF RetentionInv, ApplySaved
  <1>1. req[r] \in [at : {"idle", "save", "apply"}, policy : Policy]
    BY DEF TypeOK
  <1>2. holder = r /\ req[r].policy = stored
    BY RetentionAssumption DEF TypeOK, HolderSaved
  <1>3. /\ stop' \in {0} \cup Sweeper
        /\ sweeper' \in [Sweeper -> Goroutine]
        /\ OneInCharge'
        /\ IF stop' = 0 THEN stored = 0 ELSE stored # 0 /\ sweeper'[stop'].days = stored
    BY <1>1, <1>2, ApplyTakesOver
  <1>4. TypeOK'
    BY <1>1, <1>2, <1>3, RetentionAssumption DEF TypeOK
  <1>5. HolderSaved' /\ SweepsAsStored' /\ DownAtRest'
    BY <1>3 DEF HolderSaved, SweepsAsStored, DownAtRest
  <1>. QED
    BY <1>3, <1>4, <1>5

(* A goroutine moves, and ends only once it was stopped.                   *)
Moves(i, new) ==
    /\ sweeper' = [sweeper EXCEPT ![i] = new]
    /\ new \in Goroutine /\ new.days = sweeper[i].days /\ new.stopped = sweeper[i].stopped
    /\ sweeper[i].at \in {"begin", "pass", "wait"}
    /\ new.at \in {"begin", "pass", "wait"} \/ sweeper[i].stopped

LEMMA StepMoves ==
    ASSUME TypeOK, NEW i \in Sweeper, Step(i) \/ ADayLater(i)
    PROVE  \E new \in Goroutine : Moves(i, new)
  <1>1. sweeper[i] \in Goroutine /\ sweeper \in [Sweeper -> Goroutine]
    BY DEF TypeOK
  <1>2. ASSUME NEW here \in {"begin", "pass", "wait"}, NEW next \in {"pass", "wait", "gone"},
               At(i, here, next), next = "gone" => sweeper[i].stopped
        PROVE  \E new \in Goroutine : Moves(i, new)
    <2>. DEFINE new == [sweeper[i] EXCEPT !.at = next, !.timer = FALSE]
    <2>1. sweeper' = [sweeper EXCEPT ![i] = new]
      BY <1>2 DEF At
    <2>2. /\ new \in Goroutine /\ new.at = next
          /\ new.days = sweeper[i].days /\ new.stopped = sweeper[i].stopped
      BY <1>1 DEF Goroutine
    <2>. HIDE DEF new
    <2>3. Moves(i, new)
      BY <1>2, <2>1, <2>2 DEF Moves, At
    <2>. QED
      BY <2>2, <2>3
  <1>3. ASSUME ADayLater(i) PROVE \E new \in Goroutine : Moves(i, new)
    <2>. DEFINE new == [sweeper[i] EXCEPT !.timer = TRUE]
    <2>1. sweeper' = [sweeper EXCEPT ![i] = new]
      BY <1>3 DEF ADayLater
    <2>2. /\ new \in Goroutine /\ new.at = sweeper[i].at
          /\ new.days = sweeper[i].days /\ new.stopped = sweeper[i].stopped
      BY <1>1 DEF Goroutine
    <2>. HIDE DEF new
    <2>3. Moves(i, new)
      BY <1>3, <2>1, <2>2 DEF Moves, ADayLater
    <2>. QED
      BY <2>2, <2>3
  <1>. QED
    BY <1>2, <1>3 DEF Step, FirstPass, EndPass, DailyPass, SeeStop

LEMMA RetentionMove ==
    ASSUME RetentionInv, NEW i \in Sweeper, Step(i) \/ ADayLater(i)
    PROVE  RetentionInv'
  <1>. USE DEF RetentionInv
  <1>1. PICK new \in Goroutine : Moves(i, new)
    BY StepMoves
  <1>2. sweeper \in [Sweeper -> Goroutine]
    BY DEF TypeOK
  <1>3. /\ sweeper' \in [Sweeper -> Goroutine]
        /\ \A j \in Sweeper : /\ sweeper'[j].days = sweeper[j].days
                              /\ sweeper'[j].stopped = sweeper[j].stopped
                              /\ sweeper[j].stopped \/ (Going(j)' <=> Going(j))
    BY <1>1, <1>2 DEF Going, Moves
  <1>4. UNCHANGED <<stored, holder, req, stop, up, applied, faults>>
    BY DEF Step, FirstPass, EndPass, DailyPass, SeeStop, At, ADayLater
  <1>5. TypeOK'
    BY <1>3, <1>4 DEF TypeOK
  <1>6. OneInCharge'
    BY <1>3, <1>4 DEF OneInCharge
  <1>7. HolderSaved' /\ SweepsAsStored' /\ DownAtRest'
    BY <1>3, <1>4 DEF HolderSaved, SweepsAsStored, DownAtRest, TypeOK
  <1>. QED
    BY <1>5, <1>6, <1>7

LEMMA RetentionCrash ==
    ASSUME RetentionInv, Crash
    PROVE  RetentionInv'
  <1>. USE DEF RetentionInv, Crash
  <1>1. TypeOK'
    <2>1. ASSUME NEW i \in Sweeper PROVE [sweeper[i] EXCEPT !.at = "gone"] \in Goroutine
      BY <2>1 DEF TypeOK, Goroutine
    <2>2. sweeper' \in [Sweeper -> Goroutine]
      BY <2>1 DEF TypeOK
    <2>3. req' \in [Req -> [at : {"idle", "save", "apply"}, policy : Policy]]
      BY DEF Policy
    <2>4. {r \in Req : req'[r].at = "apply"} = {holder'} \ {NoReq}
      BY RetentionAssumption
    <2>5. /\ stored' \in Policy /\ holder' = NoReq /\ stop' = 0
          /\ up' = FALSE /\ applied' = FALSE
      BY DEF TypeOK
    <2>6. faults' \in 0..MaxFaults
      BY RetentionAssumption DEF TypeOK, Fault
    <2>. HIDE DEF RetentionInv, Crash
    <2>. QED
      BY <2>2, <2>3, <2>4, <2>5, <2>6 DEF TypeOK
  <1>2. OneInCharge'
    BY RetentionAssumption DEF OneInCharge, Going, TypeOK, Sweeper
  <1>3. HolderSaved' /\ SweepsAsStored' /\ DownAtRest'
    BY DEF HolderSaved, SweepsAsStored, DownAtRest
  <1>. QED
    BY <1>1, <1>2, <1>3

LEMMA RetentionRestart ==
    ASSUME RetentionInv, Restart
    PROVE  RetentionInv'
  <1>. USE DEF RetentionInv, Restart
  <1>1. stored \in Policy /\ holder = NoReq
    BY DEF TypeOK, DownAtRest
  <1>2. CASE Apply(stored) /\ applied' = TRUE /\ UNCHANGED faults
    <2>1. /\ stop' \in {0} \cup Sweeper
          /\ sweeper' \in [Sweeper -> Goroutine]
          /\ OneInCharge'
          /\ IF stop' = 0 THEN stored = 0 ELSE stored # 0 /\ sweeper'[stop'].days = stored
      BY <1>1, <1>2, ApplyTakesOver
    <2>2. TypeOK'
      BY <1>2, <2>1 DEF TypeOK
    <2>. QED
      BY <1>1, <2>1, <2>2 DEF HolderSaved, SweepsAsStored, DownAtRest
  <1>3. CASE Fault /\ UNCHANGED <<stop, sweeper, applied>>
    <2>1. ~applied
      BY DEF DownAtRest
    <2>. QED
      BY <1>1, <1>3, <2>1, RetentionAssumption
      DEF TypeOK, Fault, OneInCharge, Going, HolderSaved, SweepsAsStored, DownAtRest
  <1>. QED
    BY <1>2, <1>3

LEMMA RetentionStutter ==
    ASSUME RetentionInv, UNCHANGED vars
    PROVE  RetentionInv'
  BY DEF RetentionInv, vars, TypeOK, OneInCharge, Going, HolderSaved, SweepsAsStored, DownAtRest

LEMMA RetentionStep == RetentionInv /\ [Next]_vars => RetentionInv'
  BY RetentionAsk, RetentionSave, RetentionApply, RetentionMove, RetentionCrash,
     RetentionRestart, RetentionStutter DEF Next

LEMMA RestFollowsPolicy == RetentionInv => PolicyInForce
  <1>. SUFFICES ASSUME RetentionInv, up, applied, holder = NoReq
                PROVE  /\ {i \in Sweeper : Going(i) /\ ~sweeper[i].stopped} = {stop} \ {0}
                       /\ {sweeper[i].days : i \in {j \in Sweeper : Going(j) /\ ~sweeper[j].stopped}}
                              = {stored} \ {0}
    BY DEF PolicyInForce
  <1>. USE DEF RetentionInv
  <1>1. 0 \notin Sweeper /\ stop \in {0} \cup Sweeper
    BY RetentionAssumption DEF Sweeper, TypeOK
  <1>2. {i \in Sweeper : Going(i) /\ ~sweeper[i].stopped} = {stop} \ {0}
    BY <1>1 DEF OneInCharge
  <1>3. stop # 0 => sweeper[stop].days = stored /\ stored # 0
    BY DEF SweepsAsStored
  <1>. QED
    BY <1>1, <1>2, <1>3 DEF SweepsAsStored

(* At rest the one sweeper that was not stopped is the controller's, and   *)
(* it sweeps by the policy in the settings table.                          *)
THEOREM PolicyHolds == Spec => []PolicyInForce
  BY RetentionInit, RetentionStep, RestFollowsPolicy, PTL DEF Spec
=============================================================================

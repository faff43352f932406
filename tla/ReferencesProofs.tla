-------------------------- MODULE ReferencesProofs --------------------------
(* For every set of hook ids, finite or not, and any number of edits: the  *)
(* success graph stays acyclic and free of dangling targets.  And for      *)
(* every set of hooks, hosts, scripts and requests: a hook loses its host  *)
(* only to a delete that crossed its save.  The invariant of the latter    *)
(* says of each request what the first of its two statements has found     *)
(* out, and for how long that stays true.                                  *)
EXTENDS References, TLAPS

-----------------------------------------------------------------------------
(* The success graph.                                                      *)
ConfigInv == ConfigTypeOK /\ SuccessGraphAcyclic /\ NoDanglingTarget

(* What an accepted walk gives the proof: the set of hooks it visits holds *)
(* the target, avoids the hook being saved, consists of present hooks and  *)
(* is closed under success_hook_id.                                        *)
LEMMA WalkIsClosed ==
    ASSUME ConfigTypeOK, NEW h \in Hook, NEW t \in Hook, ValidTarget(h, t)
    PROVE  \E W \in SUBSET Hook :
               /\ t \in W /\ h \notin W
               /\ \A g \in W : hooks[g].present /\ hooks[g].succ \in W \cup {NoHook}
<1>0. PICK n \in 1..Cardinality(Hook) : \E w \in [1..n -> Hook] : IsWalk(w, h, t)
  BY HookAssumption DEF ValidTarget
<1>1. PICK w \in [1..n -> Hook] : IsWalk(w, h, t)
  BY <1>0
<1>2. n \in Nat /\ n >= 1 /\ Len(w) = n
  <2>1. n \in Int /\ n >= 1
    OBVIOUS
  <2>2. w \in Seq(Hook) /\ Len(w) = n
    BY <2>1
  <2> QED
    BY <2>1, <2>2
<1> DEFINE W == {w[i] : i \in 1..n}
<1>3. W \in SUBSET Hook /\ t \in W /\ h \notin W
  BY <1>1, <1>2 DEF IsWalk
<1>4. ASSUME NEW g \in W
      PROVE  hooks[g].present /\ hooks[g].succ \in W \cup {NoHook}
  <2>1. PICK i \in 1..n : g = w[i]
    OBVIOUS
  <2>2. hooks[g].present
    BY <1>1, <1>2, <2>1 DEF IsWalk
  <2>3. CASE i = n
    BY <1>1, <1>2, <2>1, <2>2, <2>3 DEF IsWalk
  <2>4. CASE i # n
    <3>1. i \in 1..n - 1 /\ i + 1 \in 1..n
      BY <1>2, <2>4
    <3>2. hooks[w[i]].succ = w[i + 1]
      BY <1>1, <1>2, <3>1 DEF IsWalk
    <3> QED
      BY <2>1, <2>2, <3>1, <3>2
  <2> QED
    BY <2>3, <2>4
<1> QED
  BY <1>3, <1>4

(* Saving a row whose target was validated closes no cycle.                *)
LEMMA SaveKeepsAcyclic ==
    ASSUME ConfigInv, NEW h \in Hook, NEW a \in BOOLEAN, NEW t \in Hook \cup {NoHook},
           ValidTarget(h, t),
           hooks' = [hooks EXCEPT ![h] = [present |-> TRUE, async |-> a, succ |-> t]]
    PROVE  SuccessGraphAcyclic'
<1> SUFFICES ASSUME NEW S \in SUBSET Hook, S # {}
             PROVE  \E g \in S : hooks'[g].succ \notin S
  BY DEF SuccessGraphAcyclic, Acyclic
<1>1. hooks \in [Hook -> HookRow] /\ Acyclic(hooks)
  BY DEF ConfigInv, ConfigTypeOK, SuccessGraphAcyclic
<1>2. hooks'[h].succ = t /\ \A g \in Hook \ {h} : hooks'[g] = hooks[g]
  BY <1>1
<1>3. CASE h \notin S
  BY <1>1, <1>2, <1>3 DEF Acyclic
<1>4. CASE h \in S /\ t \notin S
  BY <1>2, <1>4
<1>5. CASE h \in S /\ t \in S
  <2>1. PICK W \in SUBSET Hook :
            /\ t \in W /\ h \notin W
            /\ \A g \in W : hooks[g].present /\ hooks[g].succ \in W \cup {NoHook}
    BY <1>5, WalkIsClosed DEF ConfigInv
  <2>2. S \cap W # {} /\ S \cap W \in SUBSET Hook
    BY <1>5, <2>1
  <2>3. PICK g \in S \cap W : hooks[g].succ \notin S \cap W
    BY <1>1, <2>2 DEF Acyclic
  <2>4. hooks[g].succ \notin S
    BY <2>1, <2>3, HookAssumption
  <2> QED
    BY <1>2, <2>1, <2>3, <2>4
<1> QED
  BY <1>3, <1>4, <1>5

(* Nor does it leave a dangling target.                                    *)
LEMMA SaveKeepsClosed ==
    ASSUME ConfigInv, NEW h \in Hook, NEW a \in BOOLEAN, NEW t \in Hook \cup {NoHook},
           ValidTarget(h, t),
           hooks' = [hooks EXCEPT ![h] = [present |-> TRUE, async |-> a, succ |-> t]]
    PROVE  NoDanglingTarget'
<1>1. hooks \in [Hook -> HookRow] /\ Closed(hooks)
  BY DEF ConfigInv, ConfigTypeOK, NoDanglingTarget
<1>2. t # NoHook => hooks[t].present
  BY WalkIsClosed DEF ConfigInv
<1> SUFFICES ASSUME NEW g \in Hook, hooks'[g].succ # NoHook
             PROVE  hooks'[g].present /\ hooks'[hooks'[g].succ].present
  BY DEF NoDanglingTarget, Closed
<1>3. CASE g = h
  BY <1>1, <1>2, <1>3
<1>4. CASE g # h
  <2>1. hooks'[g] = hooks[g] /\ hooks[g].succ \in Hook
    BY <1>1, <1>4 DEF HookRow
  <2> QED
    BY <1>1, <2>1 DEF Closed
<1> QED
  BY <1>3, <1>4

(* The edits of the hooks table preserve the invariant.                    *)
LEMMA ConfigStep == ConfigInv /\ [ConfigNext]_configVars => ConfigInv'
<1> SUFFICES ASSUME ConfigInv, [ConfigNext]_configVars
             PROVE  ConfigInv'
  OBVIOUS
<1>1. ASSUME NEW h \in Hook, NEW a \in BOOLEAN, NEW t \in Hook \cup {NoHook},
             CreateHook(h, a, t) \/ UpdateHook(h, a, t)
      PROVE  ConfigInv'
  <2>1. ConfigTypeOK'
    <3> DEFINE row == [present |-> TRUE, async |-> a, succ |-> t]
    <3>1. hooks' = [hooks EXCEPT ![h] = row] /\ edits' = edits + 1
      BY <1>1 DEF CreateHook, UpdateHook, Edit
    <3>2. row \in HookRow
      BY Zenon DEF HookRow
    <3>3. hooks \in [Hook -> HookRow] /\ edits \in Nat
      BY DEF ConfigInv, ConfigTypeOK
    <3> HIDE DEF row
    <3> QED
      BY <3>1, <3>2, <3>3 DEF ConfigTypeOK
  <2>2. SuccessGraphAcyclic'
    BY <1>1, SaveKeepsAcyclic DEF CreateHook, UpdateHook
  <2>3. NoDanglingTarget'
    BY <1>1, SaveKeepsClosed DEF CreateHook, UpdateHook
  <2> QED
    BY <2>1, <2>2, <2>3 DEF ConfigInv
<1>2. ASSUME NEW h \in Hook, DeleteHook(h)
      PROVE  ConfigInv'
  <2>1. hooks \in [Hook -> HookRow] /\ hooks' = [hooks EXCEPT ![h] = Absent]
    BY <1>2 DEF ConfigInv, ConfigTypeOK, DeleteHook
  <2>2. ConfigTypeOK'
    BY <1>2 DEF ConfigInv, ConfigTypeOK, DeleteHook, Edit, HookRow, Absent
  <2>3. SuccessGraphAcyclic'
    BY <2>1, HookAssumption DEF ConfigInv, SuccessGraphAcyclic, Acyclic, Absent
  <2>4. NoDanglingTarget'
    <3> SUFFICES ASSUME NEW g \in Hook, hooks'[g].succ # NoHook
                 PROVE  hooks'[g].present /\ hooks'[hooks'[g].succ].present
      BY DEF NoDanglingTarget, Closed
    <3>1. g # h /\ hooks'[g] = hooks[g] /\ hooks[g].succ \in Hook
      BY <2>1 DEF Absent, HookRow
    <3>2. hooks[g].succ # h
      BY <1>2, <3>1 DEF DeleteHook, Referenced, ConfigInv, NoDanglingTarget, Closed
    <3> QED
      BY <2>1, <3>1, <3>2 DEF ConfigInv, NoDanglingTarget, Closed
  <2> QED
    BY <2>2, <2>3, <2>4 DEF ConfigInv
<1>3. CASE UNCHANGED configVars
  BY <1>3 DEF configVars, ConfigInv, ConfigTypeOK, SuccessGraphAcyclic, NoDanglingTarget,
              Acyclic, Closed
<1> QED
  BY <1>1, <1>2, <1>3, EditsAssumption DEF ConfigNext

(* A chain saved through the handlers can never come back to a hook it     *)
(* started from, whatever edits race (comment at success_chain.go:143).    *)
THEOREM ConfigAcyclic == ConfigSpec => []SuccessGraphAcyclic
<1>1. ConfigInit => ConfigInv
  BY InitialAssumption, EditsAssumption
  DEF ConfigInit, ConfigInv, ConfigTypeOK, SuccessGraphAcyclic, NoDanglingTarget
<1> QED
  BY <1>1, ConfigStep, PTL DEF ConfigSpec, ConfigInv

(* Nor does a saved hook ever name a successor that is gone.               *)
THEOREM ConfigClosed == ConfigSpec => []NoDanglingTarget
<1>1. ConfigInit => ConfigInv
  BY InitialAssumption, EditsAssumption
  DEF ConfigInit, ConfigInv, ConfigTypeOK, SuccessGraphAcyclic, NoDanglingTarget
<1> QED
  BY <1>1, ConfigStep, PTL DEF ConfigSpec, ConfigInv

-----------------------------------------------------------------------------
(* The references.                                                         *)
Request ==
    {Idle} \cup [at : {"commit"}, hook : Hook, target : Target]
           \cup [at : {"delete"}, thing : Host \cup Script]

TypeInv ==
    /\ refs \in [Hook -> Target]
    /\ things \subseteq Host \cup Script
    /\ req \in [Req -> Request]

(* A hook that is about to be saved has a host, unless a delete crossed it. *)
SavesKnownHost ==
    \A r \in Req : req[r].at = "commit" =>
        req[r].target.host \in things \cup {None} \cup crossed

(* What is about to be deleted has no user, unless a save crossed it.      *)
DeletesUnused ==
    \A r \in Req : req[r].at = "delete" =>
        req[r].thing \in crossed \/ Users(req[r].thing) = {}

RefInv == TypeInv /\ LostHostWasCrossed /\ SavesKnownHost /\ DeletesUnused

-----------------------------------------------------------------------------
LEMMA InitRefInv == Init => RefInv
<1> SUFFICES ASSUME Init PROVE RefInv
  OBVIOUS
<1>1. TypeInv
  BY DEF Init, TypeInv, Request, NoTarget, Target
<1>2. LostHostWasCrossed
  BY DEF Init, LostHostWasCrossed, NoTarget
<1>3. SavesKnownHost /\ DeletesUnused
  BY DEF Init, SavesKnownHost, DeletesUnused, Idle
<1> QED
  BY <1>1, <1>2, <1>3 DEF RefInv

(* The kinds of request are told apart by their next step.                 *)
LEMMA Kinds ==
    ASSUME TypeInv, NEW r \in Req
    PROVE  /\ req[r].at = "commit" => req[r].hook \in Hook /\ req[r].target \in Target
           /\ req[r].at = "delete" => req[r].thing \in Host \cup Script
<1>1. req[r] \in Request
  BY DEF TypeInv
<1> QED
  BY <1>1 DEF Request, Idle

LEMMA CreateStep ==
    ASSUME RefInv, NEW x \in Host \cup Script, things' = things \cup {x},
           UNCHANGED <<refs, req, crossed>>
    PROVE  RefInv'
  BY DEF RefInv, TypeInv, LostHostWasCrossed, SavesKnownHost, DeletesUnused, Users, Named

LEMMA CheckHookStep ==
    ASSUME RefInv, NEW r \in Req, NEW h \in Hook, NEW target \in Target, CheckHook(r, h, target)
    PROVE  RefInv'
<1> DEFINE next == [at |-> "commit", hook |-> h, target |-> target]
<1>1. next \in Request /\ next.at = "commit" /\ next.target = target
  BY DEF Request
<1>2. req' = [req EXCEPT ![r] = next] /\ target.host \in things \cup {None}
      /\ UNCHANGED <<refs, things, crossed>>
  BY DEF CheckHook, HostExists
<1> HIDE DEF next
<1>3. TypeInv'
  BY <1>1, <1>2 DEF RefInv, TypeInv
<1>4. \A q \in Req : req'[q] = IF q = r THEN next ELSE req[q]
  BY <1>2 DEF RefInv, TypeInv
<1>5. LostHostWasCrossed' /\ SavesKnownHost'
  BY <1>1, <1>2, <1>4 DEF RefInv, LostHostWasCrossed, SavesKnownHost
<1>6. DeletesUnused'
  BY <1>1, <1>2, <1>4 DEF RefInv, DeletesUnused, Users
<1> QED
  BY <1>3, <1>5, <1>6 DEF RefInv

LEMMA CommitHookStep ==
    ASSUME RefInv, NEW r \in Req, NEW a, NEW t, CommitHook(r, a, t)
    PROVE  RefInv'
<1> DEFINE h == req[r].hook
           target == req[r].target
<1>1. h \in Hook /\ target \in Target /\ req[r].at = "commit"
  BY Kinds DEF RefInv, CommitHook
<1>2. /\ refs' = [refs EXCEPT ![h] = target] /\ req' = [req EXCEPT ![r] = Idle]
      /\ things' = things /\ crossed' = crossed \cup (Named(target) \cap Deleting)
  BY DEF CommitHook
<1>3. \A q \in Req : req'[q] = IF q = r THEN Idle ELSE req[q]
  BY <1>2 DEF RefInv, TypeInv
<1>4. \A g \in Hook : refs'[g] = IF g = h THEN target ELSE refs[g]
  BY <1>1, <1>2 DEF RefInv, TypeInv
<1>5. TypeInv'
  BY <1>1, <1>2 DEF RefInv, TypeInv, Request
<1>6. target.host \in things \cup {None} \cup crossed
  BY <1>1 DEF RefInv, SavesKnownHost
<1> HIDE DEF h, target
<1>7. LostHostWasCrossed'
  BY <1>2, <1>4, <1>6 DEF RefInv, LostHostWasCrossed
<1>8. SavesKnownHost'
  BY <1>2, <1>3 DEF RefInv, SavesKnownHost, Idle
<1>9. ASSUME NEW q \in Req, req'[q].at = "delete"
      PROVE  (req[q].thing \in crossed \/ Users(req[q].thing) = {})'
  <2>1. q # r /\ req'[q] = req[q]
    BY <1>3, <1>9 DEF Idle
  <2>2. req[q].thing \in Deleting
    BY <1>9, <2>1 DEF Deleting
  <2>3. CASE req[q].thing \in Named(target)
    BY <1>2, <2>1, <2>2, <2>3 DEF Users
  <2>4. CASE req[q].thing \notin Named(target)
    <3>1. req[q].thing \in crossed \/ \A g \in Hook : req[q].thing \notin Named(refs[g])
      BY <1>9, <2>1 DEF RefInv, DeletesUnused, Users
    <3>2. \A g \in Hook : req[q].thing \in Named(refs'[g]) => req[q].thing \in Named(refs[g])
      BY <1>4, <2>4
    <3>3. Users(req[q].thing)' = {g \in Hook : req[q].thing \in Named(refs'[g])}
      BY <2>1 DEF Users
    <3> QED
      BY <1>2, <2>1, <3>1, <3>2, <3>3
  <2> QED
    BY <2>3, <2>4
<1>10. DeletesUnused'
  BY <1>9 DEF DeletesUnused
<1> QED
  BY <1>5, <1>7, <1>8, <1>10 DEF RefInv

LEMMA RollBackStep ==
    ASSUME RefInv, NEW r \in Req, RollBack(r)
    PROVE  RefInv'
<1>1. req' = [req EXCEPT ![r] = Idle] /\ UNCHANGED <<refs, things, crossed>>
  BY DEF RollBack
<1>2. \A q \in Req : req'[q] = IF q = r THEN Idle ELSE req[q]
  BY <1>1 DEF RefInv, TypeInv
<1>3. TypeInv' /\ LostHostWasCrossed'
  BY <1>1 DEF RefInv, TypeInv, Request, LostHostWasCrossed
<1>4. SavesKnownHost' /\ DeletesUnused'
  BY <1>1, <1>2 DEF RefInv, SavesKnownHost, DeletesUnused, Users, Idle
<1> QED
  BY <1>3, <1>4 DEF RefInv

LEMMA RemoveHookStep ==
    ASSUME RefInv, NEW h \in Hook, RemoveHook(h)
    PROVE  RefInv'
<1>1. refs' = [refs EXCEPT ![h] = NoTarget] /\ UNCHANGED <<things, req, crossed>>
  BY DEF RemoveHook
<1>2. \A g \in Hook : refs'[g] = IF g = h THEN NoTarget ELSE refs[g]
  BY <1>1 DEF RefInv, TypeInv
<1>3. NoTarget \in Target /\ NoTarget.host = None /\ Named(NoTarget) = {}
  BY DEF NoTarget, Target, Named
<1>4. TypeInv'
  BY <1>1, <1>3 DEF RefInv, TypeInv
<1> HIDE DEF NoTarget
<1>5. LostHostWasCrossed' /\ SavesKnownHost'
  BY <1>1, <1>2, <1>3 DEF RefInv, LostHostWasCrossed, SavesKnownHost
<1>6. DeletesUnused'
  BY <1>1, <1>2, <1>3 DEF RefInv, DeletesUnused, Users
<1> QED
  BY <1>4, <1>5, <1>6 DEF RefInv

LEMMA CheckUsersStep ==
    ASSUME RefInv, NEW r \in Req, NEW x \in things, CheckUsers(r, x)
    PROVE  RefInv'
<1> DEFINE next == [at |-> "delete", thing |-> x]
<1>1. next \in Request /\ next.at = "delete" /\ next.thing = x
  BY DEF Request, RefInv, TypeInv
<1>2. req' = [req EXCEPT ![r] = next] /\ Users(x) = {} /\ UNCHANGED <<refs, things, crossed>>
  BY DEF CheckUsers
<1> HIDE DEF next
<1>3. \A q \in Req : req'[q] = IF q = r THEN next ELSE req[q]
  BY <1>2 DEF RefInv, TypeInv
<1>4. TypeInv'
  BY <1>1, <1>2 DEF RefInv, TypeInv
<1>5. LostHostWasCrossed' /\ SavesKnownHost'
  BY <1>1, <1>2, <1>3 DEF RefInv, LostHostWasCrossed, SavesKnownHost
<1>6. DeletesUnused'
  BY <1>1, <1>2, <1>3 DEF RefInv, DeletesUnused, Users
<1> QED
  BY <1>4, <1>5, <1>6 DEF RefInv

LEMMA DeleteThingStep ==
    ASSUME RefInv, NEW r \in Req, DeleteThing(r)
    PROVE  RefInv'
<1> DEFINE x == req[r].thing
<1>1. /\ req[r].at = "delete" /\ x \in Host \cup Script
      /\ things' = things \ {x} /\ crossed' = crossed \cup ({x} \cap Saving)
      /\ req' = [req EXCEPT ![r] = Idle] /\ refs' = refs
  BY Kinds DEF RefInv, DeleteThing
<1>2. x \in crossed \/ Users(x) = {}
  BY <1>1 DEF RefInv, DeletesUnused
<1> HIDE DEF x
<1>3. \A q \in Req : req'[q] = IF q = r THEN Idle ELSE req[q]
  BY <1>1 DEF RefInv, TypeInv
<1>4. TypeInv'
  BY <1>1 DEF RefInv, TypeInv, Request
<1>5. LostHostWasCrossed'
  <2> SUFFICES ASSUME NEW g \in Hook
               PROVE  refs[g].host \in things' \cup {None} \cup crossed'
    BY <1>1 DEF LostHostWasCrossed
  <2>1. refs[g].host \in things \cup {None} \cup crossed
    BY DEF RefInv, LostHostWasCrossed
  <2>2. refs[g].host = x /\ x # None => g \in Users(x)
    BY DEF Users, Named
  <2> QED
    BY <1>1, <1>2, <2>1, <2>2
<1>6. SavesKnownHost'
  <2> SUFFICES ASSUME NEW q \in Req, req'[q].at = "commit"
               PROVE  req'[q].target.host \in things' \cup {None} \cup crossed'
    BY DEF SavesKnownHost
  <2>1. req'[q] = req[q]
    BY <1>3 DEF Idle
  <2>2. req[q].target.host \in things \cup {None} \cup crossed
    BY <2>1 DEF RefInv, SavesKnownHost
  <2>3. Named(req[q].target) \subseteq Saving
    BY <2>1 DEF Saving
  <2>4. req[q].target.host # None => req[q].target.host \in Saving
    BY <2>3 DEF Named
  <2> QED
    BY <1>1, <2>1, <2>2, <2>4
<1>7. DeletesUnused'
  BY <1>1, <1>3 DEF RefInv, DeletesUnused, Users, Idle
<1> QED
  BY <1>4, <1>5, <1>6, <1>7 DEF RefInv

LEMMA RefStep == RefInv /\ [Next]_vars => RefInv'
<1> SUFFICES ASSUME RefInv, [Next]_vars PROVE RefInv'
  OBVIOUS
<1>1. CASE UNCHANGED vars
  BY <1>1 DEF vars, RefInv, TypeInv, LostHostWasCrossed, SavesKnownHost, DeletesUnused, Users
<1>2. ASSUME NEW x \in Host, CreateHost(x) PROVE RefInv'
  BY <1>2, CreateStep DEF CreateHost
<1>3. ASSUME NEW x \in Script, CreateScript(x) PROVE RefInv'
  BY <1>3, CreateStep DEF CreateScript
<1> QED
  BY <1>1, <1>2, <1>3, CheckHookStep, CommitHookStep, RollBackStep, RemoveHookStep,
     CheckUsersStep, DeleteThingStep DEF Next

-----------------------------------------------------------------------------
(* A hook whose host is gone was saved while that host was being deleted:  *)
(* no other order of any number of saves, edits and deletes comes to that. *)
THEOREM LostHostsWereCrossed == Spec => []LostHostWasCrossed
  BY InitRefInv, RefStep, PTL DEF Spec, RefInv

(* No delete takes a host or a script from a hook that refers to it,       *)
(* unless the two crossed.                                                 *)
THEOREM DeletesTakeNothing == Spec => DeleteTakesNothing
<1>1. RefInv /\ [Next]_vars =>
          [\A x \in things \ things' : Users(x) = {} \/ x \in crossed']_vars
  <2> SUFFICES ASSUME RefInv, Next, NEW x \in things \ things'
               PROVE  Users(x) = {} \/ x \in crossed'
    OBVIOUS
  <2>1. PICK r \in Req : DeleteThing(r)
    BY DEF Next, CreateHost, CreateScript, RemoveHook, CheckHook, CommitHook, RollBack, CheckUsers
  <2> QED
    BY <2>1 DEF DeleteThing, RefInv, DeletesUnused
<1> QED
  BY <1>1, InitRefInv, RefStep, PTL DEF Spec, DeleteTakesNothing

(* The checks and transactions of requests that cross each other edit the  *)
(* hooks table as HookConfig says, so that what is proved of it holds here. *)
THEOREM RequestsEditHooks == Spec => ConfigSpec
<1>1. Init => ConfigInit
  BY DEF Init
<1>2. RefInv /\ [Next]_vars => [ConfigNext]_configVars
  <2> SUFFICES ASSUME RefInv, Next PROVE [ConfigNext]_configVars
    BY DEF vars
  <2>1. ASSUME NEW r \in Req, NEW a \in AsyncChoices, NEW t \in Hook \cup {NoHook},
               CommitHook(r, a, t)
        PROVE  ConfigNext
    <3>1. req[r].hook \in Hook
      BY <2>1, Kinds DEF RefInv, CommitHook
    <3>2. CreateHook(req[r].hook, a, t) \/ UpdateHook(req[r].hook, a, t)
      BY <2>1 DEF CommitHook
    <3> QED
      BY <3>1, <3>2 DEF ConfigNext
  <2>2. ASSUME NEW h \in Hook, RemoveHook(h) PROVE ConfigNext
    BY <2>2 DEF RemoveHook, ConfigNext
  <2> QED
    BY <2>1, <2>2 DEF Next, CreateHost, CreateScript, CheckHook, RollBack, CheckUsers, DeleteThing
<1> QED
  BY <1>1, <1>2, InitRefInv, RefStep, PTL DEF Spec, ConfigSpec
=============================================================================

------------------------------- MODULE Handoff -------------------------------
(***************************************************************************)
(* What a success handoff promises, with no threads, slots or tables: each *)
(* execution that succeeds offers itself once, and each attempt to hand it *)
(* on either starts one successor or ends in a state an operator may claim *)
(* again.  Claiming needs the previous successor to have ended badly, so   *)
(* a successor that is alive or has succeeded is the only one there is.    *)
(***************************************************************************)
EXTENDS Integers

CONSTANT Execution  \* the executions that may be handed on

VARIABLE handoff    \* execution -> how far its handoff has come

States == {"none", "pending", "dispatched", "failed", "interrupted"}

HandoffTypeOK ==
    handoff \in [Execution -> [state : States,
                               attempt : Nat,
                               starts : Nat,  \* successors started so far
                               last : {"none", "open", "good", "bad"}]]
                                              \* how the latest one ended

HandoffInit ==
    handoff = [p \in Execution |->
                  [state |-> "none", attempt |-> 0, starts |-> 0, last |-> "none"]]

Offer(p) ==
    /\ handoff[p].state = "none"
    /\ handoff' = [handoff EXCEPT ![p].state = "pending", ![p].attempt = 1]

(* Starting a successor is also how another execution comes into being,    *)
(* but that one's own handoff has not begun.                               *)
StartSuccessor(p) ==
    /\ handoff[p].state = "pending"
    /\ handoff' = [handoff EXCEPT ![p].state = "dispatched", ![p].starts = @ + 1,
                                  ![p].last = "open"]

Refuse(p) ==
    /\ handoff[p].state = "pending"
    /\ handoff' = [handoff EXCEPT ![p].state = "failed"]

(* The latest successor ends.  It may succeed and, in the same step, offer *)
(* its own handoff.                                                        *)
SuccessorEnds(p) ==
    /\ handoff[p].last = "open"
    /\ \/ handoff' = [handoff EXCEPT ![p].last = "bad"]
       \/ handoff' = [handoff EXCEPT ![p].last = "good"]
       \/ \E c \in Execution \ {p} :
              /\ handoff[c].state = "none"
              /\ handoff' = [handoff EXCEPT ![p].last = "good",
                                            ![c].state = "pending", ![c].attempt = 1]

ClaimAgain(p) ==
    /\ \/ handoff[p].state \in {"failed", "interrupted"}
       \/ handoff[p].state = "dispatched" /\ handoff[p].last = "bad"
    /\ handoff' = [handoff EXCEPT ![p].state = "pending", ![p].attempt = @ + 1]

(* A restart interrupts every handoff under way and every open successor.  *)
Interrupt ==
    handoff' = [p \in Execution |->
        [handoff[p] EXCEPT !.state = IF @ = "pending" THEN "interrupted" ELSE @,
                           !.last = IF @ = "open" THEN "bad" ELSE @]]

HandoffNext ==
    \/ \E p \in Execution :
           Offer(p) \/ StartSuccessor(p) \/ Refuse(p) \/ SuccessorEnds(p) \/ ClaimAgain(p)
    \/ Interrupt

HandoffSpec == HandoffInit /\ [][HandoffNext]_handoff
=============================================================================

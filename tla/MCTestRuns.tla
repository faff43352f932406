----------------------------- MODULE MCTestRuns -----------------------------
(* Instances of TestRunLog and TestRuns: clients as model values.  The     *)
(* registry and the log of a run in it meet only in the outcome of the     *)
(* run, which each of them leaves open, so a behaviour follows one of them.*)
EXTENDS TestRunLog, TestRuns, TLC

CONSTANTS c1, c2, c3, c4

MCReq == {c1, c2, c3, c4}
MCSize == {1, 3}

VARIABLE followed

MCVars == <<vars, runsVars, followed>>

MCInit == Init /\ RunsInit /\ followed \in {"log", "registry"}

InLog(A) == followed = "log" /\ A /\ UNCHANGED <<runsVars, followed>>
InRegistry(A) == followed = "registry" /\ A /\ UNCHANGED <<vars, followed>>

MCNext == InLog(Next) \/ InRegistry(RunsNext)

(* The browser keeps polling and the server answers; handlers return; a    *)
(* cancelled script ends; whoever was refused presses the button again.    *)
MCSpec ==
    /\ MCInit /\ [][MCNext]_MCVars
    /\ WF_MCVars(InLog(ClientStep))
    /\ \A c \in Req :
          /\ WF_MCVars(InRegistry(Handle(c)))
          /\ WF_MCVars(InRegistry(req[c] = "refused" /\ Press(c)))
    /\ \A r \in RunId : WF_MCVars(InRegistry(runs[r].cancel # "no" /\ End(r)))
=============================================================================

----------------------------- MODULE MCHistory -----------------------------
(* An instance of History: a chain of three hooks, triggered at its head.  *)
EXTENDS History, TLC

CONSTANTS hA, hB, hC

MCHook == {hA, hB, hC}
MCEntry == {hA}
MCDays == {1}
MCChain == hA :> hB @@ hB :> hC @@ hC :> NoHook
=============================================================================

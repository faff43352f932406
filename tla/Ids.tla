-------------------------------- MODULE Ids --------------------------------
(* The names every part of the system shares.                              *)
EXTENDS Integers, Sequences, FiniteSets

CONSTANTS
    Hook,    \* hook ids (hooks.id)
    NoHook,  \* the empty hook id
    MaxExec  \* bound: rows the database has room for in executions

ASSUME HookAssumption == NoHook \notin Hook
ASSUME ExecAssumption == MaxExec \in Nat

(* executions.id is AUTOINCREMENT: counted up from 1 and never reused.     *)
ExecId == 1..MaxExec
=============================================================================

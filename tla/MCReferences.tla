---------------------------- MODULE MCReferences ----------------------------
(* An empty table of hooks, with enough edits to build a ring of three,    *)
(* and requests that cross each other.                                     *)
EXTENDS References, TLC

CONSTANTS hA, hB, hC, x1, s1, q1, q2

MCHook == {hA, hB, hC}
MCHost == {x1}
MCScript == {s1}
MCReq == {q1, q2}
EmptyTable == {[h \in Hook |-> Absent]}
Symmetry == Permutations(MCReq) \cup Permutations(MCHook)
=============================================================================

---------------------------- MODULE MCRetention ----------------------------
(* Instances of Retention: requests as model values.                       *)
EXTENDS Retention, TLC

CONSTANTS q1, q2

MCReq == {q1, q2}
MCDays == {1}
=============================================================================

---------------------------- MODULE MCLogStream ----------------------------
(* Values of the constants of LogStream for TLC.                           *)
EXTENDS LogStream

MCSize == {1, 2}
=============================================================================

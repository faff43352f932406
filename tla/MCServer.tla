------------------------------ MODULE MCServer ------------------------------
(* Values of the constants of Server for TLC: each client has an address   *)
(* of its own.                                                             *)
EXTENDS Server, TLC

CONSTANTS admin, guest, ip1, ip2, r1, r2

MCClient == {admin, guest}
MCAddress == {ip1, ip2}
MCAddressOf == admin :> ip1 @@ guest :> ip2
MCRequest == {r1, r2}
RequestSymmetry == Permutations(MCRequest)

(* Bound: where both clients come, they come no further than the limiter,  *)
(* and one of them is let through twice at most.                           *)
LimiterAlone ==
    \/ /\ \A r \in Request : request[r].pc # "none" => request[r].client = admin
       /\ \A t \in Time : allowed[ip2][t] = 0
    \/ /\ \A r \in Request : request[r].pc \in {"none", "limit", "body"}
       /\ \A t \in Time : guesses[admin][t] = 0
       /\ Within(allowed[ip2], MaxTime + 1, 0) <= 2
=============================================================================

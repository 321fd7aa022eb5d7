------------------------------ MODULE MCProxy ------------------------------
(***************************************************************************)
(* Instances of Proxy for TLC: the clients are threads' numbers of their   *)
(* own, and MaxLines bounds the lines of each.                             *)
(***************************************************************************)
EXTENDS Proxy, TLC

Symmetry == Permutations(Threads) \cup Permutations(Clients)
AllFaults == {"refuse", "mute", "leave", "reset"}
=============================================================================

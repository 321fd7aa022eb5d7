------------------------------- MODULE MCTsh -------------------------------
(***************************************************************************)
(* Instances of Tsh for TLC.  Pids bounds the number of programs run in a  *)
(* behaviour (process ids are not reused); everything else is finite.      *)
(***************************************************************************)
EXTENDS Tsh

TwoPids == 1 .. 2
ThreePids == 1 .. 3

JobCommands == {"run", "run&", "fg", "bg"}
BothKeys == {"INT", "TSTP"}
ChildFaults == {"die", "stop"}
AllFaults == {"fork", "die", "stop"}
=============================================================================

-------------------------------- MODULE MCMm --------------------------------
(***************************************************************************)
(* Instances of Mm for TLC: requests of 1, 9 and 33 bytes take blocks of   *)
(* 3, 4 and 7 units, so that a free block may be too small, fit, fit with  *)
(* slack, or be split.                                                     *)
(***************************************************************************)
EXTENDS Mm

SmallAndLarge == {1, 33}
Addresses == Unit
=============================================================================

------------------------------ MODULE MCSitting ------------------------------
(***************************************************************************)
(* Sitting on a small instance.  The two slots are one another's equals.   *)
(***************************************************************************)
EXTENDS Sitting, TLC

CONSTANTS r1, r2

SlotSymmetry == Permutations(Slots)
==============================================================================

---------------------------- MODULE MCHardening ----------------------------
(***************************************************************************)
(* The loop over four mutants, with inputs of one list and of two, the     *)
(* longest reaching the granularity where complements are tried.            *)
(***************************************************************************)
EXTENDS Hardening, TLC

CONSTANTS m1, m2, m3, m4

MCSymmetry == Permutations(Mutants)

MCShapes == {<<4>>, <<0, 3>>, <<2, 2>>}
=============================================================================

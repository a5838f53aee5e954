------------------------------- MODULE MCBroker -------------------------------
(***************************************************************************)
(* Broker on a small instance: two runs of two cases each, and timers in   *)
(* the order of the code's own, where the engine's margin is below what a  *)
(* docker command may take.                                                *)
(***************************************************************************)
EXTENDS Broker

CONSTANTS a, b

MCShapes == {<<2, FALSE>>, <<2, TRUE>>}
==============================================================================

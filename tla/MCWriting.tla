------------------------------ MODULE MCWriting ------------------------------
(***************************************************************************)
(* Writing on a small instance: two configurations, and the benches a run  *)
(* may be started at are the first configuration everywhere and the ones   *)
(* that move one site away from it.                                        *)
(***************************************************************************)
EXTENDS Writing

CONSTANTS c1, c2

Base == [s \in Sites |-> c1]

MCBenches ==
  {Base} \cup {[Base EXCEPT ![s] = c2] : s \in Sites}

AllSteps == Steps

\* Every step but the one between the landing and the draft naming its problem.
UnnamedSteps == Steps \ {"name"}
==============================================================================

----------------------------- MODULE MCSpeedup -----------------------------
(***************************************************************************)
(* The search on small problems: every one of up to MaxSize sizes whose     *)
(* naive solution slows down with the size, and every one of up to          *)
(* MaxUneven sizes whatever its timings.                                    *)
(***************************************************************************)
EXTENDS Speedup

CONSTANT MaxUneven

\* Costs under one millisecond, under the cap, at it and over it.
MCCosts == {1, 3, 5, 8, 10}

MCInit == Init /\ (Monotone \/ problem.largest <= MaxUneven)

MCSpec == MCInit /\ [][Next]_vars /\ WF_vars(Search)
=============================================================================

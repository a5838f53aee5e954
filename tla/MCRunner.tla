------------------------------ MODULE MCRunner ------------------------------
(***************************************************************************)
(* The instance of Runner that TLC checks: a cap of two ticks and one of   *)
(* slack, with each end of a solution whose process starts at once, near   *)
(* the deadline or past it, and calls under, at and over the cap.          *)
(***************************************************************************)
EXTENDS Runner

MCPlans ==
    {p \in [start : {0, 1, 4}, load : {0, 1, 3}, calls : {<<1>>, <<2>>, <<1, 1>>, <<2, 1>>},
            end : Ends, catches : BOOLEAN, leaves : {"nothing", "process", "thread"}] :
        /\ (p.start > 0 \/ p.load > 1) => p.calls = <<1>>
        /\ p.leaves = "thread" => p.end \in {"returns", "stuck"}}
=============================================================================

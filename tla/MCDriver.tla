------------------------------ MODULE MCDriver ------------------------------
(***************************************************************************)
(* The instance of Driver that TLC checks: three questions, two calls in   *)
(* flight, two failures in a row; two configurations on one deployment and *)
(* a third on another.                                                     *)
(***************************************************************************)
EXTENDS Driver

CONSTANTS c1, c2, c3, d1, d2

MCPasses == {{2}, {1, 2, 3}}

MCDeployment == [c \in Configs |-> IF c = c3 THEN d2 ELSE d1]

Request(kind, configs, fresh, redo, limit) ==
    [kind |-> kind, configs |-> configs, fresh |-> fresh, redo |-> redo, limit |-> limit]

Whole(kind, configs, fresh, redo) == Request(kind, configs, fresh, redo, NItems)

\* Each command as it is run, by one configuration after another or by several.
MCRequests ==
    {Whole("match", {c1}, FALSE, FALSE), Whole("match", {c1}, TRUE, FALSE),
     Whole("match", {c2}, FALSE, FALSE),
     Whole("classify", {c1}, FALSE, FALSE), Whole("classify", {c2}, FALSE, TRUE),
     Whole("classify", {c2}, TRUE, TRUE),
     Whole("replay", {c1}, FALSE, FALSE), Whole("replay", {c1}, TRUE, FALSE),
     Whole("score", {c1, c2}, FALSE, FALSE), Request("score", {c1, c3}, FALSE, FALSE, 1)}
=============================================================================

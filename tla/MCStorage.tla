------------------------------ MODULE MCStorage ------------------------------
(***************************************************************************)
(* Storage on two threads: each on a handle of its own, as two commands    *)
(* are, or both on one, as two requests of the API are.                    *)
(***************************************************************************)
EXTENDS Storage

CONSTANTS t1, t2, h1, h2

OwnHandles == [t \in {t1, t2} |-> IF t = t1 THEN h1 ELSE h2]

OneHandle == [t \in {t1, t2} |-> h1]
==============================================================================

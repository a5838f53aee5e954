--------------------------- MODULE WritingPromise ----------------------------
(***************************************************************************)
(* What the pipeline promises of one writing, whatever runs carry it and   *)
(* wherever they die: it ends once.  It is rejected, and nothing lands, or *)
(* it lands as one problem, and no run lands it again.                     *)
(***************************************************************************)
EXTENDS Naturals

VARIABLES
  fate,     \* what a reader of the store and of the corpus finds
  problems  \* how many problems the writing became

vars == <<fate, problems>>

Fates == {"unwritten", "open", "rejected", "landed"}

Init == fate = "unwritten" /\ problems = 0

Open == fate = "unwritten" /\ fate' = "open" /\ UNCHANGED problems

Reject == fate = "open" /\ fate' = "rejected" /\ UNCHANGED problems

Land == fate = "open" /\ fate' = "landed" /\ problems' = problems + 1

Next == Open \/ Reject \/ Land

Spec == Init /\ [][Next]_vars
=============================================================================

--------------------------- MODULE StoragePromise ----------------------------
(***************************************************************************)
(* What a store's caller is promised of its writes: an operation either    *)
(* stores all of them at once and is answered, or raises and stores none.  *)
(***************************************************************************)
CONSTANTS
  Ops,         \* the operations
  WritesOf(_)  \* the writes of each

VARIABLES
  committed,  \* the writes the database holds
  answers     \* what each operation was answered

vars == <<committed, answers>>

Init ==
  /\ committed = {}
  /\ answers = [op \in Ops |-> "none"]

Done(op) ==
  /\ answers[op] = "none"
  /\ committed' = committed \cup WritesOf(op)
  /\ answers' = [answers EXCEPT ![op] = "done"]

Raised(op) ==
  /\ answers[op] = "none"
  /\ answers' = [answers EXCEPT ![op] = "raised"]
  /\ UNCHANGED committed

Next == \E op \in Ops : Done(op) \/ Raised(op)

Spec == Init /\ [][Next]_vars
=============================================================================

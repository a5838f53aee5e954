CONSTANTS
  t1 = t1
  t2 = t2
  h1 = h1
  h2 = h2
  Threads = {t1, t2}
  Handles = {h1, h2}
  HandleOf <- OneHandle
  Places = 2
  MaxOps = 2
SPECIFICATION Spec
INVARIANTS
  CommitsTogether
CHECK_DEADLOCK FALSE

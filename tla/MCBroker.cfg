CONSTANTS
  a = a
  b = b
  Requests = {a, b}
  Shapes <- MCShapes
  Start = 1
  Case = 1
  Wait = 2
  Docker = 2
  Margin = 1
SPECIFICATION Spec
INVARIANTS
  TypeOK
  AloneUnlessLeftBehind
  VerdictsAreOfWholeRuns
PROPERTIES
  GivesUpOnlyOnASlowKill
  EveryRunIsAnswered
CHECK_DEADLOCK FALSE

CONSTANTS
  c1 = c1
  c2 = c2
  Configs = {c1, c2}
  Nowhere = Nowhere
  Benches <- MCBenches
  Bounds = {1, 2}
  Unwalked = Unwalked
  CrashAt <- AllSteps
  RejectDuringRun = FALSE
  MaxCalls = 7
  MaxRuns = 3
SPECIFICATION Spec
INVARIANTS
  LandsOnce
CHECK_DEADLOCK FALSE

CONSTANTS
  r1 = r1
  r2 = r2
  Slots = {r1, r2}
  Ids = {1, 2}
  Idle = 1
  Window = 1
  Cap = 1
  MaxNow = 4
  MaxRequests = 5
  MaxRaced = 4
SPECIFICATION Spec
SYMMETRY SlotSymmetry
INVARIANTS
  TypeOK
  FailsOnlyInARace
  TimeIsWhatTheClockRan
  SubmissionsAreCapped
PROPERTIES
  EndedMovesOnlyInARace
CHECK_DEADLOCK FALSE

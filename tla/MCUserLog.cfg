SPECIFICATION Spec
CONSTANTS
    None = None
    Attempts = {a1}
    Calls = {k1}
    Sitting = s1
    MaxWriters = 4
INVARIANTS
    TypeOK
    ExportIsClosed
PROPERTY ErasureIsWhole
CHECK_DEADLOCK FALSE

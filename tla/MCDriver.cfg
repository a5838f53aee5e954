SPECIFICATION DriverSpec
CONSTANTS
    c1 = c1
    c2 = c2
    c3 = c3
    d1 = d1
    d2 = d2
    Nothing = Nothing
    Configs = {c1, c2, c3}
    Deployment <- MCDeployment
    NItems = 3
    Parts = {1, 2}
    Unasked = {3}
    Looped = {2}
    Concurrency = 2
    AbortAfter = 2
    Editable = {1}
    Edits = 1
    Passes <- MCPasses
    MaxRuns = 2
    Requests <- MCRequests
INVARIANTS
    DriverTypeOK
    NothingIsDropped
    NoneWaits
PROPERTIES
    CallsAreDue
CHECK_DEADLOCK FALSE

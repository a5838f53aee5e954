SPECIFICATION Spec
CONSTANTS
    None = None
    Requests = {r1, r2}
    Accounts = {google, github}
    Emails = {e1, e2}
    Users = {u1, u2}
    Cards = {c1}
    Cap = 1
    MaxRuns = 2
SYMMETRY MCSymmetry
INVARIANT FailsOnlyInARace
CHECK_DEADLOCK FALSE

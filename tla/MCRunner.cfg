SPECIFICATION RunnerSpec
CONSTANTS
    Cap = 2
    Slack = 1
    Cases = 2
    Plans <- MCPlans
INVARIANTS
    RunnerTypeOK
    VerdictIsTrue
PROPERTY EveryRunEnds
CHECK_DEADLOCK FALSE

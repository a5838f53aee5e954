CONSTANTS
    MaxSize = 6
    MaxUneven = 3
    Cap = 4
    Resolution = 2
    Margin = 2
    RepeatsMax = 8
    Shrinks = 3
    Costs <- MCCosts
SPECIFICATION MCSpec
CHECK_DEADLOCK FALSE
INVARIANTS TypeOK CaseSeparates MissingIsTrue
PROPERTY SearchEnds

CONSTANTS
    m1 = m1
    m2 = m2
    m3 = m3
    m4 = m4
    Mutants = {m1, m2, m3, m4}
    Built = 3
    Shapes <- MCShapes
    Proposals = 2
    Tries = 8
    Rounds = 2
SPECIFICATION Spec
CHECK_DEADLOCK FALSE
INVARIANTS TypeOK CountsAddUp SetKillsWhatItCounts
PROPERTIES ShrinksProgress
SYMMETRY MCSymmetry

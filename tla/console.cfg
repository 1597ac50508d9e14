CONSTANTS
    c1 = c1
    c2 = c2
    Keys <- MCKeys
    Mutations <- MCMutations
SPECIFICATION ConsoleSpec
INVARIANTS ConsoleInv
SYMMETRY Symmetry
CHECK_DEADLOCK FALSE

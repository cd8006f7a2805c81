SPECIFICATION Spec
CONSTANTS
    Nodes = {n1, n2}
    Groups = {g1, g2}
    Calls = {c1, c2}
    None = none
    Deltas = {1, 2}
    MaxCalls = 2
    MaxWrites = 2
SYMMETRY ScalingSymmetry
INVARIANT TypeOK
PROPERTIES RunningNotDecreased OwnGroupOnly ObjectSpec
CHECK_DEADLOCK FALSE

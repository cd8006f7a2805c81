SPECIFICATION FairSpec
CONSTANTS
    Nodes = {n1, n2}
    Groups = {g1}
    Calls = {c1}
    None = none
    Deltas = {1}
    MaxCalls = 2
    MaxWrites = 3
PROPERTIES TargetSizeStabilizes
CHECK_DEADLOCK FALSE

SPECIFICATION Spec
CONSTANTS
    Nodes = {n1, n2}
    Groups = {g1}
    Calls = {c1}
    None = none
    Deltas = {1}
    MaxCalls = 1
    MaxWrites = 1
PROPERTY NoMoreThanAsked
CHECK_DEADLOCK FALSE

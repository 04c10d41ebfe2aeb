SPECIFICATION Spec
CONSTANTS
    j1 = j1
    j2 = j2
    Jobs = {j1, j2}
    MaxId = 4
    MaxDepth = 4
    Old = 2
    MaxRequests = 3
    MaxCrashes = 1
SYMMETRY Symmetry
INVARIANT FamiliesAgree
INVARIANT FlatFamilies
INVARIANT StartsAgain
CHECK_DEADLOCK FALSE

SPECIFICATION Spec
CONSTANTS
    r1 = r1
    r2 = r2
    j1 = j1
    j2 = j2
    Routers = {r1, r2}
    Jobs = {j1, j2}
    Alone = TRUE
    MaxRequests = 4
    MaxFails = 2
    MaxCrashes = 1
SYMMETRY Symmetry
INVARIANT NoDuplicates
INVARIANT BoundIsProvisioned
INVARIANT BoundExists
INVARIANT Accounted
CHECK_DEADLOCK FALSE

SPECIFICATION Spec
CONSTANTS
    r1 = r1
    j1 = j1
    Routers = {r1}
    Jobs = {j1}
    Alone = TRUE
    MaxRequests = 3
    MaxFails = 0
    MaxCrashes = 0
INVARIANT KeyHeld
CHECK_DEADLOCK FALSE

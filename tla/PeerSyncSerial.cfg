SPECIFICATION Spec
CONSTANTS
    c1 = c1
    c2 = c2
    Clients = {c1, c2}
    j1 = j1
    Jobs = {j1}
    MaxAttempts = 2
    MaxRequests = 2
    MaxFails = 3
    MaxCrashes = 1
INVARIANT RepairOwed
PROPERTY MirrorSpec

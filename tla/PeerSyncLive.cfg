SPECIFICATION FairSpec
CONSTANTS
    c1 = c1
    Clients = {c1}
    j1 = j1
    j2 = j2
    Jobs = {j1, j2}
    MaxAttempts = 2
    MaxRequests = 1
    MaxFails = 2
    MaxCrashes = 1
INVARIANT QueueSound
PROPERTY Converges
PROPERTY ExpiredCutOff

SPECIFICATION FairSpec
CONSTANTS
    c1 = c1
    Clients = {c1}
    j1 = j1
    Jobs = {j1}
    MaxAttempts = 2
    MaxRequests = 0
    MaxFails = 1
    MaxCrashes = 1
PROPERTY OutageHeals

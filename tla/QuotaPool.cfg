SPECIFICATION AllSpec
CONSTANTS
    c1 = c1
    c2 = c2
    p1 = p1
    p2 = p2
    Clients = {c1, c2}
    Polls = {p1, p2}
    Limits = {1}
    Events = {"fail", "create", "crash"}
    MaxEvents = 2
    MaxTraffic = 1
    MaxPeriods = 0
INVARIANT NeverOverbilled
INVARIANT MarkedFamilyOff
PROPERTY OverrunEnds

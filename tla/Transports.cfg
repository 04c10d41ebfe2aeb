SPECIFICATION AllSpec
CONSTANTS
    a = a
    b = b
    t1 = t1
    t2 = t2
    Callers = {a, b}
    Transports = {t1, t2}
    MaxTag = 3
    MaxBroken = 2
    c1 = c1
    c2 = c2
    Calls = {c1, c2}
    maxRestarts = 2
    MaxUps = 3
    MaxDeaths = 1
INVARIANT EveryTypeOK
INVARIANT OwnAnswer
INVARIANT Usable
PROPERTY Answered
PROPERTY Settles
CHECK_DEADLOCK FALSE

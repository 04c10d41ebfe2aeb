SPECIFICATION FairSpec
CONSTANTS
    c1 = c1
    c2 = c2
    j1 = j1
    j2 = j2
    j3 = j3
    Clients = {c1, c2}
    Jobs = {j1, j2, j3}
    MaxEdits = 1
    MaxFails = 1
INVARIANT DropLast
PROPERTY Converges

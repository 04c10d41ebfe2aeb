SPECIFICATION FairSpec
CONSTANTS
    c1 = c1
    c2 = c2
    n1 = n1
    n2 = n2
    j1 = j1
    Clients = {c1, c2}
    Names = {n1, n2}
    Jobs = {j1}
    Threshold = 2
    MaxEdits = 3
    MaxFails = 3
PROPERTY NeverDropped
PROPERTY Converges

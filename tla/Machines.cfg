SPECIFICATION AllSpec
CONSTANTS
    Actors = {a, b}
    Tabs = {a, b}
    Values = {1, 2}
    MaxInputs = 5
    Groups = {1, 2, 3}
    Palette = {1, 2}
    MaxRequests = 5
    Headers = {1, 2}
    WgPorts = {1, 2}
    MaxChains = 3
    MaxErrors = 1
    Procs = {p1, p2, p3}
    MaxCalls = 4
    MaxExits = 1
    Users = {"bob"}
    Passwords = {1, 2}
    OtherPorts = {9000}
    MaxEdits = 2
    MaxImports = 2
    Peers = {1, 2}
    Cidrs <- TwoRanges
    FirstCidr <- SmallRange
    Rates <- TwoLimits
    Slots = 2
    MaxEvents = 5
    MaxFails = 2
    MaxTyped = 2
    Charted = {"c1", "c2"}
    Lookbacks = {2, 3}
    Widths <- TwoWidths
    Retention = 2
    MaxTime = 3
    MaxBytes = 2
    MaxChoices = 5
    Gone = Gone
INVARIANT EveryTypeOK
INVARIANT Shaped
INVARIANT Addressed
INVARIANT GroupsSound
INVARIANT HeadersSound
INVARIANT ResolverSound
INVARIANT DialogSound
INVARIANT Truthful
INVARIANT ThumbIsTrue
INVARIANT ChartsTrue
PROPERTY NoClobber
PROPERTY Deliberate
SYMMETRY Symmetry
CHECK_DEADLOCK FALSE

SPECIFICATION FairSpec
CONSTANTS
    j1 = j1
    j2 = j2
    Jobs = {j1, j2}
    MaxAttempts = 1
    Minute = 1
    Passwords = {1, 2}
    MaxKeys = 2
    MaxTokens = 1
    MaxChallenges = 1
    MaxRequests = 3
    MaxRestarts = 1
INVARIANT TotpProven
INVARIANT Admitted
INVARIANT AnswersBounded
PROPERTY LinksDie
CHECK_DEADLOCK FALSE

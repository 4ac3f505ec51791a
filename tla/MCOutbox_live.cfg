CONSTANTS
    Rows = {1, 2}
    Users = {u1}
    Requests = {q1}
    Runs = {w1}
    NoUser = NoUser
    NoClaim = NoClaim
    MaxAttempts = 2
    Limit = 1
    Base = 1
    Cap = 2
    MaxIterations = 2
    MaxFaults = 1
SPECIFICATION FairSpec
PROPERTY PendingResolves

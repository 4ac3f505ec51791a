CONSTANTS
    Rows = {1, 2}
    Users = {u1, u2}
    Requests = {}
    Runs = {w1, w2}
    NoUser = NoUser
    NoClaim = NoClaim
    MaxAttempts = 2
    Limit = 2
    Base = 1
    Cap = 1
    MaxIterations = 1
    MaxFaults = 0
SPECIFICATION Spec
SYMMETRY RunSymmetry
INVARIANTS TypeOK ClaimsExclusive OneSendPerClaim OverlapNeedsSlowRun
PROPERTY Delivers

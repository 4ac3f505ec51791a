CONSTANTS
    Writers = {1, 2}
    Threshold = 2
    OpenFor = 1
    MaxWrites = 3
    MaxFaults = 1
SPECIFICATION FairSpec
CHECK_DEADLOCK FALSE
INVARIANTS TypeOK PollIffBlind NothingAfterDispose BreakerEarned StaleIsCovered
PROPERTY Converges

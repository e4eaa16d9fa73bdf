SPECIFICATION FairSyncSpec
CONSTANTS
    Intervals = {60, 120}
    RetryAttempts = 2
    MaxRequests = 3
    Asks = {"request", "interval"}
INVARIANTS
    SleepsOverNothing
PROPERTIES
    RequestIsAnswered
    TimeIsDecided
CHECK_DEADLOCK FALSE

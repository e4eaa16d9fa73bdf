SPECIFICATION FairSpec
CONSTANTS
    QueueLength = 1
    StableCount = 2
    MaxSeconds = 1
    LongEvery = 1
    MaxStage = 1
    MaxHeld = 1
    MaxCalls = 1
INVARIANTS
    TouchBusIsExclusive
    EdgesAddUp
PROPERTY
    TouchIsSeen

SPECIFICATION FairSpec
CONSTANTS
    Producers = {p1, p2}
    Nobody = Nobody
    Sizes = {2}
    BufferSize = 4
    MaxFileSize = 4
    Slots = 1
    Sector = 2
    Chunk = 4
    Heads = {1}
    MaxRecords = 3
    MaxTurns = 2
CHECK_DEADLOCK FALSE
INVARIANTS
    FilesTurn
PROPERTIES
    ImplementsRecordLog
    FlushMeansOnCard
    EveryWriteReturns

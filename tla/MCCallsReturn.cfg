SPECIFICATION FairMCSpec
CONSTANTS
    task1 = task1
    task2 = task2
    RsvHead = RsvHead
    Inodes <- Both
    Regular <- Both
    FirstDataBlock = 1
    BlocksCount = 12
    BlocksPerGroup = 6
    GroupsCount = 2
    RootBlocks = 0
    Metadata <- MCMetadata
    ByteBits = 2
    GoalAlign = 4
    BackUp = 1
    DefaultReserve = 2
    MaxReserve = 3
    InitBitmap <- MCInitBitmap
    InitOwned <- MCOwned
    Goals = {6}
    MaxCount = 2
    RsvSizes = {1}
    QuotaLimit = 4
    HitCap = 3
    MaxCalls <- TwoCalls
    CounterLag = 0
    IOErrors = FALSE
    Sequential = FALSE
PROPERTIES
    DamageContained
    EveryCallReturns
CHECK_DEADLOCK FALSE

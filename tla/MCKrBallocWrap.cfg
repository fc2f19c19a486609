SPECIFICATION Spec
CONSTANTS
    i1 = i1
    i2 = i2
    RsvHead = RsvHead
    Inodes <- MCInodes
    Regular <- MCInodes
    FirstDataBlock = 1
    BlocksCount = 12
    BlocksPerGroup = 6
    GroupsCount = 2
    RootBlocks = 0
    Metadata <- MCMetadata
    ByteBits = 2
    GoalAlign = 4
    BackUp = 1
    DefaultReserve = 2
    MaxReserve = 3
    InitBitmap <- MCInitBitmap
    InitOwned <- MCNothingOwned
    Goals = {5, 6}
    MaxCount = 2
    RsvSizes = {1}
    QuotaLimit = 4
    HitCap = 3
    MaxCalls <- MCCalls22
    CounterLag = 0
    IOErrors = FALSE
    Sequential = FALSE
INVARIANT GroupCountInRange
CHECK_DEADLOCK FALSE

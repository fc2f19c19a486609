SPECIFICATION MCSpec
CONSTANTS
    t1 = t1
    t2 = t2
    Tasks <- MCTasks
    GroupsCount = 2
    InodesPerGroup = 3
    InodesCount = 6
    FirstIno = 3
    BlocksPerGroup = 4
    BlocksCount = 8
    BlockCounts <- MCBlockCounts
    OldAlloc = {FALSE}
    Parents <- MCParents
    InodeCost = 1
    BlockCost = 2
    DirShare = 3
    RoomShare = 3
    MaxDebt = 2
    InitBitmap <- MCInitBitmap
    InitLive <- MCLive
    InitDirs <- MCDirs
    CounterLag = 0
    IOErrors = FALSE
    MaxCalls <- MCCalls32
    Sequential = FALSE
INVARIANTS
    NoInodeTwice
    InodeAccountsAgree
    NoFalseAlarm
CHECK_DEADLOCK FALSE

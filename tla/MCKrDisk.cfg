SPECIFICATION MCSpec
CONSTANTS
    Policy = "continue"
    RemountFails = TRUE
    Binds = FALSE
    RevTooHigh = FALSE
    MaxDescBlocks = 6
    MaxGroups = 12
    MaxNumber = 3000
    GroupCounts = {1, 2, 4}
    BlockBits = {10, 11, 12}
    Uids = {0, 3}
    Sizes = {0, 1, 2, 5}
    Devs = {0, 1, 3}
    MaxFiles = 3
    t1 = t1
    file1 = file1
    file2 = file2
    RsvHead = RsvHead
INVARIANTS
    ValidMeansWhole
    CheckedWhenNeeded
    FillUnwinds
    LayoutIsRight
    InodesReadBack
    HandlesAreUnique
    SearchesFindRoom
PROPERTY
    OnlyRemountMakesWritable
CHECK_DEADLOCK FALSE

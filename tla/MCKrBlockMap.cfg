SPECIFICATION Spec
CONSTANTS
    t1 = t1
    t2 = t2
    Tasks <- MCTasks
    Kinds <- MCRace
    NDir = 1
    PtrBits = 1
    NBlocks = 5
    LastBlock = 4
    MaxRun = 2
    Trees <- MCTrees
    InitSize <- MCSize
    MaxForeign = 1
    IOErrors = FALSE
    AllocErrors = FALSE
    Dax = FALSE
    AppendOnly = FALSE
    MaxCalls <- MCCalls11
INVARIANTS
    TreeIsSound
    NothingLostOrHeld
    LookupsLinearize
    NoBlocksPastEOF
PROPERTY
    ImplementsFileMap
CHECK_DEADLOCK FALSE

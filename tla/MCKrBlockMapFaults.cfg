SPECIFICATION MCSpec
CONSTANTS
    t1 = t1
    t2 = t2
    Tasks <- MCTasks
    Kinds <- MCWriterOnly
    NDir = 1
    PtrBits = 1
    NBlocks = 5
    LastBlock = 7
    MaxRun = 1
    Trees <- MCTriple
    InitSize <- MCTripleSize
    MaxForeign = 0
    IOErrors = FALSE
    AllocErrors = TRUE
    Dax = FALSE
    AppendOnly = FALSE
    MaxCalls <- MCCalls20
INVARIANTS
    SoundUnderFaults
PROPERTY
    ImplementsFileMapUnlessIO
CHECK_DEADLOCK FALSE

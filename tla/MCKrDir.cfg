SPECIFICATION MCSpec
CONSTANTS
    r1 = r1
    Names <- MCNames
    RecLen <- MCLens
    MinRec = 2
    Inos = {3, 4}
    Chunk = 5
    ChunksPerPage = 2
    MaxChunks = 3
    Readers = {r1}
    Batch = 1
    IOErrors = FALSE
INVARIANTS
    DirectoryIsSound
    ScansAreRight
    OthersAreSound
PROPERTY
    RecordsImplementNames
CHECK_DEADLOCK FALSE

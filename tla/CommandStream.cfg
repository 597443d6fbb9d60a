SPECIFICATION Spec
CONSTANTS
    Chunks = {k1, k2, k3, k4}
    NoChunk = NoChunk
    ChunkSize = 2
    MaxCmds = 3
    MaxExecs = 2
    MaxDeferred = 3
    SingleUseModes = {TRUE, FALSE}
SYMMETRY ChunkSymmetry
INVARIANTS
    TypeOK
    ChunksOwned
    NothingStranded
PROPERTIES
    CommandsInOrder
    SynchronizeDrains

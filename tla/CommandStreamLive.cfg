SPECIFICATION FairSpec
CONSTANTS
    Chunks = {k1, k2, k3, k4}
    NoChunk = NoChunk
    ChunkSize = 1
    MaxCmds = 2
    MaxExecs = 1
    MaxDeferred = 2
    SingleUseModes = {TRUE}
PROPERTIES
    CallsReturn

SPECIFICATION FairSpec
CONSTANTS
    opaque = opaque
    blended = blended
    vs = vs
    fs = fs
    Pipelines = {opaque, blended}
    NoPipeline = NoPipeline
    MaxFaults = 2
    Shaders = {vs, fs}
    ShadersOf <- MCShadersOf
    c1 = c1
    c2 = c2
    Creators = {c1, c2}
    ShadersFrom <- MCShadersFrom
    Workers = {w1, w2}
    NoShader = NoShader
INVARIANTS
    TypeOK
    EntriesScheduled
    StoredOnce
PROPERTY
    NobodyWaits

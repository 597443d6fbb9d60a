SPECIFICATION Spec
CONSTANTS
    Slices = {s0, s1, s2}
    Origin = s0
    MaxCount = 1
    MaxPending = 2
    MaxDeferred = 1
    MaxLists = 2
    MaxFailures = 1
    SingleUseModes = {TRUE, FALSE}
SYMMETRY SliceSymmetry
CHECK_DEADLOCK FALSE
INVARIANTS
    TypeOK
    SlicesExclusive
    SafeReuse
    MappedIsNewest
    MapIsPrivate
    WaitsForSubmitted

SPECIFICATION Spec
CONSTANTS
    Size = 2
    Pools = {TRUE, FALSE}
    MaxPending = 2
    MaxVersion = 2
    MaxLocks = 2
INVARIANTS
    TypeOK
    WriteLockExclusive
    NothingForgotten
    DrawsSeeUpload

SPECIFICATION Spec
CONSTANTS
    Size = 2
    Pools = {FALSE}
    MaxPending = 2
    MaxVersion = 2
    MaxLocks = 2
INVARIANT
    ReadsAreCurrent

\* Liveness and wake-ups: async present, no failures, no symmetry. MaxQueued is
\* no smaller than the number of presenters, which SleeperHasWaker needs.
SPECIFICATION FairSpec
CONSTANTS
    CmdLists = {l1, l2, l3}
    Clients = {c1}
    Submitter = Submitter
    Finisher = Finisher
    Nobody = Nobody
    MaxQueued = 1
    RecyclerSize = 1
    MaxFailures = 0
    AsyncModes = {TRUE, FALSE}
    Calls = {"dirty", "await", "flush", "syncLock", "syncIdle"}
INVARIANT
    InFlightBound
PROPERTIES
    CallersWake
    ShutdownCompletes
    ListsRetired

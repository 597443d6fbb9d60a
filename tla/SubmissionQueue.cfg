\* Safety, with and without async present, one Vulkan failure. A failed
\* submission may leave callers asleep for good, hence no deadlock check.
SPECIFICATION Spec
CHECK_DEADLOCK FALSE
CONSTANTS
    CmdLists = {l1, l2}
    Clients = {c1, c2}
    Submitter = Submitter
    Finisher = Finisher
    Nobody = Nobody
    MaxQueued = 2
    RecyclerSize = 1
    MaxFailures = 1
    AsyncModes = {TRUE, FALSE}
    Calls = {"dirty", "await", "flush", "syncLock", "syncIdle"}
SYMMETRY Symmetry
INVARIANTS
    TypeOK
    ListOwnership
    PresenterQuiescent
    AsyncQueueExclusive
    WorkAccountedFor
    SleeperHasWaker
PROPERTY
    ListsInOrder

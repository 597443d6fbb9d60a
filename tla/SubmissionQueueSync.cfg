\* Without async present, presentImage uses the queue without locking it.
SPECIFICATION Spec
CONSTANTS
    CmdLists = {l1, l2}
    Clients = {c1, c2}
    Submitter = Submitter
    Finisher = Finisher
    Nobody = Nobody
    MaxQueued = 2
    RecyclerSize = 1
    MaxFailures = 0
    AsyncModes = {FALSE}
    Calls = {"dirty", "await", "flush", "syncLock", "syncIdle"}
INVARIANT
    LockedQueueIsExclusive

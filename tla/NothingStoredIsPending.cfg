\* A client that leaves between the write and the end of its sync.
SPECIFICATION Spec
CONSTANTS
    None = None
    Sessions = {s1, s2}
    MemoryIds = {m1}
    Names = {}
    MaxBatch = 1
    MaxSize = 2
    MaxRetryAttempts = 3
    StoreMayFail = FALSE
    MayDisconnect = TRUE
    KeepChoices = {TRUE}
    MayCrash = FALSE
    VersionsRecur = FALSE
    MaxVersion = 3
    MaxBlobs = 2
    MaxLog = 3
INVARIANTS
    NothingStoredIsPending

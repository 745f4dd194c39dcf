\* One request that adds two memories of one name.
SPECIFICATION Spec
CONSTANTS
    None = None
    Sessions = {s1, s2}
    MemoryIds = {m1, m2}
    Names = {n1}
    MaxBatch = 2
    MaxSize = 2
    MaxRetryAttempts = 3
    StoreMayFail = FALSE
    MayDisconnect = FALSE
    KeepChoices = {TRUE}
    MayCrash = FALSE
    VersionsRecur = FALSE
    MaxVersion = 3
    MaxBlobs = 2
    MaxLog = 3
INVARIANTS
    NamesUnique

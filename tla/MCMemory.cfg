\* Conflicts, rebases, names and restarts; failures, disconnects and limits.
SPECIFICATION MCSpec
CONSTANTS
    s1 = s1
    s2 = s2
    m1 = m1
    m2 = m2
    n1 = n1
    None = None
    Sessions = {s1, s2}
    MemoryIds = {m1, m2}
    Names = {n1}
    MaxBatch = 2
    MaxSize = 2
    MaxRetryAttempts = 3
    StoreMayFail = FALSE
    MayDisconnect = FALSE
    KeepChoices = {TRUE}
    MayCrash = TRUE
    VersionsRecur = FALSE
    MaxBlobs = 2
    MaxVersion = 3
    MaxLog = 3
SYMMETRY SessionSymmetry
INVARIANTS
    IndexSound
PROPERTIES
    NoLostUpdate
    PersistedMeansDurable

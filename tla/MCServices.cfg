\* One scenario each: loaders, requests, channel, torn frames, streams, overtaken and outgrown syncs.
SPECIFICATION MCSpec
CONSTANTS
    k1 = k1
    k2 = k2
    v1 = v1
    v2 = v2
    sh1 = sh1
    sh2 = sh2
    r1 = r1
    other = other
    NoValue = NoValue
    LKeys = {k1, k2}
    LValues = {v1, v2}
    Shards = {sh1, sh2}
    ShardOf <- MCShardOf
    Files <- MCFiles
    Launcher = Launcher
    Loaders = {Launcher, other}
    EntryLoaders = {other}
    Requests = {r1}
    LostRpcs = {"extend", "finish"}
    IdModulus = 4
    FrameCounts = {1, 2}
    SocketTimeouts = TRUE
    TornPieces = 2
    CallersLeave = TRUE
    MaxCalls = 4
    Plaintext = {hello, bye, huge}
    TooLarge = {huge}
    Damaged = Damaged
    MaxSequence = 4
    U32Max = 6
    WindowSize = 2
    Null = Null
    Streams = {"a", "b"}
    Concurrent = {"a"}
    ClientKeys = {1}
    GrpcErrors = {"a"}
    MaxRequests = 2
    None = None
    Sessions = {s1, s2}
    MemoryIds = {m1}
    Names = {}
    MaxBatch = 1
    MaxSize = 1
    MaxRetryAttempts = 3
    StoreMayFail = FALSE
    MayDisconnect = FALSE
    KeepChoices = {TRUE}
    MayCrash = TRUE
    VersionsRecur = TRUE
    MaxBlobs = 1
    MaxVersion = 4
    MaxLog = 1
\* Calls through the channel and requests to the service are bounded.
CHECK_DEADLOCK FALSE
INVARIANTS
    TypeOK
    WindowSound
    AnswerIsOwn
PROPERTIES
    RefusalIsFinal
    AbstractSpec
    ConsistentView
    UpdateIsExact
    UpdateEnds
    CallsEnd
    StreamsDrain
    SyncTerminates

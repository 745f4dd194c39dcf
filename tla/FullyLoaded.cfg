\* The finish of the first update is lost.
SPECIFICATION MCFunctionsSpec
CONSTANTS
    k1 = k1
    k2 = k2
    v1 = v1
    v2 = v2
    sh1 = sh1
    sh2 = sh2
    r1 = r1
    other = other
    NoValue = NoValue
    LKeys = {k1, k2}
    LValues = {v1, v2}
    Shards = {sh1, sh2}
    ShardOf <- MCShardOf
    Files <- MCFiles
    Launcher = Launcher
    Loaders = {Launcher, other}
    EntryLoaders = {other}
    Requests = {r1}
    LostRpcs = {"finish"}
    IdModulus = 4
    FrameCounts = {1, 2}
    SocketTimeouts = TRUE
    TornPieces = 2
    CallersLeave = TRUE
    MaxCalls = 4
\* Calls through the channel are bounded.
CHECK_DEADLOCK FALSE
INVARIANTS
    FullyLoaded

\* One scenario each: the ordered crypter, the attestation decision, tables, kernel memory, descriptors, stage 0, proxies.
SPECIFICATION MCSpec
CONSTANTS
    hello = hello
    bye = bye
    huge = huge
    Plaintext = {hello, bye, huge}
    TooLarge = {huge}
    Damaged = Damaged
    MaxSequence = 3
    U32Max = 6
    Ids = {"i1", "i2"}
    k1 = k1
    k2 = k2
    HKeys = {k1, k2}
    KeyLen = 8
    ValueLens = {20, 109}
    HashBytes = {0, 1}
    HashTop = 3
    ChunkSize = 128
    Reservations = {0, 2}
    Absent = Absent
    MaxData = 140
    BitmapLen = 18
    PoolSize = 8
    InitialTables = 3
    TableCounts = {0, 1, 2}
    UserPages = 6
    HeapPages = 3
    MAX_PROCESSES = 2
    MemoryMaps <- MCMemoryMaps
    Programs <- MCPrograms
    MmapCounts = {1, 2}
    Layer0Len = 2
    Layer1Len = 3
    KeyBytes = 2
    MAX_EVENT_LOG_SIZE = 3
    Bytes = {8, 9}
    MaxBuf = 2
    MaxDescriptorCalls = 6
    E820Tables <- MCE820Tables
    MaxE820 = 8
    Page = 2
    GapStart = 8
    SmbiosStart = 10
    OneMiB = 12
    Heap <- MCHeap
    HugePage = 16
    KernelStart = 32
    TopOfMemory = 80
    HighMemSize = 10
    Rom <- MCRom
    Ebda <- MCEbda
    BootData <- MCBootData
    KernelSizes = {8, 29}
    InitrdSizes = {0, 5, 24}
    Addresses <- MCAddresses
    Capacity = 2
    ChunkPlans <- MCChunkPlans
    PingPayloads = {1, 2}
    MayBreak = TRUE
\* The kernel may panic, and bounded calls run out.
CHECK_DEADLOCK FALSE
INVARIANTS
    FaithfulDelivery
    PassIsEarned
    TableSound
    KernelSound
    DescriptorsSound
    LoadedApart
    TunnelSound
PROPERTIES
    UnverifiedIsNeutral
    MapSpec
    MappingsStay
    E820Spec

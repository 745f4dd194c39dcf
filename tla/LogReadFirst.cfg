\* A write to the event log that nobody has read.
SPECIFICATION DescriptorsSpec
CONSTANTS
    Layer0Len = 2
    Layer1Len = 3
    KeyBytes = 2
    MAX_EVENT_LOG_SIZE = 3
    Bytes = {8, 9}
    MaxBuf = 2
    MaxDescriptorCalls = 4
\* Bounded calls run out.
CHECK_DEADLOCK FALSE
INVARIANT
    LogReadFirst

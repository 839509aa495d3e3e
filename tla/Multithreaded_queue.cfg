\* Two clients, two workers that may die, every thread scheduled fairly.
SPECIFICATION FairSpec
CONSTANTS
    ByteBase = 3
    Clients = {c1, c2}
    Workers = {w1, w2}
    Payloads <- OneKind
    Throwing <- OneKind
    ChunkSizes <- WholeFrames
    MaxSends = 1
INVARIANTS
    MutexHeldByWorkerInside
    ProcessedInPushOrder
PROPERTIES
    ImplementsPacketStream
    QueueDrains
CHECK_DEADLOCK FALSE

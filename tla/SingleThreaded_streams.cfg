\* Two clients that may send empty packets, cut and joined on the way; the
\* thread scheduled fairly.
SPECIFICATION FairSpec
CONSTANTS
    ByteBase = 3
    Clients = {c1, c2}
    Payloads <- EmptyToo
    Throwing <- OneKind
    ChunkSizes <- SomeSizes
    MaxSends = 2
INVARIANTS
    TypeOK
    StreamKept
    BytesConserved
PROPERTIES
    ImplementsPacketStream
    EveryPacketProcessed
CHECK_DEADLOCK FALSE

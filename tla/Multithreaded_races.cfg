\* One client whose packets arrive cut anywhere, no worker.
SPECIFICATION Spec
CONSTANTS
    ByteBase = 3
    Clients = {c1}
    Workers = {}
    Payloads <- TwoKinds
    Throwing = {}
    ChunkSizes <- SomeSizes
    MaxSends = 2
INVARIANTS
    TypeOK
    BytesConserved
    StreamKept
    LoopParsesTheCopy
PROPERTIES
    ImplementsPacketStream
CHECK_DEADLOCK FALSE

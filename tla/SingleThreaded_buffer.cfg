\* One client whose packet arrives in two parts.
SPECIFICATION Spec
CONSTANTS
    ByteBase = 3
    Clients = {c1}
    Payloads <- OneKind
    Throwing = {}
    ChunkSizes <- AllSizes
    MaxSends = 1
INVARIANTS
    BufferContainsAllFromRecv
CHECK_DEADLOCK FALSE

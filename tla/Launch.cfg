\* No worker, the default, two threads that become four, one and two workers.
SPECIFICATION FairSpec
CONSTANTS
    Options = {0, 1, 2, 3, 4}
    Peers <- MCPeers
    MaxSends <- MCMaxSends
INVARIANTS
    TypeOK
    HandledInOrder
    LossesAreRepeats
PROPERTIES
    DirectlyReadIsHandled
CHECK_DEADLOCK FALSE

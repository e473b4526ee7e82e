SPECIFICATION Spec
CONSTANTS
    Addr = {a1, a2}
    MaxPeers = 3
    MaxSends = 3
    MaxReplies = 2
INVARIANTS
    StreamsOk
PROPERTIES
    OnlyOlderCloseOrphans
    ImplementsDatagrams
CHECK_DEADLOCK FALSE

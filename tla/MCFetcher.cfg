\* Two nodes of three Peer objects, three tasks, one more than the window of
\* next() lets go at a time: every job can be retried on the other peer.
SPECIFICATION FairSpec
CONSTANTS
    r1 = r1
    r2 = r2
    l1 = l1
    Peers <- MCPeers
    Id <- MCId
    Libp2p <- MCLibp2p
    Total = 3
    MaxQueue = 1
    HWM = 1
    WriterHWM = 2
CHECK_DEADLOCK FALSE
INVARIANTS
    TaskConservation
    OneRequestPerPeer
    StoredInOrder
    BacklogBounded
PROPERTIES
    ImplementsOrderedDownload
    FetchResolves

SPECIFICATION Spec
CONSTANTS
    KEY_BITLEN = 3
    BYTE = 1
    mOwnId <- MCOwn
    Addr <- MCAddr
    Peers <- MCPeers
    PeerFlag = {0, 1}
    NODES_PER_BUCKET = 2
    MAX_SEND_PERIOD = 1
    MAX_RECV_PERIOD = 1
    MaxTime = 2
INVARIANTS
    TypeOK
    KnownOnce
    BucketsBounded
    SortedByRecvTime
    NearestInTargetBucket
PROPERTY
    EvictionJustified

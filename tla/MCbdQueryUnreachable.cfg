SPECIFICATION Spec
CONSTANTS
    KEY_BITLEN = 2
    BYTE = 1
    mId <- MCId
    Peers <- MCPeers
    NODES_PER_BUCKET = 2
    QUERY_START_PEERS = 1
    MIN_QUERY_AGE = 1
    MAX_QUERY_AGE = 1
    EXPECTED_REPLY = 0
    IDLE_RETRY_PEER_PERIOD = 0
    MaxTime = 3
    MaxHeard = 3
INVARIANT UnreachableWasReported

SPECIFICATION Spec
CONSTANTS
    NodeIds <- ids
    Addrs = {"a", "b", "c"}
    OwnId <- me
    TransIds = {"t"}
    Version = "v"
    BootFile = {"a"}
    WhiteNodes = {}
    MaxMsgs = 2
    AllowedPings = 1
    MaxEntries = 2
    MinEntries = 2
    MaxRemoteQueryAge = 1
    NeighbourPeers = 1
    BroadcastPeriod = 2
    MaxMsgPerTick = 2
    Worlds <- worlds
    MaxLoad = 2
    MaxQueries = 2
    TunnelPeers <- tunnelPeers
    TunnelOwnId = "me"
    TunnelTransIds = {"t"}
    TunnelDatagrams <- tunnelDatagrams
    MAX_STARTUP_TIME = 1
    MAX_REFRESH_TIME = 1
    TUNNEL_MAX_MSG_PER_TICK = 2
    MaxTunnelLoad = 1
    HashIds = {1, 2}
    Keys = {"k"}
    Values = {"v"}
    Secrets = {"s", "u"}
    NoSecret = ""
    Lifetimes = {0, 1}
    MaxHashTime = 1
    MaxHashEntries = 2
INVARIANTS
    TypeOK
    OffKeepsNothing
    FileWorthReading
    TunnelOnce
PROPERTIES
    OnlyFreshWait
    QueriesServed
    PotentialPinged
    ConnectedAsked
    SecretProtects
    SecretlessKept

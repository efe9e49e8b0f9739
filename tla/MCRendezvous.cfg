SPECIFICATION FairSpec
CONSTANTS
    a = a
    b = b
    relay = relay
    None = None
    Node = {a, b, relay}
    Addr <- MCAddr
    HomeAddr <- MCHomeAddr
    NATed = {a, b}
    WhiteList <- MCWhiteList
    BootList <- MCBootListOld
    Wants <- MutualWants
    MaxEntries = 2
    MaxUpsets = 1
INVARIANTS
    TypeOK
    PunchJustified
    StoreByAddress
PROPERTY MutualRequestsMeet

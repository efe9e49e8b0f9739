SPECIFICATION Spec
CONSTANTS
    a = a
    b = b
    relay = relay
    None = None
    Node = {a, b, relay}
    Addr <- MCAddr
    HomeAddr <- MCHomeAddr
    NATed = {a, b}
    WhiteList <- MCWhiteList
    BootList <- MCBootList
    Wants <- MutualWants
    MaxEntries = 2
    MaxUpsets = 0
INVARIANT AskConnNamesReceiver

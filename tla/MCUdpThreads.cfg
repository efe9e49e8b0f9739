SPECIFICATION FairSpec
CONSTANTS
    Receiver = {dht, tunnel}
    RecvThread = {t1, t2}
    App = {a}
    Resetter = {a}
    NoThread = NoThread
    MAX_MSG_PER_TICK = 1
    MaxOut = 2
INVARIANTS
    TypeOK
    ReadsOpenSocket
    OneListener
    OffersToRegistered
    SentBeforeNextTurn
PROPERTIES
    CallsReturn
    TurnsGoOn

SPECIFICATION Spec
CONSTANTS
    Id = {own, fixed, x}
    mOwnId = own
    SelfSearches <- OwnSearch
    own = own
    fixed = fixed
    x = x
    AppId = {own, x}
    Verdict = {"FAILURE", "SUCCESS"}
    MAX_STARTUP_TIME = 0
    MAX_FINDSELF_TIME = 0
    MAX_REFRESH_TIME = 0
    MinAsked = 1
    MaxAge = 1
    MaxQueries = 1
INVARIANTS
    TypeOK
    QueryingHasQuery
    OneQueryEach
    IdleSearchKept
PROPERTIES
    ImplementsSearch

SPECIFICATION FairSpec
CONSTANTS
    c1 = c1
    c2 = c2
    Clients = {c1, c2, c3}
    Event = Event
    Free = Free
    NoFun = NoFun
    Callbacks = {f1, f2}
    MaxNodes = 3
    Calls <- MCCalls
INVARIANTS
    TypeOK
    EventUsesLiveDriver
    ResultStableInCallback
    ResultIsFresh
    EngineHasOneUser
PROPERTIES
    ListStableWhileScanned
    ResultReported
    StoppedDeleteReturns

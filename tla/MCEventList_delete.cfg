SPECIFICATION FairSpec
CONSTANTS
    c1 = c1
    c2 = c2
    Clients = {c1, c2}
    Event = Event
    Free = Free
    NoFun = NoFun
    Callbacks = {f1}
    MaxNodes = 2
    Calls <- MCCalls
PROPERTY DeleteReturns

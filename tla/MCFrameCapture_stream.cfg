SPECIFICATION FairSpec
CONSTANTS
    c1 = c1
    c2 = c2
    Clients = {c1, c2}
    Image = Image
    Free = Free
    NULL = NULL
    NoBuf = NoBuf
    OldModes = {0, 1}
    OldReady = {TRUE, FALSE}
    Bufs = {b1, b2}
    First = b1
    Handlers = {h1}
    ModeValues = {1}
    Calls <- StreamCalls
INVARIANTS
    CallbackFrameReady
PROPERTIES
    DeleteReturns
    RegisterReturns

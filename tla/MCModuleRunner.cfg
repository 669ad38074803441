SPECIFICATION FairSpec
CONSTANTS
    None = None
    Params = {"ThreshValue", "MirrorX", "Width", "Height"}
    Values <- MCValues
    Counts = {1}
INVARIANTS
    TypeOK
    DeviceOutlivesExecute
    FinishedMeansDone
    InputsAreOwn
    CountIsOwn
PROPERTIES
    ImplementsService
    DeleteReturns
    ExecuteReturns

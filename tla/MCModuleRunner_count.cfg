SPECIFICATION Spec
CONSTANTS
    None = None
    Params = {"ThreshValue"}
    Values <- MCValues
    Counts = {1, 2}
PROPERTIES
    CountIsLatest

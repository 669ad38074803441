SPECIFICATION Spec
CONSTANTS
    None = None
    Params = {"MirrorX", "MirrorY"}
    Values <- MCValues
    Counts = {1}
INVARIANTS
    FlagsAreOwn

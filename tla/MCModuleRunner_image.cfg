SPECIFICATION Spec
CONSTANTS
    None = None
    Params = {"MirrorX"}
    Values <- MCValues
    Counts = {1}
PROPERTIES
    OutputImageReadable

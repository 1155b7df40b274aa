SPECIFICATION Spec
CONSTANTS
    Data = {"d", "t"}
    Size = 3
    Tool = "monitor"
    Frames <- MCFrames
    TextBytes = {"t"}
    Lossable = {}
    MaxItems = 2
    MaxLosses = 0
INVARIANTS
    RoundTrip
CHECK_DEADLOCK FALSE

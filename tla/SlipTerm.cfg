SPECIFICATION Spec
CONSTANTS
    Data = {"d", "t"}
    Size = 3
    Tool = "slipterm"
    Frames <- MCFrames
    TextBytes = {"t"}
    Lossable = {"d", "ESC", "ESC_END", "ESC_ESC"}
    MaxItems = 2
    MaxLosses = 2
INVARIANTS
    TypeOK RoundTrip NoMixing
CHECK_DEADLOCK FALSE

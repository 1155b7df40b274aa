SPECIFICATION Spec
CONSTANTS
    Text <- MCText
    MAX_SIZE = 2
    WordMod = 100
    EntryPoint = 2
    TERMINATE_EXECUTION = 76
    A6Values = {0}
    FaultCauses = {4, 13}
    StrayWords = {28, 30}
    MaxWork = 4
    CallSize = 2
    AccessSize = 4
    Params = 0
PROPERTIES
    ContextRestored

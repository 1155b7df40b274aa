SPECIFICATION FairSpec
CONSTANTS
    Text <- MCText
    MAX_SIZE = 2
    WordMod = 100
    EntryPoint = 2
    TERMINATE_EXECUTION = 76
    A6Values = {0, 2, 3}
    FaultCauses = {4, 13}
    StrayWords = {10, 32, 36}
    MaxWork = 4
    CallSize = 2
    AccessSize = 4
    Params = 2
INVARIANTS
    TypeOK IInv Balanced Mirror NoFalseAlarm ControlInImage
PROPERTIES
    PolicySpec EventuallyTerminates

SPECIFICATION Spec
CONSTANTS
    STD_C_FUNCS = {"printf"}
    MAX_SIZE = 63
    WordMod = 200
    Text <- MCText
    EntryPoint <- MCEntry
    TERMINATE_EXECUTION = 190
    A6Values = {0}
    FaultCauses = {}
    StrayWords = {}
    MaxWork = 7
INVARIANTS
    SampleRuns

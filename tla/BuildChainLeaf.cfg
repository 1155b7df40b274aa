SPECIFICATION Spec
CONSTANTS
    STD_C_FUNCS = {"printf", "abs"}
    UserFiles = {"a", "b"}
    System = "system"
    OUTPUT = "out"
    SystemLines <- MCSystemLines
    Listing <- MCListing
    Projects <- MCProjects
    Edits <- MCEdits
    MaxCommands = 3
    Missing = Missing
    Broken = Broken
INVARIANTS
    LeavesSkipped
CHECK_DEADLOCK FALSE

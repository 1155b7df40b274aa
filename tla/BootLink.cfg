SPECIFICATION FairSpec
CONSTANTS
    Commands = {"info", "readmem", "readflash", "flash"}
    Words <- MCWords
    FileLists <- MCFileLists
    Devices = {"esp8266", "esp32c3"}
    MaxSync = 3
    SyncReplies = 2
    MayRefuse <- MCMayRefuse
INVARIANTS
    TypeOK FlashedRight ReadsRight
PROPERTIES
    EventuallyStops Works RefusalsSeen
CHECK_DEADLOCK FALSE

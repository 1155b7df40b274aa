SPECIFICATION Spec
CONSTANTS
    Commands = {"info", "readmem", "readflash", "flash"}
    Words <- MCWords
    FileLists <- MCFileLists
    Devices = {"esp8266", "esp32c3"}
    MaxSync = 3
    SyncReplies = 2
    MayRefuse <- MCMayRefuseId
PROPERTIES
    RefusalsSeen
CHECK_DEADLOCK FALSE

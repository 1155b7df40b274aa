SPECIFICATION Spec
CONSTANTS
    LineLen = 16
    Bank = 256
    Elfs <- MCElfs
    DataFiles <- UnalignedDataFiles
    Chips = {"esp32", "esp32c3"}
    BootloaderAt <- MCBootloaderAt
    Fpars <- MCFpars
    OldHeaders <- MCOldHeaders
    BlockSize = 32
    FlashSize = 384
INVARIANTS
    RoundTrip
CHECK_DEADLOCK FALSE

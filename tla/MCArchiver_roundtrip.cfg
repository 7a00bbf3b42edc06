\* Every short file, as compression and decompression leave it.
CONSTANTS
    ByteBase = 4
    Threshold = 2
    Window = 5
    Originals <- AllShort
    Filed <- Some
    FileNames = {"a"}
    EntryCells = 2
    MaxEntries = 1
    MaxWriteErrors = 0
SPECIFICATION ArchiverSpec
INVARIANTS DecompressionReverses
CHECK_DEADLOCK FALSE

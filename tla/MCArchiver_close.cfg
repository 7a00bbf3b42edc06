\* Archives of files that nothing repeats in, as they are closed and opened again.
CONSTANTS
    ByteBase = 4
    Threshold = 2
    Window = 5
    Originals <- Some
    Filed <- Plain
    FileNames = {"a", "b"}
    EntryCells = 2
    MaxEntries = 2
    MaxWriteErrors = 0
SPECIFICATION ArchiverSpec
INVARIANTS ExtractionGivesBack
CHECK_DEADLOCK FALSE

\* One script of up to four statements.
CONSTANTS
    Statements <- CycleStatements
    AllStatements <- CycleStatements
    Numerals <- NumeralWords
    Spaced <- SingleSpaces
    Sums <- NoSums
    Generated <- GeneText
    Fitness = {0, 1}
    LoopLimit = 2
    PoolRoom = 4
    CopyRoom = 2
    TokenRoom = 32
    MaxGiven = 4
    MaxScripts = 1
SPECIFICATION ScriptSpec
INVARIANTS VerificationsAreRecorded
CHECK_DEADLOCK FALSE

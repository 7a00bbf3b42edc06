\* Small instances of thirteen parts; deadlock is off, since each comes to the end
\* of its bounds.
CONSTANTS
    \* pool
    Digits <- BinaryDigits
    GeneLength = 1
    Count = 6
    AssocTop = 1
    Scale = 3
    Score <- AnyScore
    Seeds <- OneSeed
    Questions = {q1, q2, q3}
    Answers = {a1}
    MaxExamples = 1
    PoolLimit = 2
    FormulaLimit = 1
    MaxTicks = 1
    MaxGenerations = 1
    MaxTold = 4
    MaxFeedback = 2
    \* queue
    e1 = e1
    e2 = e2
    none = none
    Events = {e1, e2}
    MaxOchered = 3
    Nothing = none
    \* archiver
    ByteBase = 4
    Threshold = 2
    Window = 5
    Originals <- ShortFiles
    Filed <- SomeFiles
    FileNames = {"a", "b"}
    EntryCells = 2
    MaxEntries = 2
    MaxWriteErrors = 1
    \* symbol table
    Symbols = {"a", "b", "c", "d", "e", "f"}
    Defaults <- SomeDefaults
    SymbolMax = 4
    DigitSpace = 6
    Formers <- SomeFormers
    MaxTables = 2
    \* simulation
    LogCapacity = 5
    View = 2
    MaxPushed = 16
    \* cloud storage
    Names = {"u"}
    Workers = {w1, w2}
    w1 = w1
    w2 = w2
    Sizes = {1, 2}
    Limit = 3
    Torn = torn
    torn = torn
    NoUser = nouser
    nouser = nouser
    MaxRequests = 4
    \* Python swarm
    Sims = {s1, s2}
    s1 = s1
    s2 = s2
    Stimuli = {"q"}
    Replies = {1, 2}
    NoReply = 0
    PopulationLimit = 3
    FirstLimit = 3
    LogLimits = {2}
    MaxMade = 2
    MaxLessonsGiven = 2
    MaxSwarms = 2
    \* ledger
    FrameCells = 3
    MaxFrames = 4
    MaxFaults = 2
    \* parser
    Programs <- SomePrograms
    Quoted <- TwoWords
    Idents = {"f", "x"}
    Slips = {"newline", "end", "else"}
    MaxSlips = 2
    \* interpreter
    Statements <- SomeStatements
    AllStatements <- SomeBlocks
    Numerals <- NumeralWords
    Spaced <- Doubled
    Sums <- OneSum
    Generated <- GeneText
    Fitness = {0, 1}
    LoopLimit = 2
    PoolRoom = 4
    CopyRoom = 2
    TokenRoom = 3
    MaxGiven = 4
    MaxScripts = 2
    \* search
    DocCount = 5
    MaxScore = 3
    AsFloat <- Floats
    SearchLimits = {2, 3}
    \* knowledge server
    Servers = {k1, k2}
    k1 = k1
    k2 = k2
    Requests <- SomeRequests
    Previews <- SomePreviews
    Room = 3
    Lessons = 3
    FoundMost = 4
    MaxServed = 2
    MaxStarts = 2
    \* feedback service
    Posts = {p1, p2}
    p1 = p1
    p2 = p2
    MaxPosts = 4
    MaxMishaps = 2
SPECIFICATION ServicesSpec
SYMMETRY QuestionSymmetry
INVARIANTS BestFirst OneAnswerPerQuestion
    RestoresWhatWasStored SymbolsKeepTheirDigits
    CloudKeepsBooks SwarmKeepsAndSpreads
    LogsAreFaithful LedgerReadsBack ExecutesWhatIsWritten ScriptsKeepFaith
    KnowledgeIsServed OpinionsAreKept
PROPERTIES NeverWorse BestLearns ImplementsWindow
CHECK_DEADLOCK FALSE

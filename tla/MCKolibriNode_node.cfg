\* A node with three formulas, and neighbours that send the better gene.  The
\* exchange: two nodes and a coordinator with places for one connection; a process
\* dies or a send fails, and others may die of it.
CONSTANTS
    Digits <- BinaryDigits
    GeneLength = 1
    Count = 3
    AssocTop = 1
    Scale = 2
    Score <- OneBetter
    Seeds <- OneSeed
    Questions = {q1}
    Answers = {a1}
    MaxExamples = 1
    PoolLimit = 1
    FormulaLimit = 1
    MaxTicks = 2
    MaxGenerations = 1
    MaxTold = 1
    MaxFeedback = 1
    Inputs = {4}
    Reply <- OwnDigit
    PeerGenes <- BetterGene
    MaxOthers = 3
    MaxLost = 1
    MaxBoots = 2
    n1 = n1
    n2 = n2
    Nodes = {n1, n2}
    Coordinator = c
    GeneIds = {1, 2}
    NoGene = 0
    RulesOf <- EachItsOwn
    Targets <- BothNodes
    Neighbour <- Star
    Backlog = 1
    MaxShares = 3
    MaxFaults = 1
SPECIFICATION PartSpec
INVARIANTS ChangesAreRecorded JunkIsNotBred ExchangeInv
PROPERTIES MarkHitsAnswerer BestSpreads
CHECK_DEADLOCK FALSE

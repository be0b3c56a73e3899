SPECIFICATION StoresSpec
CONSTANTS
    mine = mine
    theirs = theirs
    pack = pack
    Words = {mine, theirs}
    Own = {mine}
    Packs = {pack}
    Foreign <- ForeignArchives
    MaxArchives = 2
    MaxImports = 2
    MaxFaults = 1
    MaxMisses = 1
    MaxUnwritten = 1
    MaxRuns = 0
    MaxEntries = 2
    IndexCap = 3
    Budgets = {0, 3}
    MaxText = 2
    Values = {"a", "b"}
    MaxSlots = 2
    Remembered = 1
    Imported <- ImportedSnippets
PROPERTY RescueHoldsTheSession
CHECK_DEADLOCK FALSE

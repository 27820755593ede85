SPECIFICATION Spec
CONSTANTS
    a = a
    b = b
    p = p
    q = q
    c1 = c1
    c2 = c2
    NoEntry = NoEntry
    NoId = NoId
    NoLine = NoLine
    Ids <- MCIds
    Paths <- MCPaths
    Callers <- MCAlone
    WritesFail = TRUE
    MaxChanges = 3
    MaxCrashes = 1
INVARIANTS
    TypeOK
    UnmarkedIsSaved
    IndexNamesAnEntry
PROPERTIES
    ImplementsDurableMap
SYMMETRY Symmetric

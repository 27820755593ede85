SPECIFICATION Spec
CONSTANTS
    NoHash = NoHash
    NoFile = NoFile
    NoBase = NoBase
    MultipleBases = MultipleBases
    NoEntry = NoEntry
    NoHead = NoHead
    NoPath = NoPath
    NoText = NoText
    NoId = NoId
    Binary = {}
    Regions = {1}
    Devices = {1, 2}
    p = p
    q = q
    Paths = {p, q}
    Born = {p, q}
    Notes <- MCOwnNotes
    Decisions = {"defer"}
    AnyPath = TRUE
    OpsOfFirst = 1
    OpsOfSecond = 3
    MaxOps <- MCOps
    MaxLog = 7
PROPERTIES
    NothingIsOverwritten

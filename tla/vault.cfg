SPECIFICATION Spec
CONSTANTS
    NoHash = NoHash
    NoFile = NoFile
    NoBase = NoBase
    MultipleBases = MultipleBases
    NoEntry = NoEntry
    NoHead = NoHead
    NoPath = NoPath
    NoText = NoText
    NoId = NoId
    Binary = {}
    Regions = {1}
    Devices = {1, 2}
    p = p
    q = q
    Paths = {p, q}
    Born = {p}
    Notes <- MCNotes
    Decisions = {"defer", "keep_modified"}
    AnyPath = FALSE
    OpsOfFirst = 2
    OpsOfSecond = 2
    MaxOps <- MCOps
    MaxLog = 7
INVARIANTS
    TypeOK
    RegistryIsTheVault
    SharedIdsAgree
PROPERTIES
    NothingIsOverwritten

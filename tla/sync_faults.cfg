SPECIFICATION FairSpec
CONSTANTS
    NoHash = NoHash
    NoFile = NoFile
    NoBase = NoBase
    MultipleBases = MultipleBases
    NoEntry = NoEntry
    NoHead = NoHead
    NoPath = NoPath
    NoRound = NoRound
    Binary = {}
    p = p
    q = q
    Files = {f1}
    f1 = f1
    Regions = {p, q}
    Typable <- MCTypable
    Devices = {1, 2}
    EditsOfFirst = 1
    EditsOfSecond = 1
    MaxEdits <- MCEdits
    MaxFaults = 1
    MaxLog = 6
INVARIANTS
    AppliedUpToCursor
    BaseIsFound
PROPERTIES
    OpsLeaveOnlyInFolds
    EventuallyConverges

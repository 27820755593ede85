SPECIFICATION Spec
CONSTANTS
    NoHash = NoHash
    NoFile = NoFile
    NoBase = NoBase
    MultipleBases = MultipleBases
    NoEntry = NoEntry
    NoHead = NoHead
    NoPath = NoPath
    NoRound = NoRound
    Binary = {}
    p = p
    q = q
    Files = {f1}
    f1 = f1
    Regions = {p, q}
    Typable <- MCTypable
    Devices = {1, 2}
    EditsOfFirst = 1
    EditsOfSecond = 2
    MaxEdits <- MCEdits
    MaxFaults = 0
    MaxLog = 7
INVARIANTS
    TypeOK
    RecordedEditsSurvive
    SettledDevicesAgreeUnlessAside
PROPERTIES
    EditsStay

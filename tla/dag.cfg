SPECIFICATION Spec
CONSTANTS
    NoHash = NoHash
    NoFile = NoFile
    NoBase = NoBase
    MultipleBases = MultipleBases
    NoVersion = NoVersion
    File = File
    SnapshotMayGo = FALSE
    CollectsEarly = FALSE
    LinesTear = FALSE
    MaxVersions = 4
    MaxFaults = 1
INVARIANTS
    NamedHistoryIsKnown
    BasesKept
CHECK_DEADLOCK FALSE

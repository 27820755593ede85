SPECIFICATION Spec
CONSTANTS
    NoHash = NoHash
    NoFile = NoFile
    NoBase = NoBase
    MultipleBases = MultipleBases
    NoVersion = NoVersion
    File = File
    SnapshotMayGo = FALSE
    CollectsEarly = FALSE
    LinesTear = FALSE
    MaxVersions = 4
    MaxFaults = 0
PROPERTY PassesWhatItFolds
CHECK_DEADLOCK FALSE

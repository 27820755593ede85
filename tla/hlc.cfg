SPECIFICATION Spec
CONSTANTS
    Devices <- MCDevices
    MaxWall = 1
    MaxOps <- MCMaxOps
    NoRound = NoRound
INVARIANTS
    TypeOK
    StampsUniqueUnlessExposed
PROPERTIES
    IssueDominates

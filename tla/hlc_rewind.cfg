SPECIFICATION Spec
CONSTANTS
    Devices <- MCDevices
    MaxWall = 1
    MaxOps <- MCMaxOps
    NoRound = NoRound
PROPERTIES SessionMonotone

SPECIFICATION Spec
CONSTANTS
    Blobs = {a, b, d}
    Callers = {c1}
    NoPack = NoPack
    MaxPacks = 3
    MaxFaults = 1
SYMMETRY Symmetry
INVARIANTS
    TypeOK
    NamedIsStored
PROPERTIES
    PacksAreWrittenOnce

SPECIFICATION Spec
CONSTANTS
    Blobs = {a, b}
    Callers = {c1, c2}
    NoPack = NoPack
    MaxPacks = 3
    MaxFaults = 0
INVARIANT NamedIsStored

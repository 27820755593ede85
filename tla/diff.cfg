SPECIFICATION Spec
CONSTANTS
    a = a
    b = b
    c = c
    d = d
    e = e
    Ours = Ours
    Base = Base
    Sep = Sep
    Theirs = Theirs
    Lines <- MCLines
    MaxLines = 3
INVARIANTS
    HunksRebuildTheText
    MergesDisjointEdits
    NothingTypedIsDropped
    PanelResolves
SYMMETRY Symmetric
CHECK_DEADLOCK FALSE

SPECIFICATION Spec
CONSTANTS
    a = a
    b = b
    c = c
    d = d
    e = e
    Ours = Ours
    Base = Base
    Sep = Sep
    Theirs = Theirs
    Lines <- MCUnderlined
    MaxLines = 3
INVARIANTS
    PanelResolves
CHECK_DEADLOCK FALSE

SPECIFICATION FairSpec
CONSTANTS
    x = x
    y = y
    c1 = c1
    c2 = c2
    NoText = NoText
    NoEntry = NoEntry
    Texts <- MCTexts
    Callers <- MCAlone
    Excused = {"registry first", "head last", "restored", "pruned", "twice", "create first"}
    MaxActs = 3
    MaxFaults = 1
INVARIANTS
    QuietTextIsTold
    OwnHistoryIsALine
PROPERTIES
    TextReachesTheServer

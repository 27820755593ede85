SPECIFICATION FairSpec
CONSTANTS
    createF = createF
    updateF = updateF
    otherG = otherG
    fileF = fileF
    fileG = fileG
    Garbage = Garbage
    NoPersist = NoPersist
    Ops <- MCOps
    Files <- MCFiles
    FileOf <- MCFileOf
    Creates <- MCCreates
    MaxQueue = 2
INVARIANTS
    TypeOK
    MarkerMatchesJournal
    WrittenStaysDurable
    ErasedStaysErased
    NoDuplicateLine
PROPERTIES
    RemovalsAreServed

SPECIFICATION FairSpec
CONSTANTS
    l1 = l1
    l2 = l2
    MaxBlock = 4
    Log = {l1}
    Height <- MCHeight
    Modes = {"block-finality", "fcr"}
    MaxRange = 2
    ProviderLimit = 2
    MaxReorgs = 1
    MaxRestarts = 1
    Faults = {"resolve", "getlogs", "lag", "insert"}
INVARIANTS
    TypeOK
    NoGap
    ChunksAreBounded
PROPERTIES
    FinalityModeStoresFinal
    CursorNeverMovesBack
    CatchesUp
    StopsOnShutdown
CHECK_DEADLOCK FALSE

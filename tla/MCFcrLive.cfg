SPECIFICATION FairSpec
CONSTANTS
    l1 = l1
    l2 = l2
    Log = {l1, l2}
    Height <- MCHeight
    MaxBlock = 2
    Modes = {"fcr"}
    Pruned = {1}
    MaxReorgs = 1
    MaxRestarts = 0
    Faults = {"rpc", "db"}
PROPERTIES
    FinalizedRowIsChecked
    StopsOnShutdown
CHECK_DEADLOCK FALSE

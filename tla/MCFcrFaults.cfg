SPECIFICATION Spec
CONSTANTS
    l1 = l1
    l2 = l2
    Log = {l1, l2}
    Height <- MCHeight
    MaxBlock = 2
    Modes = {"block-finality", "fcr"}
    Pruned = {}
    MaxReorgs = 2
    MaxRestarts = 1
    Faults = {"rpc", "db", "lostack", "insert"}
INVARIANTS
    TypeOK
    VerdictMatchesChain
    NoLostAlert
    OneAlertPerFalsePositive
CHECK_DEADLOCK FALSE

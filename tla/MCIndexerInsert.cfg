SPECIFICATION Spec
CONSTANTS
    l1 = l1
    l2 = l2
    MaxBlock = 3
    Log = {l1, l2}
    Height <- MCHeight
    Modes = {"block-finality"}
    MaxRange = 1
    ProviderLimit = 2
    MaxReorgs = 0
    MaxRestarts = 0
    Faults = {"insert"}
INVARIANTS
    NothingSkipped
CHECK_DEADLOCK FALSE

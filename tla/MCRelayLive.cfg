SPECIFICATION FairSpec
CONSTANTS
    m1 = m1
    m2 = m2
    p1 = p1
    p2 = p2
    NoMsg = NoMsg
    Rank <- MCRank
    Processor = {p1, p2}
    BridgeMode <- MCMixed
    ChannelCap = 1
    MaxRetry = 2
    Keys = {"AMB"}
    ExecConfigs <- MCForeignAny
    Required = 1
    MaxOthers = 0
    MaxInserts = 1
    MaxSignals = 1
    MaxCrashes = 0
    Faults = {"rpc", "lostsend", "receipt", "lostack", "revert"}
    Msg = {m1, m2}
PROPERTIES
    EveryRowLeavesTheQueue
    ShutdownCompletes
CHECK_DEADLOCK FALSE

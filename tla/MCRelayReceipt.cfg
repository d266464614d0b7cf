SPECIFICATION Spec
CONSTANTS
    m1 = m1
    m2 = m2
    p1 = p1
    p2 = p2
    NoMsg = NoMsg
    Rank <- MCRank
    Processor = {p1, p2}
    BridgeMode <- MCMixed
    ChannelCap = 1
    MaxRetry = 2
    Keys = {"AMB", "XDAI"}
    ExecConfigs <- MCForeignOn
    Required = 2
    MaxOthers = 2
    MaxInserts = 1
    MaxSignals = 0
    MaxCrashes = 0
    Faults = {"receipt"}
    Msg = {m1, m2}
PROPERTIES
    CompleterRelays
CHECK_DEADLOCK FALSE

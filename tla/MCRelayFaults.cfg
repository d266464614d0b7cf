SPECIFICATION Spec
CONSTANTS
    m1 = m1
    m2 = m2
    p1 = p1
    p2 = p2
    NoMsg = NoMsg
    Rank <- MCRank
    Processor = {p1, p2}
    BridgeMode <- MCMixed
    ChannelCap = 1
    MaxRetry = 2
    Keys = {"AMB", "XDAI"}
    ExecConfigs <- MCForeignOn
    Required = 1
    MaxOthers = 1
    MaxInserts = 1
    MaxSignals = 0
    MaxCrashes = 1
    Faults = {"rpc", "lostsend", "receipt", "db", "lostcommit", "decode", "rowlock"}
    Msg = {m1, m2}
INVARIANTS
    OneOwner
    ClaimHasOwner
    RetryWithinBudget
    CrashNeverResubmits
PROPERTIES
    DeleteOnlyWhenSettled
    OnlyStoredRowsAreSigned
    ImplementsEventLogs
CHECK_DEADLOCK FALSE

SPECIFICATION ServiceSpec
CONSTANTS
    l1 = l1
    p1 = p1
    NoMsg = NoMsg
    Log = {l1}
    Height <- MCHeight
    MaxBlock = 1
    Modes = {"block-finality", "fcr"}
    MaxRange = 1
    ProviderLimit = 1
    Pruned = {}
    MaxReorgs = 2
    MaxRestarts = 1
    IndexerFaults = {"insert"}
    CheckerFaults = {"db", "slowinsert", "insert"}
    BridgeMode <- MCBridgeMode
    Processor = {p1}
    ChannelCap = 1
    MaxRetry = 1
    Keys = {"AMB"}
    ExecConfigs <- MCExecConfigs
    Required = 1
    MaxOthers = 0
    MaxInserts = 1
    MaxSignals = 1
    MaxCrashes = 1
    MaxEnds = 1
    PipelineFaults = {"rowlock", "db"}
INVARIANTS
    ServiceTypeOK
    AlarmMeansBrokenSafety
    NoLogIsForgotten
PROPERTIES
    ImplementsChecker
    ImplementsPipeline
    SignaturesAreJustified
CHECK_DEADLOCK FALSE

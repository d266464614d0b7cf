SPECIFICATION FairSpec
CONSTANTS
    Urls <- MCUrls
    Beacons = {"gc"}
    MaxLookups = 2
    MaxI32 = 7
    MaxU64 = 17
INVARIANTS
    TypeOK
    ModeIsConfiguredOrVerdict
    SafeBoundIsChecked
    FailsLast
    CeilingIsUsable
PROPERTIES
    SignalEndsProcess
CHECK_DEADLOCK FALSE

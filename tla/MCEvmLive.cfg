CONSTANTS
    MaxHead = 3
    Logs <- ThreeLogs
    BlockOf <- InBlock
    TopicOf <- WithTopic
    KindOf <- AllOk
    ChanCap = 1
    MaxFaults = 0
    StartBlock = 1
    RecoverRange = 2
    MaxRecoverRange = 4
    MaxRealtimeRange = 3
    NodeLimit = 1
    MaxUint64 = 255
    Overlap = FALSE
    BatchSize = 1
    Workers = {w1}
    NoBeacon = {}
    MaxStops = 0
SPECIFICATION FairSpec
PROPERTY RecoveryFinishes
PROPERTY RecoveredArrive
PROPERTY HeadersArrive

CONSTANTS
    MaxHead = 2
    Logs <- ThreeLogs
    BlockOf <- InTwoBlocks
    TopicOf <- ThreeTopics
    KindOf <- NilThenPanic
    ChanCap = 1
    MaxFaults = 0
    StartBlock = 1
    RecoverRange = 2
    MaxRecoverRange = 4
    MaxRealtimeRange = 3
    NodeLimit = 2
    MaxUint64 = 255
    Overlap = TRUE
    BatchSize = 2
    Workers = {w1}
    NoBeacon = {1}
    MaxStops = 0
SPECIFICATION Spec
INVARIANT CheckpointWithinChain
INVARIANT PoisonContained

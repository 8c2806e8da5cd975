CONSTANTS
    Items = {0, 1, 2, 3, 4, 5, 6, 7}
    e1 = e1
    e2 = e2
    s1 = s1
    s2 = s2
    Events = {e1, e2}
    Sessions = {s1, s2}
    TxOf <- MCTxOf
    ByteBase = 5
    ChainInfoBytesSize = 3
    TagSize = 1
    ServiceTagSize = 1
    SequenceSize = 1
    HashSize = 2
    AddressSize = 1
    VaultTag <- MCVaultTag
    VaultVersion = 2
    OpReturn = 3
    PoolRedeem = 1
    UpcRedeem = 2
    ByteAt <- MCByteAt
    MaxTxs = 9
    DurationBits = 10
    BaseDelay = 5
    MaxDelay = 120
    MaxAttempts = 11
    EvmFiles <- MCEvmFiles
    BtcFiles <- MCBtcFiles
    NoBeaconRoot <- MCNoBeaconRoot
    Urls = {"", "a", "b"}
    MaxHeight = 2
    MaxServiceFaults = 1
    MaxStarts = 2
    DbRows = {{}, {0}, {0, 1}}
    TopHeight = 2
    WithVault = {2}
    Big = {2}
    MaxWire = 2
    MaxFaults = 1
SPECIFICATION LibrarySpec
INVARIANTS
    StrictlySorted
    FoundRowsStay
    BatchesNotMixed
    ChainInfoSurvives
    StakingReadBack
    ProofVerifies
    
    ServiceTypeOK
    FailureContained
    EvmChainsSeparate
    ElectrumTypeOK
    ConnConsistent
    BlockedOnlyByPing
    DiesOfFaultsOnly
    
PROPERTIES
    ImplementsMinSet
    OnlyPendingRemoved
    NoCrossing
CHECK_DEADLOCK FALSE

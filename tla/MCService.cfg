CONSTANTS
    EvmFiles <- MCEvmFiles
    BtcFiles <- MCBtcFiles
    NoBeaconRoot <- MCNoBeaconRoot
    Urls = {"", "a", "b"}
    MaxHeight = 2
    MaxServiceFaults = 0
    MaxStarts = 1
SPECIFICATION ServiceSpec
INVARIANT BtcChainsSeparate
CHECK_DEADLOCK FALSE

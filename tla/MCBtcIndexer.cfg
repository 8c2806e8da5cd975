CONSTANTS
    Chain = btc
    MaxHeight = 3
    StartHeight = 1
    EndHeight = 0
    FinalConfirmations = 2
    ChanCap = 1
    HashWorkers = {u1}
    DataWorkers = {v1, v2}
    WithVault = {1, 3}
    MaxFaults = 1
    MaxReorgs = 1
    MaxStops = 1
SPECIFICATION FairBtcSpec
INVARIANT BtcTypeOK
INVARIANT HeightsAccounted
INVARIANT VaultsAccounted
INVARIANT VaultsUnderHeader
PROPERTY IndexNeverWiped
PROPERTY HeightsSettled
PROPERTY VaultsSettled

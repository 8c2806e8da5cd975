CONSTANTS
    Chain = btc
    MaxHeight = 3
    StartHeight = 1
    EndHeight = 0
    FinalConfirmations = 2
    ChanCap = 1
    HashWorkers = {u1}
    DataWorkers = {v1}
    WithVault = {1, 3}
    MaxFaults = 0
    MaxReorgs = 1
    MaxStops = 0
SPECIFICATION BtcSpec
INVARIANT RowsConnect

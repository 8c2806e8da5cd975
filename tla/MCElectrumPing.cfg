SPECIFICATION MCElectrumSpec
CONSTANTS
    DbRows = {{}, {0}, {0, 1}}
    TopHeight = 2
    WithVault = {2}
    Big = {2}
    MaxWire = 2
    MaxFaults = 1
PROPERTY BrokenReplaced
CHECK_DEADLOCK FALSE

CONSTANTS
    e1 = e1
    e2 = e2
    s1 = s1
    s2 = s2
    Events = {e1, e2}
    Sessions = {s1, s2}
    TxOf <- MCTxOf
SPECIFICATION TokenSpec
PROPERTY OnlyUnfinishedUpdated
CHECK_DEADLOCK FALSE

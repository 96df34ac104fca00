SPECIFICATION FairSpec
CONSTANTS
    a = a
    b = b
    Table <- MCTable
    NoTable = NoTable
    NStmt = 2
    Tickets <- Starved
    ChanCap = 1
    FlushRows = 2
    Faults = {}
    MaxFaults = 0
CHECK_DEADLOCK FALSE
PROPERTIES
    KillEndsBackup

SPECIFICATION FairSpec
CONSTANTS
    a = a
    b = b
    Table <- MCTable
    NoTable = NoTable
    NStmt = 3
    Tickets <- MCTickets
    ChanCap = 1
    FlushRows = 2
    Faults = {"sync", "parse", "columns", "params", "flush"}
    MaxFaults = 1
CHECK_DEADLOCK FALSE
INVARIANTS
    FiledRight
    BackupReported
PROPERTIES
    ImplementsStore
    ParserReturns

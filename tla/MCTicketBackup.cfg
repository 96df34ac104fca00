SPECIFICATION TBSpec
CONSTANTS
    a = a
    b = b
    NoDb = NoDb
    Db <- MCDb
    Tickets <- MCTickets
    TranBatches = {0, 2}
    LongWait = TRUE
    OptDbs = {NoDb}
    Faults = {"prepare", "lost", "down", "idle", "stmt", "env", "begin", "thread", "status", "aux", "commit", "kill"}
    MaxFaults = 1
    MaxOther = 1
    NStmt = 4
    NRows = 1
    OtherTable = a
    OtherThread = 99
    OldName = OldName
    ChanCap = 1
    FlushRows = 2
    BackupFaults = {"ping", "info", "sync", "parse", "columns", "params", "flush"}
INVARIANTS
    BackupOKIsRecoverable
    NoErrorMeansRecoverable

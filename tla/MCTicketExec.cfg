SPECIFICATION Spec
CONSTANTS
    a = a
    b = b
    NoDb = NoDb
    NRec = 4
    Db <- MCDb
    Tickets <- InBatches
    TranBatches = {0, 3}
    LongWait = TRUE
    OptDbs = {NoDb, b}
    Faults = {"prepare", "lost", "down", "idle", "stmt", "env", "begin", "thread", "status", "aux", "commit", "kill"}
    MaxFaults = 2
    MaxOther = 1
INVARIANTS
    ReportTrue
    PrefixTakesEffect
    RunsInTicketSession
    BinlogFindable

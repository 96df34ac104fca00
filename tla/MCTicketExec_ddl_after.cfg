SPECIFICATION Spec
CONSTANTS
    a = a
    b = b
    NoDb = NoDb
    NRec = 3
    Db <- MCDb
    Tickets <- UseFirst
    TranBatches = {2}
    LongWait = TRUE
    OptDbs = {NoDb}
    Faults = {"stmt"}
    MaxFaults = 1
    MaxOther = 0
INVARIANTS
    PrefixExecuted

SPECIFICATION FairSpec
CONSTANTS
    t1 = t1
    t2 = t2
    d1 = d1
    d2 = d2
    NRec = 3
    Table = {t1, t2}
    Db = {d1, d2}
    DbOf <- MCDbOf
    NoTable = NoTable
    NoDb = NoDb
    OldName = OldName
    ChanCap = 1
    FlushRows = 2
INVARIANTS
    RowInOwnDb
    NothingForgotten
PROPERTIES
    BackupReturns
    ImplementsStore

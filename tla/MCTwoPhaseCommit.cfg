SPECIFICATION FairSpec
CONSTANTS
    Keys <- MCKeys
    Txn <- MCTxn
    ReadSet <- MCReadSet
    KeyList <- MCKeyList
    OpOf <- MCOpOf
    CacheSize = 1
    MaxFaults = 2
CHECK_DEADLOCK FALSE
INVARIANTS
    AllOrNothing
    ResultTrue
PROPERTIES
    Snapshot
    ReadReturns

CONSTANTS
    None = None
    Txn = {1, 2, 3}
    Keys = {1, 2}
    NumSlots = 1
    SlotOf <- MCSlotOf
    KeySeqs <- MCKeySeqs
    ListCount = 1
    Expire = 4
    ChanSize = 1
    MaxTS = 13
SPECIFICATION FairSpec
CHECK_DEADLOCK FALSE
INVARIANTS
    OwnersAgree
    ConflictSeen
PROPERTY
    WaiterReturns

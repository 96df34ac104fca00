SPECIFICATION FairSpec
CONSTANTS
    c1 = c1
    c2 = c2
    Conn = {c1, c2}
    TokenLimit = 1
    MaxReq = 1
CHECK_DEADLOCK FALSE
INVARIANTS
    TokensConserved
    NoLeak
PROPERTIES
    KilledServesNoMore
    BusyLeaves

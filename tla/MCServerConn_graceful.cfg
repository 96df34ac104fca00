SPECIFICATION FairSpec
CONSTANTS
    c1 = c1
    c2 = c2
    Conn = {c1}
    TokenLimit = 1
    MaxReq = 1
CHECK_DEADLOCK FALSE
PROPERTIES
    ShutdownCompletes

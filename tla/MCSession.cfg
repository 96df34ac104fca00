SPECIFICATION Spec
CONSTANTS
    a = a
    b = b
    NoDb = NoDb
    Conn <- MCConn
    Requests <- MCRequests
    MaxReq = 2
    MaxKill = 1
INVARIANTS
    ReplyTrue
    OnlyAuditedRuns
    SplitRight

SPECIFICATION Spec
CONSTANTS
    s1 = s1
    s2 = s2
    a = a
    NoServer = NoServer
    DeadOwner = DeadOwner
    NoRow = NoRow
    Server <- MCServer
    Handle <- MCHandle
    Value <- MCValue
    FirstRows <- MCFirstRows
    Jobs <- MCJobs
    Boundary <- MCBoundary
    Unique = FALSE
    BatchCnt = 1
    MaxTxn = 2
    MaxFault = 1
SYMMETRY Symmetry
CHECK_DEADLOCK FALSE
INVARIANTS
    IndexExact
    VersionLag

CONSTANTS
    Stmts <- MCStmts
    Lives <- MCLives
    LowerDb <- MCLowerDb
    MaxStmts = 3
SPECIFICATION Spec
CHECK_DEADLOCK FALSE
INVARIANTS
    CacheAgrees
    AuditExact
    RollbackRestores

SPECIFICATION FairSpec
CONSTANTS
    s1 = s1
    s2 = s2
    t1 = t1
    t2 = t2
    NoServer = NoServer
    Server <- MCServer
    Table <- MCTable
    Type <- MCType
    MaxJobs = 3
    MaxFault = 2
CHECK_DEADLOCK FALSE
INVARIANTS
    NoJobLost
    TableOrder
    ReorgIsOwn
PROPERTY
    EveryJobEnds

SPECIFICATION Spec
CONSTANTS
    pt = pt
    lib = lib
    bin = bin
    k1 = k1
    a1 = a1
    a2 = a2
    Job = {pt, lib, bin}
    Tool <- MCTool
    Key = {k1}
    KeyOf <- MCKeyOf
    Admin = {a1, a2}
    MaxJobs = 2
    MaxCmds = 2
    MaxLines = 1
    None = None
SYMMETRY Symmetry
CHECK_DEADLOCK FALSE
INVARIANTS
    LocksNested
    NobodyHangs
PROPERTY
    OwnEntryOnly

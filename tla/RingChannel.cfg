SPECIFICATION FairSpec
CONSTANTS
    Cpus = {c1, c2}
    Pids = {p}
    NoPid = NoPid
    Size = 2
    IdxMod = 8
    StartIdx = 6
    MaxOps = 3
    MaxVerdicts = 1
INVARIANTS
    RingIntact
    ReportJustified
    
PROPERTIES
    FetchedUntilWedged
CHECK_DEADLOCK FALSE

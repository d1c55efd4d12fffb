SPECIFICATION FairSpec
CONSTANTS
    Pids = {p1, p2}
    NoPid = NoPid
    Cpus = {c0, c1}
    IrqCpu = c0
    MaxReqs = 2
    MaxRsps = 2
INVARIANTS
    ReporterSafe
    
PROPERTIES
    ServesInOrder
    ReportsServed
    StoppedGoesOn
CHECK_DEADLOCK FALSE

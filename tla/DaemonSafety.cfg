SPECIFICATION Spec
CONSTANTS
    Doms = {d1, d2}
    Pids = {p}
    NoPid = NoPid
    NoDom = NoDom
    NPages = 2
    MaxReports = 2
    MaxBad = 1
    MaxFaults = 1
INVARIANTS
    DaemonLives
    ReportWhole
    VerdictsSound
PROPERTIES
    TextFound
SYMMETRY Symmetry
CHECK_DEADLOCK FALSE

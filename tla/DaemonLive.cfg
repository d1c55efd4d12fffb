SPECIFICATION FairSpec
CONSTANTS
    Doms = {d1, d2}
    Pids = {p}
    NoPid = NoPid
    NoDom = NoDom
    NPages = 1
    MaxReports = 1
    MaxBad = 1
    MaxFaults = 1
PROPERTIES
    RequestsServed
    ReportJudged
CHECK_DEADLOCK FALSE

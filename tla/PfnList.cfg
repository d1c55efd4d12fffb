SPECIFICATION FairSpec
CONSTANTS
    NPages = 3
    Frames = {1, 2}
    TableSize = 1
    MaxReports = 2
    MaxChanges = 2
INVARIANTS
    ListSound
    Complete
PROPERTIES
    ReportEnds
CHECK_DEADLOCK FALSE

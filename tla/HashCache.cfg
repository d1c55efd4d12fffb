SPECIFICATION HCFairSpec
CONSTANTS
    Clients = {a, b}
    Pages = {x, y, z}
    MaxSize = 2
    MaxRepeats = 1
    MaxPages = 1
INVARIANTS
    TableSound
PROPERTIES
    EntriesKept
    CallsEnd
CHECK_DEADLOCK FALSE

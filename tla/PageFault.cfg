CONSTANTS
  Threads = {t1, t2}
  None = None
SPECIFICATION FairSpec
INVARIANTS
  LockDiscipline
  Outcomes
PROPERTIES
  FaultEnds
CHECK_DEADLOCK FALSE

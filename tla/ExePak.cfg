CONSTANTS
  NBlocks = 2
  Runs = {r1, r2}
  Names = {n1}
  Tries = 2
  NoRun = NoRun
SPECIFICATION Spec
SYMMETRY Symmetry
INVARIANTS
  
  RunsClean
  CommandGoesOn
CHECK_DEADLOCK FALSE

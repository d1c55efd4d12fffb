CONSTANTS
  Bytes = {1, 200}
  Lens = {2, 3, 4, 5, 6, 7, 40, 2048}
  Offs = {1, 2, 300, 1281, 3329}
  LongTexts = {1, 2}
  MaxOps = 2
  MaxBlocks = 2
  BlockSizes = {2, 44}
  MinBlock = 2
  MaxBlock = 100
  Overhead = 8
  Tails = {18}
  Damages = {0, 1, 255}
  Pads = {0, 255}
SPECIFICATION UclSpec
INVARIANTS
  RoundTrip
  SafeBounds
  
  DamageSeen
CHECK_DEADLOCK FALSE

CONSTANTS
  NoCpu = NoCpu
  Cpus = {c1, c2}
  Ptes = {pa, pb}
  MCBatch = 3
SPECIFICATION FairSpec
INVARIANTS
  XenObeyed
  PinsTruthful
PROPERTIES
  ExitEnds

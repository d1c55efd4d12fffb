CONSTANTS
  NoCpu = NoCpu
  Cpus = {c1, c2}
  NRegions = 2
  Len2 = 2
  NMfn = 6
  RemapBatch = 2
  NRemap = 3
SPECIFICATION Spec
INVARIANTS
  FramesConsistent
  CleanHandover
  TranslationFaithful
  RemapExact
SYMMETRY Symmetry

SPECIFICATION Spec
CONSTANTS
  NIdent = 2
  MaxMem = 4
  NBuf = 3
INVARIANTS
  BootSurvives
  PagesSettled

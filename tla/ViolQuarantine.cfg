\* A quarantined brick keeps its place for ever.
SPECIFICATION FairSpec
CONSTANTS
  s1 = s1
  None = None
  Sup <- MCSup
  MaxProcs = 1
  Networks = {"none"}
  MaxRestarts = 0
  MaxExpiries = 0
PROPERTY
  QuarantineIsACrash

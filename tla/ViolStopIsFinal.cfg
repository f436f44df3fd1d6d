\* A restart past its backoff outlives stop().
SPECIFICATION Spec
CONSTANTS
  s1 = s1
  None = None
  Sup <- MCSup
  MaxProcs = 2
  Networks = {"none"}
  MaxRestarts = 1
  MaxExpiries = 0
INVARIANT
  StopIsFinal

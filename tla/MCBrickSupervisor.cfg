\* Crashes, restarts, failed starts and stop() of one supervised brick, plain or
\* in a container with networks.
SPECIFICATION FairSpec
CONSTANTS
  s1 = s1
  None = None
  Sup <- MCSup
  MaxProcs = 4
  Networks = {"none", "up"}
  MaxRestarts = 2
  MaxExpiries = 1
INVARIANTS OneBrickPerSupervisor OneCrashPending  TeardownExclusive TeardownAfterExit StopReturnsClean
PROPERTIES  StoppedNeverSpawns BringUpEnds CrashHandled ExitTearsDown

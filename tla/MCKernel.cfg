\* A stack of one rebound twice or of two rebound once, taken down in reverse, with
\* a rebind that may still be under way; or a start repeated after one that failed;
\* any brick crashing and being restarted meanwhile.  Three processes and three
\* supervisors are few enough that a behaviour may stop because none is left.
SPECIFICATION KernelSpec
CONSTANTS
  None = None
  Stacks <- MCStacks
  Sup <- MCSups
  MaxProcs = 3
  Networks = {"none"}
  MaxRestarts = 1
  MaxExpiries = 0
  MaxRebinds = 2
  MaxStarts = 2
INVARIANTS BoundIsCurrent RebindKeepsOld  StopsInReverse 
CHECK_DEADLOCK FALSE

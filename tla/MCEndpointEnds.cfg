\* Calls end in time, and with no timer the death of the peer ends them; work
\* that was abandoned is given up.
SPECIFICATION FairSpec
CONSTANTS
  MaxCalls = 2
  Streams <- OneStream
  Timeouts <- TimedOrNever
  MaxDeltas = 0
  Threshold = 1
  MaxBad = 1
PROPERTIES CallEnds AbandonedIsCancelled DeathEndsCalls

\* A call and a streaming call that overlap, with every failure.
SPECIFICATION Spec
CONSTANTS
  MaxCalls = 2
  Streams <- OneStream
  Timeouts <- Timed
  MaxDeltas = 1
  Threshold = 2
  MaxBad = 2
INVARIANTS AnswersMatch WaiterReachable StreamComplete
PROPERTY ImplementsRemoteCall

SPECIFICATION FairSpec
CONSTANTS
  r1 = r1
  r2 = r2
  None = None
  WorkerCount = 1
  Request <- Requests
  Streams <- StreamRequests
  RecoveryAttempts = 2
  MaxCrashes = 2
INVARIANT RecoveryIsDue
PROPERTY EveryRequestSettles
PROPERTY ServingReturns
PROPERTY ImplementsLending

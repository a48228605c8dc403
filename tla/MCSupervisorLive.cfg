SPECIFICATION FairSpec
CONSTANTS
  p1 = p1
  p2 = p2
  p3 = p3
  p4 = p4
  NoPid = NoPid
  Pid <- Pids3
  WorkerCount = 1
  OnGpu <- Gpu0
  Checks <- AllChecks
  Mishaps <- WorkerOnly
  MaxMishaps = 2
  MaxRecent = 3
PROPERTY DeadIsReplaced
PROPERTY WedgedIsKilled
PROPERTY StartEnds

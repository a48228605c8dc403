SPECIFICATION Spec
CONSTANTS
  p1 = p1
  p2 = p2
  p3 = p3
  p4 = p4
  NoPid = NoPid
  Pid <- Pids4
  WorkerCount = 1
  OnGpu <- Gpu0
  Checks <- AllChecks
  Mishaps <- Everything
  MaxMishaps = 2
  MaxRecent = 3
SYMMETRY PidSymmetry
INVARIANT TracksChildren
INVARIANT NoneOutlives
INVARIANT GpuAsAssigned
INVARIANT BreakerHolds
INVARIANT NotReportedDead
PROPERTY ImplementsGroup

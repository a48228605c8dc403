SPECIFICATION FairSpec
CONSTANTS
  Ladder <- MCLadder
  Quarantine = 1
  ProbeInterval = 2
  Removable = {"cuda"}
  Reexec = TRUE
  SimTier = "cuda"
  SimFault = "removed"
  MidStream = TRUE
INVARIANT HonestlyDegraded
INVARIANT Settles
INVARIANT CpuMeansCpu
INVARIANT FrameOfTheLast
PROPERTY ClimbsToTheSeen
PROPERTY DemotionLeaves
CHECK_DEADLOCK FALSE

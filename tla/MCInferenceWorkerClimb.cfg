SPECIFICATION Spec
CONSTANTS
  Ladder <- MCLadder
  Quarantine = 1
  ProbeInterval = 2
  Removable = {"cuda"}
  Reexec = TRUE
  SimTier = "cuda"
  SimFault = "removed"
  MidStream = FALSE
CHECK_DEADLOCK FALSE
INVARIANT RecoveredIsUp

SPECIFICATION Spec
CONSTANTS
  Gpus <- MCGpus
  Ram <- MCRam
  Budget <- MCBudget
  Count <- MCCount
  Mb = 2
  Ladders <- MCLadders
INVARIANT WithinBudget
INVARIANT PlacesWhatFits
INVARIANT EndsOnTheCpu
INVARIANT PoolIsTheWorkers

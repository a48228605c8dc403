SPECIFICATION FairSpec
CONSTANTS
  a1 = a1
  a2 = a2
  b1 = b1
  c1 = c1
  ra = ra
  rb = rb
  rc = rc
  rd = rd
  chat1 = chat1
  chat2 = chat2
  chat3 = chat3
  NoJob = NoJob
  Job <- Jobs4
  RequestId <- Ids2
  IdOf <- RetryIds
  Mfe = {chat1, chat2}
  MfeOf <- OneMfe
  PriorityOf <- Priorities2
  MaxSlots = 2
  MaxPerMfe = 1
  MaxQueue = 2
  AgingTicks = 1
  QueueTicks = 0
  ExecTicks = 0
  DoneTtl = 0
  DoneMax = 1
  RetryWaits = FALSE
INVARIANT PerMfeCap
INVARIANT PickedIsSpliced
PROPERTY RecordedAsSettled
PROPERTY EveryJobSettles

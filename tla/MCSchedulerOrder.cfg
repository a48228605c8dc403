SPECIFICATION Spec
CONSTANTS
  a1 = a1
  a2 = a2
  b1 = b1
  c1 = c1
  ra = ra
  rb = rb
  rc = rc
  rd = rd
  chat1 = chat1
  chat2 = chat2
  chat3 = chat3
  NoJob = NoJob
  Job <- Jobs4
  RequestId <- Ids4
  IdOf <- FreshIds
  Mfe = {chat1, chat2, chat3}
  MfeOf <- Mfes4
  PriorityOf <- Priorities4
  MaxSlots = 2
  MaxPerMfe = 1
  MaxQueue = 2
  AgingTicks = 1
  QueueTicks = 1
  ExecTicks = 1
  DoneTtl = 0
  DoneMax = 1
  RetryWaits = TRUE
INVARIANT NeverLost
INVARIANT WorkConserving
INVARIANT SlotAccounting
PROPERTY NoOvertaking
PROPERTY ImplementsAdmissionControl

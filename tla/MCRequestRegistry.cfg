SPECIFICATION FairSpec
CONSTANTS
  c1 = c1
  c2 = c2
  d1 = d1
  r0 = r0
  s0 = s0
  None = None
  Call <- Calls
  RequestId = {r0, s0}
  IdOf <- Ids
  Streams <- StreamCalls
  Ttl = 1
  MaxCrashes = 1
  MaxWriteErrors = 1
PROPERTY RunsOnce
PROPERTY SharesOnlyLive
PROPERTY StaysOnFile
PROPERTY FileCatchesUp
PROPERTY ImplementsIdempotence

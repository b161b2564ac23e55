SPECIFICATION FairSpec
CONSTANTS
  m1 = m1 m2 = m2 m3 = m3 i1 = i1
  MaxInflight = 2
  OutMsgs = {m1, m2, m3}
  OutQoS <- EachQoS
  Oversize = {}
  Batches <- OneBatch
  InMsgs = {i1}
  InQoS <- OneIn
  InPid <- OneInPid
  MaxPid = 4
  MaxRead = 1
  MaxEvents = 2
  PollKinds = {"poll"}
  CleanSession = FALSE
  MaxFaults = 1
  MaxRequests = 1
INVARIANTS TypeOK AckedIsDelivered
PROPERTIES SlotsFreed
CHECK_DEADLOCK FALSE

SPECIFICATION Spec
CONSTANTS
  m1 = m1 m2 = m2 m3 = m3 i1 = i1
  MaxInflight = 3
  OutMsgs = {m1, m2, m3}
  OutQoS <- EachQoS
  Oversize = {}
  Batches <- TwoBatches
  InMsgs = {i1}
  InQoS <- OneIn
  InPid <- OneInPid
  MaxPid = 4
  MaxRead = 2
  MaxEvents = 1
  PollKinds = {"poll_batch"}
  CleanSession = FALSE
  MaxFaults = 1
  MaxRequests = 1
INVARIANTS ExchangeAlive TrackedWasSent
CHECK_DEADLOCK FALSE

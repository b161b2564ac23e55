SPECIFICATION Spec
CONSTANTS
  m1 = m1 m2 = m2 m3 = m3 i1 = i1
  MaxInflight = 2
  OutMsgs = {m1, m2}
  OutQoS <- TwoOut
  Oversize = {m1}
  Batches <- NoBatch
  InMsgs = {}
  InQoS <- NoMessage
  InPid <- NoMessage
  MaxPid = 4
  MaxRead = 1
  MaxEvents = 2
  PollKinds = {"poll"}
  CleanSession = FALSE
  MaxFaults = 0
  MaxRequests = 1
INVARIANTS TrackedWasSent
CHECK_DEADLOCK FALSE

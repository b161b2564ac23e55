SPECIFICATION FairSpec
CONSTANTS
  c1 = c1 c2 = c2 c3 = c3 c4 = c4 c5 = c5 m1 = m1 m2 = m2 m3 = m3 m4 = m4 m5 = m5 t1 = t1 t2 = t2 t3 = t3 i1 = i1
  NoCall = NoCall
  Calls = {c1}
  Request <- OneSubscribe
  Msgs = {}
  QoSOf <- NoMessage
  Oversize = {}
  Topics = {t1}
  SubTooLong = {}
  UnsubTooLong = {}
  Invalid = {}
  Refused = {}
  InMsgs = {i1}
  InTopic <- InboundTopic
  InQoS <- InboundQoS
  MaxPid = 5
  ChannelCap = 2
  StreamCap = 2
  CleanSession = FALSE
  ReconnectEnabled = TRUE
  LimitRetries = FALSE
  MaxRetries = 0
  ResendUnacked = TRUE
  AutoResubscribe = TRUE
  MaxFaults = 1
  MaxPings = 0
PROPERTIES InboundAcked
CHECK_DEADLOCK FALSE

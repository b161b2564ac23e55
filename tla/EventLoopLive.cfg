SPECIFICATION FairSpec
CONSTANTS
  c1 = c1 c2 = c2 c3 = c3 c4 = c4 c5 = c5 m1 = m1 m2 = m2 m3 = m3 m4 = m4 m5 = m5 t1 = t1 t2 = t2 t3 = t3 i1 = i1
  NoCall = NoCall
  Calls = {c1, c2, c3, c4, c5}
  Request <- LiveCalls
  Msgs = {m1}
  QoSOf <- LiveQoS
  Oversize = {}
  Topics = {t1, t2}
  SubTooLong = {t2}
  UnsubTooLong = {t2}
  Invalid = {}
  Refused = {}
  InMsgs = {}
  InTopic <- NoInbound
  InQoS <- NoInbound
  MaxPid = 5
  ChannelCap = 2
  StreamCap = 1
  CleanSession = TRUE
  ReconnectEnabled = TRUE
  LimitRetries = FALSE
  MaxRetries = 0
  ResendUnacked = TRUE
  AutoResubscribe = TRUE
  MaxFaults = 1
  MaxPings = 0
PROPERTIES PublishResolved DisconnectStops SubscriptionsConverge
CHECK_DEADLOCK FALSE

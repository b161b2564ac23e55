SPECIFICATION FairPingSpec
CONSTANTS
  KeepAlive = 3
  HandshakeLimit = 2
  MaxHeldUp = 2
PROPERTY HeartbeatTimesOut

SPECIFICATION Spec
CONSTANTS
  k1 = k1 k2 = k2 k3 = k3 k4 = k4 k5 = k5 v1 = v1 v2 = v2 v3 = v3 w1 = w1 w2 = w2
  s1 = s1 s2 = s2
  MaxAttempt = 3
  Pids = {1, 2, 3, 4}
  QueueSize = 3
  Keys = {k1, k2, k3, k4, k5}
  Values = {v1, v2, v3}
  Length <- SomeLengths
  LongKeys = {k5}
  MaxEntries = 3
  MaxValLen = 2
  BufLens = {1, 2}
  Traffic <- SomeTraffic
  Tails <- SomeTails
  ReadSizes = {1, 2, 5, 140}
  RxCap = 140
  Clients = {w1, w2}
  Readers = {w1}
  MaxMessages = 3
  StreamCap = 1
  BroadcastCap = 1
  ClientCap = 1
  Streams = {s1, s2}
  Filters <- SomeFilters
  Topics <- SomeTopics
  QueueCap = 1
  KeepAlive = 3
  HandshakeLimit = 2
  MaxHeldUp = 2
  MaxInflight = 1
  TopicLengths = {1, 253, 255}
  Totals = {0, 2}
  Pieces = {1, 2}
  HeaderBuffer = 256
  Uris <- SomeUris
  Features = {"tls", "quic"}
  Platform = "unix"
  InitialDelay = 2
  MaxDelay = 7
  MultiplierNum = 3
  MultiplierDen = 2
  RetryLimits <- SomeLimits
  MaxAttempts = 4
  Base = 8
  Samples <- SomeSamples
  Numbers = {1, 7, 8, 70000}
  Messages <- SomeMessages
  InboxCap = 2
  Budget = 2
INVARIANTS NoReconnectAfterDisconnect ReceivedAsSent ClosedForCause FirstOfRead FedInOrder
  NoDeadBranch SilenceBounded InStep FinishedIsWhole BackedOff TypedAsSent
PROPERTIES TrackedUntilAcked StoreImplementsKV Implements ReaderGetsLatest ResponsesEnd
  SmartConnects BindingEnds
CHECK_DEADLOCK FALSE

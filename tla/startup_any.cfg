SPECIFICATION Spec
CONSTANTS
  Byte = 4
  Kilo = 4
  DefaultUdpPort = 11
  DefaultTcpPort = 12
  DefaultLength = 32
  DefaultDuration = 10
  ClientOptions <- clientOptions
  ServerOptions <- serverOptions
  Leftover <- dirty
  MaxOptions = 3
INVARIANTS TypeOK SameExperiment NothingIsZero
CHECK_DEADLOCK FALSE

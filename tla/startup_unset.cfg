SPECIFICATION Spec
CONSTANTS
  Byte = 4
  Kilo = 4
  DefaultUdpPort = 11
  DefaultTcpPort = 12
  DefaultLength = 32
  DefaultDuration = 10
  ClientOptions <- plainClient
  ServerOptions <- serverOptions
  Leftover <- unclean
  MaxOptions = 3
INVARIANTS OneWayDelayWhenAsked
CHECK_DEADLOCK FALSE

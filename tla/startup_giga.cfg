SPECIFICATION Spec
CONSTANTS
  Byte = 4
  Kilo = 4
  DefaultUdpPort = 11
  DefaultTcpPort = 12
  DefaultLength = 32
  DefaultDuration = 10
  ClientOptions <- bandwidths
  ServerOptions <- serverOptions
  Leftover <- clean
  MaxOptions = 3
INVARIANTS PositiveBandwidthLimits
CHECK_DEADLOCK FALSE

SPECIFICATION Spec
CONSTANTS
  Second = 16
  Duration = 2
  Interval = 1
  Heap = 2
  Payload = 1
  Pointers <- anyPointer
  NtpLossy = FALSE
  NtpFails = FALSE
  MaxQueue = 2
  Step = 8
  MaxStart = 16
  MaxTime = 56
INVARIANT ServerMeasures
CHECK_DEADLOCK FALSE

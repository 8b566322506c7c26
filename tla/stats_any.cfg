SPECIFICATION Spec
CONSTANTS
  Interval = 2
  HeaderLen <- MCHeaderLen
  Lens <- MCShortAndFull
  Word = 1024
  MaxId = 5
  MaxElapsed = 5
  MaxPackets = 5
INVARIANTS TypeOK LabelsBehindClock LossAtMostReceived CountersAgree DivisionSafeAfterFirstPacket
PROPERTY ReportsAreSpaced
CHECK_DEADLOCK FALSE

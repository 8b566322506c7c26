SPECIFICATION Spec
CONSTANTS
  Second = 4
  Interval = 1
  Word = 16
  Word64 = 256
  SizeLimit = 1
  Starts <- MCStarts
  Gaps <- MCWideGaps
  MaxTime = 40
  MaxPackets = 6
PROPERTY DeviationIsExact
CHECK_DEADLOCK FALSE

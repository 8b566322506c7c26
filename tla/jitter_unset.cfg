SPECIFICATION Spec
CONSTANTS
  Second = 4
  Interval = 1
  Word = 16
  Word64 = 256
  SizeLimit = 1
  Starts <- MCStarts
  Gaps <- MCGaps
  MaxTime = 24
  MaxPackets = 6
INVARIANT JitterIsPossible
CHECK_DEADLOCK FALSE

SPECIFICATION FairSpec
CONSTANTS
  Second = 1000
  Word = 4295
  Bits = 80
  Bandwidth = 1000
  Increment = 10
  Works <- works
  Uptimes <- uptimes
INVARIANT SleepBounded
PROPERTIES StreamSlowsDown StreamSpeedsUp

SPECIFICATION Spec
CONSTANTS
  N = 2
  Port = 55555
  OwnStreams = {0}
  Padding = 7
  Faults = FALSE
INVARIANT EntriesExist
CHECK_DEADLOCK FALSE

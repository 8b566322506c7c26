SPECIFICATION FairSpec
CONSTANTS
  Duration = 3
  Interval = 2
  MaxElapsed = 5
  MaxLag = 2
  MaxQueue = 2
  Lossy = TRUE
  Faults = TRUE
INVARIANTS TypeOK NormalEndIsComplete ReportsInTransit PrintedIsPast ResetAfterClose FailsOnlyIfRefused
PROPERTIES ImplementsMeasurement ClientEnds EndsOnTrafficAfterTerm
CHECK_DEADLOCK FALSE

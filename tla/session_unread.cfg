SPECIFICATION Spec
CONSTANTS
  Duration = 2
  Interval = 1
  MaxElapsed = 4
  MaxLag = 0
  MaxQueue = 2
  Lossy = FALSE
  Faults = FALSE
PROPERTY ReceivedReportsPrinted
CHECK_DEADLOCK FALSE

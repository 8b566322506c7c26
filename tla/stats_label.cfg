SPECIFICATION SpecFifo
CONSTANTS
  Interval = 2
  HeaderLen <- MCHeaderLen
  Lens <- MCOneLength
  Word = 1024
  MaxId = 5
  MaxElapsed = 5
  MaxPackets = 5
PROPERTY LabelIsElapsed
CHECK_DEADLOCK FALSE

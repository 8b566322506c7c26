SPECIFICATION PathSpec
CONSTANTS
  Interval = 1
  HeaderLen <- MCHeaderLen
  Lens <- MCOneLength
  Len1 = 4
  Word = 1024
  MaxId = 3
  MaxElapsed = 1
  MaxPackets = 3
  Clients = {c1}
  MaxExchanges = 1
INVARIANT LossIsReal
CHECK_DEADLOCK FALSE

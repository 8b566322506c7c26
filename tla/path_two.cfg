SPECIFICATION PathSpec
CONSTANTS
  Interval = 1
  HeaderLen <- MCHeaderLen
  Lens <- MCOneLength
  Len1 = 4
  Word = 1024
  MaxId = 2
  MaxElapsed = 1
  MaxPackets = 3
  Clients = {c1, c2}
  MaxExchanges = 0
INVARIANT LossIsReal
CHECK_DEADLOCK FALSE

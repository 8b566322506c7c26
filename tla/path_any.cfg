SPECIFICATION PathSpec
CONSTANTS
  Interval = 1
  HeaderLen <- MCHeaderLen
  Lens <- MCOneLength
  Len1 = 4
  Word = 1024
  MaxId = 5
  MaxElapsed = 2
  MaxPackets = 5
  Clients = {c1}
  MaxExchanges = 2
INVARIANT MissesAreExplained
PROPERTY ImplementsStreamStats
CHECK_DEADLOCK FALSE

SPECIFICATION FairSpec
CONSTANTS
  c1 = c1
  c2 = c2
  Conns = {c1}
  Torn = Torn
  Faults = {}
  MaxStarts = 3
  MaxKeys = 2
  MaxIDs = 2
  MaxEnds = 1
PROPERTIES
  StopEndsConnections

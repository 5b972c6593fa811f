SPECIFICATION FairSpec
CONSTANTS
  c1 = c1
  c2 = c2
  Conns = {c1, c2}
  Torn = Torn
  Faults = {"bind", "end"}
  MaxStarts = 2
  MaxKeys = 2
  MaxIDs = 2
  MaxEnds = 1
INVARIANTS
  TypeOK
  RunningIffActive
  SessionsExact
  HostKeyStable
PROPERTIES
  ImplementsService
  QueuedAnswered
  LoopsEnd

SPECIFICATION FairSpec
CONSTANTS
  h1 = h1
  h2 = h2
  main = main
  c1 = c1
  Handlers = {h1, h2}
  Main = main
  Conns = {c1}
  Faults = {"dns", "http", "ssh", "api"}
  MaxCalls = 3
INVARIANTS
  NothingRunsAtEnd
PROPERTIES
  RequestsAnswered
  ProcessEnds

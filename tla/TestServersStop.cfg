SPECIFICATION FairSpec
CONSTANTS
  c1 = c1
  c2 = c2
  Conns = {c1, c2}
  HttpFaults = {"timeout"}
  DnsFaults = {}
  HttpStarts = 2
  DnsStarts = 1
INVARIANTS
  IsRunningTrue

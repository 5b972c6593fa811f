SPECIFICATION Spec
CONSTANTS
  c1 = c1
  c2 = c2
  home = home
  lan = lan
  Conns = {c1, c2}
  Ips = {home, lan}
  Local = {lan}
  NoEntry = NoEntry
  TtlOk = 3
  TtlBad = 2
  MaxTime = 5
INVARIANTS
  MissBrief

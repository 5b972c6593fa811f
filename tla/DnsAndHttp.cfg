SPECIFICATION PartsSpec
CONSTANTS
  www = www
  app = app
  ip1 = ip1
  ip2 = ip2
  daemon = daemon
  n1 = n1
  n2 = n2
  n3 = n3
  v4 = v4
  c1 = c1
  c2 = c2
  home = home
  lan = lan
  Procs = {daemon}
  Names = {www, app}
  Ips = {ip1, ip2}
  NoValue = NoValue
  Absent = Absent
  Torn = Torn
  Nothing = Nothing
  Unknown = Unknown
  Faults = {"end", "write", "rename"}
  MaxEnds = 2
  Clients = {c1}
  QueryNames = {n1, n2, n3}
  Ipv4s = {v4}
  Ipv6s = {}
  MaxDepth = 2
  Visitors = {c1, c2}
  Addresses = {home, lan}
  Local = {lan}
  NoEntry = NoEntry
  TtlOk = 3
  TtlBad = 2
  MaxTime = 5
  Conns = {c1, c2}
  HttpFaults = {"bind", "timeout"}
  DnsFaults = {"bind"}
  HttpStarts = 4
  DnsStarts = 3
INVARIANTS
  OneKind
  SaveAtomic
  AckedDurable
  AckedServed
  AnswerConsistent
  ForwardedIffUnresolved
  AnswerRecent
  PortHasOwner
PROPERTIES
  ImplementsTable
  EveryQueryAnswered
  NoRefetch
  HitKept
  CallsReturn
  ServersAreServices

SPECIFICATION Spec
CONSTANTS
  www = www
  app = app
  ip1 = ip1
  ip2 = ip2
  daemon = daemon
  shell = shell
  Procs = {daemon}
  Names = {www, app}
  Ips = {ip1, ip2}
  NoValue = NoValue
  Absent = Absent
  Torn = Torn
  Nothing = Nothing
  Unknown = Unknown
  Faults = {"end", "read"}
  MaxEnds = 2
INVARIANTS
  AckedDurable

SPECIFICATION Spec
CONSTANTS
  c1 = c1
  c2 = c2
  n1 = n1
  n2 = n2
  n3 = n3
  v4 = v4
  v6 = v6
  Clients = {c1}
  Names = {n1, n2, n3}
  Ipv4s = {v4}
  Ipv6s = {}
  NoValue = NoValue
  MaxDepth = 2
INVARIANTS
  Authoritative

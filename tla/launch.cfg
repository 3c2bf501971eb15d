SPECIFICATION Spec
CONSTANTS
  u1 = u1
  u2 = u2
  port1 = port1
  port2 = port2
  host1 = host1
  host2 = host2
  local = local
  named = named
  Procs = {p1, p2}
  Launched <- MCLaunched
  Urls = {u1, u2}
  Ports = {port1, port2}
  DefaultPort = port1
  Ids = {host1, host2, local, named}
  LooksLike <- MCLooksLike
  DeriveId <- MCDeriveId
  Drafts <- MCDrafts
  MaxFaults = 1
  None = None
  Absent = Absent
  Empty = Empty
  Broken = Broken
  Down = Down
SYMMETRY Symmetry
INVARIANTS TypeOK NeverTheBrokerItself CommandsAddUp IdNamesItsUpstream

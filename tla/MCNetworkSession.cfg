SPECIFICATION MCSpec
CONSTANTS
  h1 = h1
  h2 = h2
  t1 = t1
  t2 = t2
  k1 = k1
  k2 = k2
  k3 = k3
  Hosts = {h1, h2}
  Defaults <- MCDefaults
  MaxServers = 3
  MaxSelects = 2
  Clients = {k1, k2, k3}
  Tasks = {t1, t2}
  None = None
SYMMETRY MCSymmetry
INVARIANTS
  PeersAgree
  RotationReachesAll
CHECK_DEADLOCK FALSE

SPECIFICATION LoadsSpec
CONSTANTS
  Ports = {1, 53, 54, 56}
  Macs = {2, 3}
  Vids = {0}
  Outcomes = {"ok"}
  MaxIntf = 2
  MaxNhop = 3
  MaxDefip = 2
  Keys = {k1, k2}
  NoKey = NoKey
  MaxPorts = 56
  MaxIfindex = 512
  NeighCacheSize = 2
  Ifs = {5, 512}
  Ips = {7, 8}
  Addrs = {a1}
  Other = Other
  Absent = Absent
CHECK_DEADLOCK FALSE
SYMMETRY Symmetry
INVARIANTS DefipShadowExact  PortOwnsIntf RoutesResolve
PROPERTY ImplementsFib

SPECIFICATION TablesSpec
CONSTANTS
  Ports = {53, 54}
  Macs = {1}
  Vids = {0}
  Outcomes = {"ok", "lost", "late"}
  MaxIntf = 2
  MaxNhop = 3
  MaxDefip = 2
  Keys = {k1, k2}
  NoKey = NoKey
  MaxPorts = 56
  MaxIfindex = 512
  NeighCacheSize = 1
  Ifs = {5}
  Ips = {}
  Addrs = {a1}
  Other = Other
  Absent = Absent
  EcmpEntries = 4
  EcmpGroupEntries = 3
  EgressIds = {1, 8193}
  MaxCount = 2
  FastMax = 1
  Vlans = {1}
  VlanPorts = {31, 52}
CHECK_DEADLOCK FALSE
SYMMETRY Symmetry
INVARIANTS
  TypeOK DefipKeysDistinct RoutesResolve PortOwnsIntf
  EcmpSound VlanSound
PROPERTY UsedNextHopsStable

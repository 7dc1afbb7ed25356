SPECIFICATION Spec
CONSTANTS
  Ports = {1}
  Macs = {2, 4}
  Vids = {0}
  Outcomes = {"ok"}
  MaxIntf = 2
  MaxNhop = 3
  MaxDefip = 2
  Keys = {k1}
  NoKey = NoKey
  MaxPorts = 56
  MaxIfindex = 512
  NeighCacheSize = 1
  Ifs = {5}
  Ips = {7}
  Addrs = {a1}
  Other = Other
  Absent = Absent
CHECK_DEADLOCK FALSE
INVARIANT GatewayMacInSync

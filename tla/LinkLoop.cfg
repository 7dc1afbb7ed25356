SPECIFICATION FairSpec
CONSTANTS
  Ports = {21, 22, 51}
  Macs = {}
  Outcomes = {"ok"}
  OtherFlags = {}
  MaxFlaps = 2
  MaxAdmin = 1
  MaxReadFaults = 1
  MaxTunFaults = 1
INVARIANT PortFollowsFlags
PROPERTY LoopSettles

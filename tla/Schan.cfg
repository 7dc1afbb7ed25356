SPECIFICATION FairSpec
CONSTANTS
  Callers = {netlink, link_state}
  Lens = {3, 8}
  NoCaller = NoCaller
  Config = Config
INVARIANTS TypeOK MessageOwned OutcomeTruthful ChannelClean
PROPERTY EveryCallReturns

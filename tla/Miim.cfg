SPECIFICATION Spec
CONSTANTS
  Threads = {main}
  Blocks = {b1, b2}
  Values = {"v", "w"}
  main = main
  netlink = netlink
  link = link
  Calls <- AloneCalls
  Nobody = Nobody
  MaxTimeouts = 1
  MaxFlaps = 2
INVARIANT AccessTruthful
PROPERTY OnlyAskedWrites

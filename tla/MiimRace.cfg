SPECIFICATION Spec
CONSTANTS
  Threads = {netlink, link}
  Blocks = {b1, b2}
  Values = {"v", "w"}
  main = main
  netlink = netlink
  link = link
  Calls <- RaceCalls
  Nobody = Nobody
  MaxTimeouts = 0
  MaxFlaps = 0
INVARIANT SerializedCalls

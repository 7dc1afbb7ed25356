SPECIFICATION OneTroubleSpec
CONSTANTS
  Ports = {0, 1, 21, 49}
  MaxFaults = 1
  FileSystems <- Scripts
  MaxStarts = 2
  MaxBinds = 2
INVARIANTS ResourcesOrdered AgentHealthy BlocksReady BufferExact QueuesSound FaultsStayLocal
PROPERTIES InitEnds
CHECK_DEADLOCK FALSE

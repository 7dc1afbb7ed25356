SPECIFICATION Spec
CONSTANTS
  POLL_INTERVAL_S = 2
  WDT_KEEPALIVE_S = 1
  Sensors = {s1, s2}
  Temps <- MCTemps
  SfpPorts = {1}
  BusTimeout = 1
  OperatorLeds = {"diag"}
  OperatorPwm <- MCOperatorPwm
  OperatorColors = {"amber"}
  MaxEvents = 2
  MaxMissed = 2
INVARIANTS LedsApart WatchdogFed
PROPERTIES FansCool LedsSettle

SPECIFICATION Spec
CONSTANTS
  SerdesPorts = {25, 51, 52}
  Words = 2
  MaxFaults = 2
INVARIANT LaneComesUp FirmwareRuns

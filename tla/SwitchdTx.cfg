SPECIFICATION Spec
CONSTANTS
  NumPorts = 1
  RX_DCBS = 1
  DmaSizes = {10496}
  MaxRx = 0
  MaxTx = 2
  StatBit0 = "enabled"
CHECK_DEADLOCK FALSE
INVARIANT TxIntact

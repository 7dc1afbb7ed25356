SPECIFICATION OneWaySpec
CONSTANTS
  NumPorts = 2
  RX_DCBS = 2
  DmaSizes = {6500, 10495, 10496}
  MaxRx = 3
  MaxTx = 2
  StatBit0 = "done"
CHECK_DEADLOCK FALSE
INVARIANTS DmaSound RxConserved TxIntact DetachQuiet
PROPERTIES RxDelivered ShutdownCompletes

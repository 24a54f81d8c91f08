CONSTANTS
  Clients = {c1, c2}
  NET_EXEC_QUEUE_SIZE = 2
  QueueSizes = {1, 2}
  NoProc = NoProc
SPECIFICATION FairSpec
INVARIANTS
  CallbackArgumentAlive
  OkMeansRanOnce
  SlotHeldOnce
  SendNeverBlocks
PROPERTIES
  ImplementsSerialExec
  EveryCallReturns

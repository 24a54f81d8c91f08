CONSTANTS
  MAX_TASKS = 4
  QS_M2C_TEST = TRUE
  KallocFails = FALSE
  MaxTokens = 1
SPECIFICATION FairSpec
INVARIANTS ParentAlive WaitSeesExit ExitLockOwner
PROPERTY WaitReturns

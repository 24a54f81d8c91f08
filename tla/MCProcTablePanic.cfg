CONSTANTS
  MAX_TASKS = 3
  QS_M2C_TEST = FALSE
  KallocFails = FALSE
  MaxTokens = 2
SPECIFICATION Spec
INVARIANT NoPanic
CHECK_DEADLOCK FALSE

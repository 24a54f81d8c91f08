SPECIFICATION Spec
CONSTANTS
  PcbMax = 2
  AcceptMax = 1
  RecvMax = 1
  Mss = 1
  RetryMax = 1
  SeqSize = 8
  IssStep = 8
  Ports = 1
  Faults = FALSE
  t1 = t1
  t2 = t2
  Tasks <- TwoTasks
  SocketMax = 2
  GenMax = 1
  Remotes <- OnePeer
  MaxSegments = 3
  Listening = TRUE
  MaxTokens = 1
SYMMETRY Symmetry
INVARIANT EndReachesReceivers
CHECK_DEADLOCK FALSE

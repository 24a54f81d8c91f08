SPECIFICATION FairSpec
CONSTANTS
  PcbMax = 2
  AcceptMax = 1
  RecvMax = 2
  Mss = 1
  RetryMax = 2
  SeqSize = 16
  IssStep = 5
  Ports = 2
  Faults = TRUE
  MaxBytes <- Upload
  MaxFaults = 2
  IssA = 15
  IssB = 14
INVARIANTS AckedHasArrived OldSegmentsOpenNothing
PROPERTIES CloseEnds ImplementsByteStream
CHECK_DEADLOCK FALSE

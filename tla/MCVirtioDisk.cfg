CONSTANTS
  VIRTQ_NUM = 8
  IdxMod = 16
  FaultAt = {0}
  Callers = {c1, c2, c3}
  Sectors = {s1}
  Values = {v1, v2}
  Blank = Blank
  NoOne = NoOne
SYMMETRY Symmetry
SPECIFICATION Spec
INVARIANTS DescriptorsAccounted NobodyStranded
PROPERTY ImplementsBlockDisk

CONSTANTS
  VIRTQ_NUM = 2
  IdxMod = 4
  Tasks = {k1, k2}
  MaxResets = 1
  MaxFrames = 2
  DeviceFaults = TRUE
SYMMETRY Symmetry
SPECIFICATION Spec
INVARIANTS RingsAccounted NobodyStranded
PROPERTY FramesInOrder

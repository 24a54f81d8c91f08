SPECIFICATION Spec
CONSTANTS
  Bufs = {1, 2}
  BlkSize = 2
  BlkCnt = 3
  Bytes = {1, 255}
  MaxRef = 2
INVARIANTS ChainSound ReadsFlat ActsFlat

\* Three frames in two segments; small, whole-node and two-frame requests.
CONSTANTS
  PAGE = 4
  Half = 4
  MaxRun = 2
  MemoryMap <- SplitMap
  FrameWords = 16
  Sizes = {1, 8, 12}
SPECIFICATION HeapSpec
INVARIANTS
  HeapTypeOK
  BlocksDisjoint
  NodesOrdered
  LargestNotOverstated
  HeadersDecide
PROPERTIES
  FreeListSpec
  OneWordLost
CHECK_DEADLOCK FALSE

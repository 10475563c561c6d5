\* What kmalloc says of largest, after a kfree.
CONSTANTS
  PAGE = 4
  Half = 4
  MaxRun = 2
  MemoryMap <- SplitMap
  FrameWords = 16
  Sizes = {1, 8, 12}
SPECIFICATION HeapSpec
INVARIANT LargestIsMax
CHECK_DEADLOCK FALSE

\* What the shell expects of kmalloc when memory runs out.
CONSTANTS
  PAGE = 4
  Half = 4
  MaxRun = 2
  MemoryMap <- SplitMap
  FrameWords = 16
  Sizes = {1, 8, 12}
SPECIFICATION HeapSpec
INVARIANT FailureIsNull
CHECK_DEADLOCK FALSE

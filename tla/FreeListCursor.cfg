\* The int8_t cursor of the free list against its 255 segments.
CONSTANTS
  PAGE = 4
  Half = 2
  MaxRun = 2
  MemoryMap <- OneRegion
SPECIFICATION FreeListSpec
INVARIANT AllocationFindsSpace
CHECK_DEADLOCK FALSE

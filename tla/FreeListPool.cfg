\* Up to seven segments, of which the allocator scans at most three.
CONSTANTS
  PAGE = 4
  Half = 4
  MaxRun = 3
  MemoryMap <- TwoRegions
SPECIFICATION FreeListSpec
INVARIANTS
  TypeOK
  FramesDisjoint
  FramesConserved
PROPERTY PoolSpec
CHECK_DEADLOCK FALSE

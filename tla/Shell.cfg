\* Five frames in two segments, two pointers, runs of three frames.
CONSTANTS
  PAGE = 4
  Half = 4
  MaxRun = 3
  MemoryMap <- TwoRegions
  MALLOC = 2
  RUN = 3
  ENTRIES = 2
SPECIFICATION FairShellSpec
INVARIANTS
  ShellTypeOK
  StoreOwns
  HeapListSound
PROPERTIES
  
  DumpEnds
CHECK_DEADLOCK FALSE

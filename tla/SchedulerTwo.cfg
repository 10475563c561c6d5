\* Two application processors contending for the locks: liveness.
CONSTANTS
  CPU = {c1, c2}
  Work = {w1, w2}
  BSP = bsp
  None = None
SPECIFICATION FairSpec
PROPERTIES
  AllWorkDone
  KmainHalts
CHECK_DEADLOCK FALSE

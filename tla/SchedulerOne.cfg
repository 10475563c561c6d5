\* One application processor: its idle task only ever comes back to itself.
CONSTANTS
  CPU = {c1}
  Work = {w1, w2, w3}
  BSP = bsp
  None = None
SPECIFICATION FairSpec
INVARIANT TrampolineFindsEntry
CHECK_DEADLOCK TRUE

\* kmain and two tasks, lines of three bytes.
CONSTANTS
  Task = {t1, t2}
  BSP = bsp
  LINE = 3
  None = None
SPECIFICATION FairSpec
INVARIANTS
  ConsoleTypeOK
  LinesUnbroken
  NothingOverwritten
  LateLinesWhole
  RateKept
PROPERTY AllPrinted
CHECK_DEADLOCK FALSE

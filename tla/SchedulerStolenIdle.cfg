\* Two application processors: what task.S says of the trampoline's stack.
CONSTANTS
  CPU = {c1, c2}
  Work = {w1}
  BSP = bsp
  None = None
SPECIFICATION Spec
INVARIANT TrampolineFindsEntry
CHECK_DEADLOCK FALSE

\* Three application processors: safety. A wild processor ends a behaviour.
CONSTANTS
  CPU = {c1, c2, c3}
  Work = {w1, w2}
  BSP = bsp
  None = None
SPECIFICATION Spec
INVARIANTS
  TypeOK
  LockExclusion
  WorkInOnePlace
  WorkBeforeIdle
  SavesOwnContext
  OnlyIdleStacksShared
  AstrayOnlyWhenDry
SYMMETRY Symmetric
CHECK_DEADLOCK FALSE

SPECIFICATION Spec
CONSTANTS
  c1 = c1
  c2 = c2
  Conns = {c1, c2}
  Slots = 2
  Nobody = Nobody
INVARIANTS
  NoUseAfterFree
CHECK_DEADLOCK FALSE

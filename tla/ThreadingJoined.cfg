CONSTANTS
  Threads = {t1, t2}
  Blocks = {b1, b2}
  Caller = Caller
  NULL = NULL
SPECIFICATION Spec
INVARIANTS JoinersFreeData
CHECK_DEADLOCK FALSE

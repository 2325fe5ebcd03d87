\* The process may end and not be started again: no deadlock check.
CONSTANTS
  Conns = {c1, c2}
  Nodes = {n1, n2}
  NULL = NULL
  N = 1
  Requests <- MCKinds
  FdLimits = {4}
  MaxStarts = 1
SPECIFICATION FairSpec
PROPERTIES FailsOnlyOn Answered
CHECK_DEADLOCK FALSE

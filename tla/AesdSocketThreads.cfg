\* The process may end and not be started again: no deadlock check.
CONSTANTS
  Conns = {c1, c2, c3}
  Nodes = {n1, n2, n3}
  NULL = NULL
  N = 2
  Requests <- MCLines
  FdLimits = {3, 4}
  MaxStarts = 2
SYMMETRY Symmetry
SPECIFICATION Spec
INVARIANTS NodesLive JoinIsShort ListBounded ReplyIsLog
PROPERTIES FailsOnlyOn
CHECK_DEADLOCK FALSE

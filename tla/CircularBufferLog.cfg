\* Three slots, so that the offsets wrap at a size that is not a power of two.
CONSTANTS
  N = 3
  NULL = NULL
  Ptr = {p, q}
  Sizes = {0, 1, 2}
SPECIFICATION Spec
INVARIANTS Shape FindMatchesConcatenation
PROPERTY AbstractSpec

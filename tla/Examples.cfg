CONSTANTS
  Threads = {t1, t2, t3}
  Blocks = {b1, b2, b3}
  Caller = Caller
  NULL = NULL
  MaxCalls = 2
  MaxLines = 2
  MaxFiles = 3
  Strings <- MCStrings
  Majors = {m1, m2}
SPECIFICATION MCSpec
INVARIANTS DataOwned SuccessIsReal ReturnsWhenOver LinesOnce OutputGoesToFile VerdictExact
  DeviceReached LoadFailsOnlyOnRace
PROPERTIES ThreadsReturn CallsReturn CrashOnlyWhileUnloading
CHECK_DEADLOCK FALSE

CONSTANTS
  PageBytes = 24
  Suite <- AllTests
  Tests <- OnlyStopNotObserved
  Kernels <- Linux
  Builds <- Build64
  ForkMayFail = FALSE
SPECIFICATION Spec
INVARIANT StoppedInTime
CHECK_DEADLOCK FALSE

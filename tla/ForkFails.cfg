CONSTANTS
  PageBytes = 24
  Suite <- AllTests
  Tests <- NotVacuous
  Kernels <- Linux
  Builds <- Build64
  ForkMayFail = TRUE
SPECIFICATION Spec
INVARIANT TraceeRan
CHECK_DEADLOCK FALSE

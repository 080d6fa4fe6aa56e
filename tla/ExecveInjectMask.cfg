CONSTANTS
  PageBytes = 24
  Suite <- AllTests
  Tests <- OnlyExecveInjectMask
  Kernels <- Linux
  Builds <- Build64
  ForkMayFail = FALSE
SPECIFICATION Spec
INVARIANT NoStopAtUnmask
CHECK_DEADLOCK FALSE

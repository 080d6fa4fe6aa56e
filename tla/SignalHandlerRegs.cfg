CONSTANTS
  PageBytes = 24
  Suite <- AllTests
  Tests <- OnlySignalHandlerRegs
  Kernels <- Linux
  Builds <- Build64
  ForkMayFail = FALSE
SPECIFICATION Spec
PROPERTY HandlerChecksRegs
CHECK_DEADLOCK FALSE

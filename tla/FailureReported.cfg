CONSTANTS
  PageBytes = 24
  Suite <- AllTests
  Tests <- OnlyPeekdataCrossPage
  Kernels <- FaultsAcrossPages
  Builds <- Build64
  ForkMayFail = FALSE
SPECIFICATION Spec
PROPERTY FailureReported
CHECK_DEADLOCK FALSE

CONSTANTS
  PageBytes = 24
  Suite <- WholeSuite
  Tests <- AllNames
  Plain <- MainPrograms
  Kernels <- EveryKernel
  Builds <- AllBuilds
  Directories <- EveryDirectory
  ForkMayFail = FALSE
SPECIFICATION RunSpec
INVARIANT SuiteNotices
PROPERTIES
  ImplementsSuiteRun
  SuitePasses
CHECK_DEADLOCK FALSE

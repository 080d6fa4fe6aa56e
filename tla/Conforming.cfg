CONSTANTS
  PageBytes = 24
  Suite <- AllTests
  Tests <- Orderly
  Kernels <- Linux
  Builds <- AllBuilds
  ForkMayFail = FALSE
SPECIFICATION Spec
INVARIANTS
  TypeOK
  AssertionsHold
  NothingLeftBehind
PROPERTIES
  ObservedBeforeResume
  ChecksAreStable
  EveryTestReported
CHECK_DEADLOCK FALSE

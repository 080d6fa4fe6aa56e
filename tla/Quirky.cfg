CONSTANTS
  PageBytes = 24
  Suite <- AllTests
  Tests <- AllTestNames
  Kernels <- Deviations
  Builds <- AllBuilds
  ForkMayFail = FALSE
SPECIFICATION Spec
INVARIANTS
  Detected
  Unnoticed
  VerdictHonest
PROPERTY
  ImplementsTestRun
CHECK_DEADLOCK FALSE

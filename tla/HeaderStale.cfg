CONSTANTS
  Sources <- TwoTests
  Executes <- Needs
  Edited <- Changing
SPECIFICATION BuildSpec
INVARIANTS
  HeaderCurrent

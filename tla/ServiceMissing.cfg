\* A dependency that nobody registered.
CONSTANTS
  Classes = {1, 2, 3}
  Configurations <- FrameConfigurations
  MaxSetups = 0
  Contract = FALSE
SPECIFICATION Spec
INVARIANTS MissingIsFatal
CHECK_DEADLOCK FALSE

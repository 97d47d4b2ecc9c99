CONSTANTS
  Programs <- NativeGoto
  OldPageLoading = FALSE
  MaxSocket = 3
SPECIFICATION Spec
INVARIANTS
  LoadNotMissed
CHECK_DEADLOCK FALSE

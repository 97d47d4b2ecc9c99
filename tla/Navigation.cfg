CONSTANTS
  Programs <- AllPrograms
  OldPageLoading = TRUE
  MaxSocket = 3
SPECIFICATION Spec
INVARIANTS
  RepliesMatch
  KeepsAlive
  OneEntryAway
  NodeLoadNotMissed
  ClickReinjects
CHECK_DEADLOCK FALSE

CONSTANTS
  Promises = {p1, p2}
  Targets = {t1}
  Sessions = {s1}
  NoPromise = NoPromise
  NoTarget = NoTarget
  NoSession = NoSession
  MaxEvents = 0
  MaxPipe = 2
  MaxSocket = 2
  WriteMayFail = TRUE
SPECIFICATION Spec
SYMMETRY CallSymmetry
INVARIANTS
  TypeOK
  CallInv
  AnswersMatch
  CarriedOnce
  ExitLeavesNonePending
PROPERTIES
  SettledOnce
  ImplementsRequestReply
CHECK_DEADLOCK FALSE

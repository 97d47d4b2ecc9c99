CONSTANTS
  Promises = {p1, p2}
  Targets = {t1}
  Sessions = {s1}
  NoPromise = NoPromise
  NoTarget = NoTarget
  NoSession = NoSession
  MaxEvents = 0
  MaxPipe = 1
  MaxSocket = 1
  WriteMayFail = FALSE
SPECIFICATION FairSpec
PROPERTIES
  CallsSettle
  ConnectSettles
  ChildEnds
CHECK_DEADLOCK FALSE

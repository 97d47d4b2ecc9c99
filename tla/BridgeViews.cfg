CONSTANTS
  Promises = {}
  Targets = {t1, t2}
  Sessions = {s1, s2}
  NoPromise = NoPromise
  NoTarget = NoTarget
  NoSession = NoSession
  MaxEvents = 2
  MaxPipe = 2
  MaxSocket = 2
  WriteMayFail = FALSE
SPECIFICATION Spec
SYMMETRY ViewSymmetry
INVARIANTS
  ChildViewInSync
  NodeViewInSync
  EventsInOrder
CHECK_DEADLOCK FALSE

CONSTANTS
  Events = {e1, e2}
  Callbacks = {f1, f2, f3}
  NoEvent = NoEvent
  MaxRegs = 2
  MaxEmits = 2
  Careful = TRUE
SPECIFICATION Spec
SYMMETRY Symmetry
INVARIANTS
  OnceFiresOnce
  RemovedStaysRemoved
CHECK_DEADLOCK FALSE

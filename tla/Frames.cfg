SPECIFICATION Spec
CONSTANT Mixes <- Traffic
INVARIANTS
  Delivered
  ClosedWhenDue
  SentIsReadable
CHECK_DEADLOCK FALSE

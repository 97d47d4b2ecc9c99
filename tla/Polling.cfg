CONSTANTS
  Loops <- ThreeLoops
  Unlimited = Unlimited
  Delay = 1
  MaxTurns = 3
  MaxTime = 10
SPECIFICATION FairSpec
INVARIANTS
  TypeOK
  FoundIsFresh
  OverrunBounded
  NotMissed
PROPERTIES
  LoopEnds
CHECK_DEADLOCK FALSE

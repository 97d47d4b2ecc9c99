CONSTANTS
  Cmds = {c1, c2, c3, c4}
  Ports <- AllPorts
  Invocations <- AllRuns
  Unused <- NotRun
  Workloads <- Both
  Strays = {stray}
  StrayPort <- StrayOnItsOwn
  NoCmd = NoCmd
  NoState = NoState
  Torn = Torn
  p1 = p1
  p2 = p2
  p3 = p3
  stray = stray
  c1 = c1
  c2 = c2
  c3 = c3
  c4 = c4
SPECIFICATION Spec
SYMMETRY CmdSymmetry
INVARIANTS
  StopSparesOthers
  NoDoubleLaunch
  NoOrphan
  StateIsCurrent
CHECK_DEADLOCK FALSE

CONSTANTS
  Cmds = {c1, c2}
  Ports <- AllPorts
  Invocations <- AllRuns
  Unused <- NotRun
  Workloads <- InTurn
  Strays = {stray}
  StrayPort <- StrayOnItsOwn
  NoCmd = NoCmd
  NoState = NoState
  Torn = Torn
  p1 = p1
  p2 = p2
  p3 = p3
  stray = stray
  c1 = c1
  c2 = c2
SPECIFICATION Spec
SYMMETRY CmdSymmetry
INVARIANTS
  OthersUntouched
CHECK_DEADLOCK FALSE

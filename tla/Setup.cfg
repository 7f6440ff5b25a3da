SPECIFICATION Spec
CONSTANTS
  Procs = {p, q}
  p = p
  q = q
  Asks <- MCAsks
  NoConfig = NoConfig
  Worlds <- MCWorlds
  MaxCommands = 4
  MaxChanges = 1
SYMMETRY ProcSymmetry
INVARIANTS RunsAsAsked NothingSkipped ReadyIsServed ScheduledIsInitialized
CHECK_DEADLOCK FALSE

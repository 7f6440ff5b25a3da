SPECIFICATION MCSpec
SYMMETRY DocSymmetry
CONSTANTS
  Docs = {d1, d2}
  DayLength = 3
  Window = 1
  SearchTime = 1
  EveryRuns = 2
  RecentRunLimit = 1
  Forced = {FALSE}
  MaxTime = 3
  MaxRuns = 3
INVARIANTS NothingSlips RoundCatchesUp CadenceKept

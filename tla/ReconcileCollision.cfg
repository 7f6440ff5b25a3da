SPECIFICATION MCSpec
CONSTANTS
  d1 = d1
  d2 = d2
  a = a
  b = b
  c = c
  e = e
  Docs = {d1, d2}
  Places = {a, b, c}
  Titles <- SharedTitles
  Gone = Gone
  NoPath = NoPath
  NoFile = NoFile
  Forced = {FALSE}
  Stable = 4
  Return = TRUE
  Undo = FALSE
  Coarse = FALSE
  MaxRevisions = 1
  MaxFaults = 0
  FaultKinds = {}
INVARIANTS CleanRoundIsFaithful

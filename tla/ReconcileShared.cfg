SPECIFICATION SharedSpec
SYMMETRY SharedSymmetry
CONSTANTS
  d1 = d1
  d2 = d2
  a = a
  b = b
  c = c
  e = e
  Docs = {d1, d2}
  Places = {a, b}
  Titles <- SharedTitles
  Gone = Gone
  NoPath = NoPath
  NoFile = NoFile
  Forced = {TRUE, FALSE}
  Stable = 4
  Return = TRUE
  Undo = TRUE
  Coarse = TRUE
  MaxRevisions = 3
  MaxFaults = 1
  FaultKinds = {"jitter", "fetch", "store", "crash", "tamper"}
INVARIANTS ForcedRoundIsFaithful CorruptionIsReported

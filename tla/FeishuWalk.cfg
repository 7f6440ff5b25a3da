SPECIFICATION FairSpec
CONSTANTS
  a = a
  b = b
  e = e
  g = g
  f = f
  Docs = {a, b, e, g, f}
  Folders = {f}
  Sources <- MCSources
  Wiki = Wiki
  Drive = Drive
  Nowhere = Nowhere
  InitParent <- MCParent
  PageSize = 1
  Stable = 4
  MaxChanges = 2
  MaxFaults = 1
INVARIANTS RestingIsFound
PROPERTIES TrashedMoved MissedComeBack

SPECIFICATION FairSpec
CONSTANTS
  c = c
  e = e
  title = title
  Pages = {c, e}
  Container = D
  HasIndex = TRUE
  OrphanFolder = Orphans
  DirNames = {n1, n2}
  Name <- SameName
  Tree = Tree
  Index = Index
  NoPath = NoPath
  KeepDays = 1
  Hours = 2
  MaxChanges = 3
  MaxFaults = 1
INVARIANTS TypeOK TombstoneHasBody
PROPERTIES RetentionKept LiveBodiesStay AbsentReclaimed

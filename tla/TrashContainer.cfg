SPECIFICATION Spec
CONSTANTS
  c = c
  e = e
  title = title
  Pages = {c}
  Container = D
  HasIndex = TRUE
  OrphanFolder = Orphans
  DirNames = {n1, n2}
  Name <- SameName
  Tree = Tree
  Index = Index
  NoPath = NoPath
  KeepDays = 1
  Hours = 1
  MaxChanges = 2
  MaxFaults = 0
PROPERTIES DeletesFinish

SPECIFICATION Spec
CONSTANTS
  p1 = p1
  p2 = p2
  r1 = r1
  db = db
  t = t
  u = u
  Pages = {p1, p2, r1}
  Rows = {r1}
  Databases = {db}
  Titles <- RowTitles
  Parents <- RowParents
  Root = Root
  Gone = Gone
  Orphans = Orphans
  Trash = Trash
  NoPath = NoPath
  NoTime = NoTime
  Orderings <- Orders2
  MaxChanges = 2
  MaxFaults = 1
INVARIANTS PlacesStayApart PlacedLikeFull EditedRowsHaveProperties
PROPERTIES NothingOverwritten SubtreesStayWhole

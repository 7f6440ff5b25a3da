SPECIFICATION Spec
CHECK_DEADLOCK FALSE
CONSTANTS
  p = p
  q = q
  r = r
  s = s
  unseen = unseen
  x = x
  y = y
  a = a
  A = A
  long = long
  tall = tall
  cut = cut
  md = md
  readme = readme
  index = index
  untitled = untitled
  orphansFolder = orphansFolder
  Ids = {p, q, r, s, unseen}
  NoParent = NoParent
  Orphans = Orphans
  Top = Top
  Tokens = {x, y, a, A, long, tall, cut, md, readme, index, untitled, orphansFolder}
  Lower <- MCLower
  Slug <- MCSlug
  Cut <- MCCut
  Prefix <- MCPrefix
  Reserved <- MCReserved
  Untitled = untitled
  OrphansFolderName = orphansFolder
  Readme = readme
  Index = index
  Md = md
  Inventories <- MCInventories
INVARIANTS NamesDistinct PathsDistinct OnlyCyclesDropped PlainTitlesKept

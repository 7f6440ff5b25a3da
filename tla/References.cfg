SPECIFICATION MCSpec
CONSTANTS
  d1 = d1
  d2 = d2
  d3 = d3
  k1 = k1
  a = a
  b = b
  sub = sub
  assets = assets
  Docs = {d1, d2, d3}
  Keys = {k1}
  Targets <- TargetsOf
  Assets <- AssetsOf
  Paths <- TwoDepths
  Pool <- PoolPaths
  Gone = Gone
  InTrash = InTrash
  Url = Url
  Forced = {TRUE, FALSE}
  Stable = 3
  MaxChanges = 3
  MaxFaults = 1
INVARIANTS TypeOK LinksFollow
PROPERTIES UrlsRewritten ForcedRoundRepairs

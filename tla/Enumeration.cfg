SPECIFICATION EnumerationFairSpec
CONSTANTS
  d1 = d1
  d2 = d2
  d3 = d3
  p1 = p1
  p2 = p2
  p3 = p3
  fetcher = fetcher
  asset = asset
  producer = producer
  Callers = {producer, fetcher, asset}
  Interval = 2
  Attempts = 2
  Delays = {2}
  MaxLate = 1
  Docs = {d1, d2, d3}
  Pages = {p1, p2, p3}
  Root = p1
  Reply <- Replies
  Below <- Listings
INVARIANTS EnumerationTypeOK SlotsApart
PROPERTIES WholeOrError ProducerEnds

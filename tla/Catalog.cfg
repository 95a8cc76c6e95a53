CONSTANTS
  a1 = a1  p1 = p1  p2 = p2  c1 = c1  i1 = i1
  None = None
  Animes = {a1}
  Publishers = {p1, p2}
  Consumers = {c1}
  Reindexers = {i1}
  BatchSize = 2
  MaxVersion = 2
  MaxRows = 3
  MaxFaults = 1
  Setups <- MCSetups
SPECIFICATION FairSpec
INVARIANTS StaleIsPending PublishBound
PROPERTIES IndexMovesForward EventuallyIndexed
CHECK_DEADLOCK FALSE

CONSTANTS
  Kinds = {"new", "top", "continue"}
  Ids = {1, 2, 3}
  MaxTime = 2
  Millisecond = 2
  MaxScore = 1
  Limits = {0, 1, 2, 3}
  DefaultLimit = 1
  MaxLimit = 2
SPECIFICATION FairSpec
INVARIANT PagedOnce
PROPERTY EventuallyDone
\* At the last page, with nothing left to write, the client stops.
CHECK_DEADLOCK FALSE

CONSTANTS
  e1 = e1  e2 = e2  e3 = e3  k1 = k1  k2 = k2  w1 = w1  w2 = w2
  Reports = {e1, e2, e3}
  RowKeys = {k1, k2}
  NoReport = NoReport
  Key <- MCKey
  ClientTs <- MCClientTs
  Path <- MCPath
  Rejected = {}
  Workers = {w1, w2}
  BatchSize = 2
  MaxTs = 2
  MaxFaults = 1
SPECIFICATION FairProgressSpec
INVARIANTS RowIsNewest AckedIsReflected
PROPERTY EventuallySettled
\* Once every report is settled nothing is left to do.
CHECK_DEADLOCK FALSE

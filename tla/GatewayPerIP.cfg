CONSTANTS
  c1 = c1  c2 = c2  p1 = p1  p2 = p2
  None = None
  Calls = {c1, c2}
  Setups <- LimitSetups
  MaxReconnects = 2
  StopTimeout = 1
  TTL = 1
  Peers = {p1, p2}
  Burst = 4
  Rate = 1
  Cost = 2
  Window = 3
  MaxVersion = 2
SPECIFICATION Spec
INVARIANT PerIPBound
CHECK_DEADLOCK FALSE

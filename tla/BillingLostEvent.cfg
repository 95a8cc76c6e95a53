CONSTANTS
  h1 = h1  h2 = h2  pay = pay  sub = sub  ping = ping
  None = None
  Events = {pay}
  Type <- MCType
  Handlers = {h1, h2}
  Setups <- MCPostgres
  MaxFaults = 1
  MaxForgotten = 0
SYMMETRY MCSymmetry
SPECIFICATION Spec
INVARIANT AckedIsProcessed

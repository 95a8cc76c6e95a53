CONSTANTS
  h1 = h1  h2 = h2  pay = pay  sub = sub  ping = ping
  None = None
  Events = {pay, sub, ping}
  Type <- MCType
  Handlers = {h1, h2}
  Setups <- MCSetups
  MaxFaults = 1
  MaxForgotten = 1
SPECIFICATION FairSpec
INVARIANTS PublishedIsSaved PublishBound
PROPERTIES EventuallyAcked EventuallyProcessed

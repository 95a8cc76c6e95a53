CONSTANTS
  w1 = w1  w2 = w2  create = create  vote = vote  update = update
  None = None
  Events = {create, vote, update}
  Action <- MCAction
  Settings <- MCSettings
  Workers = {w1, w2}
  BatchSize = 2
  MaxFaults = 1
SPECIFICATION FairSpec
INVARIANTS ExactlyOnce AckedIsApplied
PROPERTY EventuallySettled

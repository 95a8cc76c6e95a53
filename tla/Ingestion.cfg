CONSTANTS
  m1 = m1  bad = bad  r1 = r1  r2 = r2  e1 = e1  e2 = e2
  MalIds = {m1}
  Episodes = {e1, e2}
  MaxNumber = 2
  Invalid = {bad}
  Replicas = {r1, r2}
  MaxDeliver = 2
  MaxMessages = 2
  Setups <- MCSetups
SPECIFICATION FairSpec
INVARIANTS NoJobLost OneAnimePerMalID EpisodesAccepted
PROPERTY EventuallySettled
CHECK_DEADLOCK FALSE

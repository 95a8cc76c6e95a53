CONSTANTS
  c1 = c1  u1 = u1  u2 = u2   b1 = b1  s1 = s1  s2 = s2
  Comments = {c1}
  Users = {u1, u2}
  Bodies = {b1}
  None = None
  VoteInputs <- MCVoteInputs
  Sessions = {s1, s2}
  MaxDrift = 2
SPECIFICATION FairSpec
INVARIANT ScoreIsSum
PROPERTIES MatchesContract EventuallyAnswered

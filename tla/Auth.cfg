CONSTANTS
  r1 = r1  r2 = r2  u1 = u1  u2 = u2  s1 = s1  s2 = s2  s3 = s3
  None = None
  Reqs = {r1, r2}
  UserIds = {u1, u2}
  SessionIds = {s1, s2, s3}
  Emails <- MCEmails
  Usernames <- MCUsernames
  Lower <- MCLower
  Passwords = {"pw"}
  BootstrapAdminUsername = "root"
  RefreshTokenTTL = 0
  MaxTime = 1
SYMMETRY MCSymmetry
SPECIFICATION Spec
INVARIANTS
  ParentDead ChildWithinParentLifetime LoginUnambiguous AdminClaimsBootstrap
PROPERTY FamilyFrozen

SPECIFICATION FairSpec
CONSTANTS
  Posts = {p1, p2}
  Bodies <- MCBodies
  MaxMishaps = 3
  None = None
INVARIANTS
  JobIsWhole
PROPERTIES
  GuestEnds
CHECK_DEADLOCK FALSE

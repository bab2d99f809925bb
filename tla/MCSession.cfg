SPECIFICATION FairSpec
CONSTANTS
  Callers = {c1, c2}
  Owners = {o1, o2, o3}
INVARIANTS
  OwnersReachableUnlessDisowned
  SessionIsFresh
PROPERTIES
  LockGivenBack

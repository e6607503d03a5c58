SPECIFICATION FairSpec
CONSTANTS
  Builds = {1, 2, 3}
  Size <- MCSize
  Managers = {m1, m2}
  Calls = {c1, c2}
  Mishaps = {"create", "full", "rename", "start", "die"}
  MaxBusy = 2
  None = None
CHECK_DEADLOCK FALSE
INVARIANT BundledOrWarned
INVARIANT SelfHeals
INVARIANT TempIsRemoved
PROPERTY ChangesAtOnce
PROPERTY CallsEnd

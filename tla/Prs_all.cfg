\* Every mishap; two pull requests, two windows one after the other.
SPECIFICATION FairSpec
CONSTANTS
  p1 = p1
  p2 = p2
  b1 = b1
  b2 = b2
  Branch <- MCBranch
  PRs = {p1, p2}
  Branches = {b1, b2}
  MaxJobs = 2
  Runs = {{2}, {1, 3}}
  Mishaps = {"query", "list", "download", "attach", "volume", "rm", "cp", "detach", "package", "remove", "launch", "close"}
  None = None
  MaxWindows = 2
INVARIANT OneJobAtATime
INVARIANT OffersWhatIsThere
INVARIANT SuccessIsTheBuild
INVARIANT ImagesAreDetached
PROPERTY NothingStaysBusy
CHECK_DEADLOCK FALSE

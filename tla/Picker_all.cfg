\* An operator who clicks at any moment.
SPECIFICATION FairSpec
CONSTANTS
  MaxReleases = 1
  MaxLoads = 3
  MaxPresses = 2
INVARIANT DrawsInRange
INVARIANT OneJobAtATime
INVARIANT LastLoadIsShown
 
PROPERTY NothingStaysBusy
CHECK_DEADLOCK FALSE

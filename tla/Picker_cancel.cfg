\* A wizard cancelled while Windows asks for approval.
SPECIFICATION Spec
CONSTANTS
  MaxReleases = 1
  MaxLoads = 1
  MaxPresses = 2
PROPERTY CancelMeansNoInstall
CHECK_DEADLOCK FALSE

\* A change of channel behind the open wizard.
SPECIFICATION Spec
CONSTANTS
  MaxReleases = 1
  MaxLoads = 2
  MaxPresses = 1
PROPERTY InstallsWhatWasChosen
CHECK_DEADLOCK FALSE

\* Selecting a row before and after a change of channel.
SPECIFICATION Spec
CONSTANTS
  MaxReleases = 2
  MaxLoads = 2
  MaxPresses = 0
INVARIANT NotesAreTheSelections
CHECK_DEADLOCK FALSE

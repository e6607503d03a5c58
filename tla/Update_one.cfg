\* One manager, with every mishap but a build of main published in mid-run.
SPECIFICATION FairSpec
CONSTANTS
  Runs = {picker}
  MaxBuilds = 3
  Suffixed = {2}
  NotANumber = NotANumber
  MaxInt = 9
  Attempts = 4
  Mishaps = {"network", "scanner", "delete", "install", "query", "save", "launch", "close", "sideload"}
  NoFile = NoFile
  Damaged = Damaged
  Undeletable = Undeletable
INVARIANT OnlyVerified
INVARIANT ErrorLeavesNoTempFile
INVARIANT RecordTellsTheTruth
INVARIANT BannerTellsTheTruth
INVARIANT BannerMissesNothing
INVARIANT NeverOlderThanShown
INVARIANT InstallsWhatWasAsked
PROPERTY UpdateEnds

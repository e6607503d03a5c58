\* Every mishap.
SPECIFICATION FairSpec
CONSTANTS
  Files <- MCFiles
  MaxBuilds = 4
  Rolling = {3, 4}
  Contents <- MCContents
  Shells = {s1}
  Mishaps = {"download", "unpack", "declined", "close"}
  NoFile = NoFile
INVARIANT TypeOK
INVARIANT SuccessMeansUnpacked
INVARIANT MarkTellsTheTruth
PROPERTY InstallEnds

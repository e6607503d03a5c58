\* Everything goes wrong, and power is lost anywhere.
SPECIFICATION FairSpec
CONSTANTS
  Settings = {prefs, layout}
  Publishers = {store, sideload}
  Versions = {1, 2}
  MaxEdits = 2
  Mishaps = {"unreadable", "query", "publisher", "deploy", "remove", "save", "restore", "discard", "running", "external"}
  CrashAt = {"check", "add", "publisher", "discard", "remove", "retry", "save", "saving", "restore", "restoring", "consume"}
  NoPackage = NoPackage
  NoFolder = NoFolder
INVARIANT WipeIsFinal
PROPERTY KeepsSettings
PROPERTY MeetsContract
PROPERTY InPlaceKeepsContainer
PROPERTY RemovesOnlyOnConflict
PROPERTY CallsReturn

\* The save script stops on an error.
SPECIFICATION Spec
CONSTANTS
  Settings = {prefs, layout}
  Publishers = {store, sideload}
  Versions = {1, 2}
  MaxEdits = 1
  Mishaps = {"save"}
  CrashAt = {}
  NoPackage = NoPackage
  NoFolder = NoFolder
SYMMETRY Symmetry
INVARIANT KeptSettingsComeBack

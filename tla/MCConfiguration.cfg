SPECIFICATION Spec
CONSTANTS
  Codes = {"LT01", "LT02", "AM01"}
  Refs = {"LT01", "LT02", "AM01", "spacing", "indent", "layout", "all", "L001", "LT.old", "nonsense"}
  NoName = "none"
  Globs = {"LT*"}
  GlobOf <- MCGlobOf
  Dirs = {"top", "home", "proj", "models", "drive"}
  Ancestry <- MCAncestry
  Home = "home"
  AppDir = "appdir"
  Extra = "extra"
  Files = {"plain.sql", "inline.sql", "far.sql"}
  Strings = {"query"}
  DirOf <- MCDirOf
  Directives <- MCDirectives
  Lists <- MCLists
  Workdirs = {"proj", "models", "drive"}
  Registers <- MCRegisters
  MaxSettings = 2
  MaxEdits = 1
  MaxDocs = 2
INVARIANTS NearestWins OneReading RulesFollowConfig
PROPERTY Isolation
CHECK_DEADLOCK FALSE

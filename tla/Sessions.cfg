SPECIFICATION Spec
CONSTANTS
  Files = {1, 2}
  MainFile = 2
  Values = {"local first", "share first"}
  Default = "local first"
  DirsOf <- MCDirsOf
  MaxClock = 2
  MaxEdits = 2
  Dirs = {"local", "share", "xsessions"}
  X11Dirs <- MCX11Dirs
  Names = {"dde"}
  AutologinName = "dde"
  MaxInstalls = 1
CHECK_DEADLOCK FALSE
INVARIANTS
  TypeOK
  ConfigFollowsFiles
PROPERTY
  AutologinFindsConfigured

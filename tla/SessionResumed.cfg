SPECIFICATION Spec
CONSTANTS
  Files = {1, 2}
  MainFile = 2
  Values = {"local first", "share first"}
  Default = "local first"
  DirsOf <- MCDirsOf
  MaxClock = 1
  MaxEdits = 0
  Dirs = {"local", "share", "xsessions"}
  X11Dirs <- MCX11Dirs
  Names = {"dde"}
  AutologinName = "unset"
  MaxInstalls = 1
CHECK_DEADLOCK FALSE
PROPERTY
  AutologinResumesSession

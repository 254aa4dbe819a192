CONSTANTS
  Values = {none, a, mangled}
  Default = none
  Foreign = {foreign, mangled}
  Mangled = mangled
  MaxLines = 5
  MaxEdited = 4
  MaxSaves = 1
SPECIFICATION Spec
INVARIANT TypeOK
PROPERTIES SavedIsLoaded OthersLinesKept

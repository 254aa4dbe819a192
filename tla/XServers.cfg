SPECIFICATION FairSpec
CONSTANTS
  Servers = {x1, x2, x3}
  NoServer = none
  MaxDisplays = 3
CHECK_DEADLOCK FALSE
INVARIANTS
  TypeOK
  AuthorityNamesDisplay
  NoOrphan
PROPERTIES
  ReplacedAfterEnd
  EndNoticed

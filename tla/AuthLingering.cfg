SPECIFICATION FairSpec
CONSTANT
  Lingering = TRUE
CHECK_DEADLOCK FALSE
PROPERTY
  FinishedWhenSessionEnds

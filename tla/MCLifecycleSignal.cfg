SPECIFICATION FairSpec
CONSTANTS
  Size = 3
  Inputs <- GoodInput
  MaxSignals = 1
\* This is the stop the run is to show.
CHECK_DEADLOCK FALSE
PROPERTY
  WorldNotified

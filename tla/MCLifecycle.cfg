SPECIFICATION FairSpec
CONSTANTS
  Size = 3
  Inputs <- MCInputs
  MaxSignals = 1
\* Ranks that find different files wait for each other for good, and an early signal does the same.
CHECK_DEADLOCK FALSE
INVARIANTS
  TypeOK
  NoStartBeforeSignal
PROPERTIES
  AllExit
  Staged

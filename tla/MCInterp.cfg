SPECIFICATION FairSpec
CONSTANTS
  Size = 3
  Members <- MCMembers
  Programs <- MCPrograms
\* A kernel that is not balanced may leave ranks waiting for each other.
CHECK_DEADLOCK FALSE
INVARIANTS
  TypeOK
  MasterAlone
  SamePlace
  NeverStuck
  ExecutedAsOften
  EventsMeasure
  CoreIdsFollowStart
PROPERTY
  BalancedFinishes

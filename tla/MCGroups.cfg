SPECIFICATION FairSpec
CONSTANTS
  Size = 3
  DefLists <- MCDefLists
  OptionLists <- MCOptionLists
  Unread <- MCUnread
  Strays <- MCStrays
  IntMax = 6
\* Ranks that hold different sizes may wait for each other for good, and an overflow aborts.
CHECK_DEADLOCK FALSE
INVARIANTS
  TypeOK
  SingleExclusive
  SubtagDisjoint
  CommConsistent
  CutOnlyAtTop
  Packed
PROPERTY
  EveryRankReturns

SPECIFICATION Spec
CONSTANTS
  Size = 1
  Members <- MCNobody
  Programs <- NestedTiming
INVARIANT
  TimeIdsFollowStart
